----------------------------- MODULE PatchProofs -----------------------------
(***************************************************************************)
(* What holds of the patch engine, of the verification of an applied patch *)
(* and of the review of patches, for every file, every text, every bound   *)
(* and every interleaving.                                                 *)
(*                                                                         *)
(* The engine (PatchEngine, SourceText).  What its functions return and    *)
(* where the bytes of what it writes come from: a file with one region     *)
(* replaced is the file before it, the new bytes and the file after it,    *)
(* and the match region, read as text, is old_string.  The text of a file  *)
(* is fixed by the list of the bytes that begin a character (TextOfBegins),*)
(* so a statement about the text of a piece of a file, or of a text whose  *)
(* line ends were written again, is one about such a list.                 *)
(*                                                                         *)
(* The verification (PatchVerification).  VerificationInv adds to the      *)
(* verdict what the application reported and where it changed the file.    *)
(*                                                                         *)
(* The review (PatchReview).  None of its invariants is inductive alone.   *)
(* What they lack is the agreement of the running handler with the queue   *)
(* (HandlerInv), the history of the patches that are still ahead of the    *)
(* cursor (LedgerInv), the binding of the session's draft (DraftApplies),  *)
(* the agreement of undisturbed files with the scan (ScanInv), while a     *)
(* file is replaced and not recorded what was in it (ReplacedInv), and the *)
(* layout of a file that was patched: the bytes of the scan one by one,    *)
(* those of each applied region replaced by one piece, and every open      *)
(* patch at the places its region has moved to (PlacesInv); together they  *)
(* are (IInv).                                                             *)
(***************************************************************************)
EXTENDS PatchReview, PatchVerification, DataLemmas

-----------------------------------------------------------------------------
(* The functions of the engine and their types. *)

(* A file has no more characters than bytes.                               *)
LEMMA CharactersCount ==
  ASSUME NEW raw \in Seq(Byte)
  PROVE  Characters(raw) \in 0..Len(raw)
BY PositionsCount DEF Characters, UnitStarts

(* A byte offset lies in the file.                                         *)
LEMMA OffsetRange ==
  ASSUME NEW raw \in Seq(Byte), NEW n
  PROVE  ByteOffset(raw, n) \in 0..Len(raw)
BY PositionsCount DEF ByteOffset

(* The character of a byte is one of the characters.                       *)
LEMMA CharacterAtCount ==
  ASSUME NEW raw \in Seq(Byte), NEW i
  PROVE  CharacterAt(raw, i) \in 0..Len(raw)
BY PositionsCount DEF CharacterAt, UnitStarts

(* Later characters have later offsets.                                    *)
LEMMA OffsetMonotone ==
  ASSUME NEW raw \in Seq(Byte), NEW p \in Int, NEW q \in Int, p <= q
  PROVE  ByteOffset(raw, p) <= ByteOffset(raw, q)
<1> DEFINE Upto(n) == {i \in 1..Len(raw) : CharacterAt(raw, i) <= n}
<1>1. Upto(p) \subseteq Upto(q)
  BY CharacterAtCount
<1>2. Upto(q) \subseteq 1..Len(raw) /\ Len(raw) \in Nat
  OBVIOUS
<1> QED
  BY <1>1, <1>2, CountsMonotone DEF ByteOffset

(* A character of the text begins at a byte of the file. *)
LEMMA OffsetInside ==
  ASSUME NEW raw \in Seq(Byte), NEW n \in Nat, n < Characters(raw)
  PROVE  ByteOffset(raw, n) < Len(raw)
<1>1. Len(raw) \in Nat /\ Len(raw) > 0
  BY CharactersCount
<1>2. CharacterAt(raw, Len(raw)) = Characters(raw)
  <2>1. UnitStarts(raw) \subseteq 1..Len(raw)
    BY DEF UnitStarts
  <2>2. {j \in UnitStarts(raw) : j <= Len(raw)} = UnitStarts(raw)
    BY <1>1, <2>1
  <2> QED
    BY <2>2 DEF CharacterAt, Characters
<1>3. {i \in 1..Len(raw) : CharacterAt(raw, i) <= n} \subseteq 1..(Len(raw) - 1)
  BY <1>1, <1>2, CharactersCount
<1> QED
  BY <1>1, <1>3, PositionsCount DEF ByteOffset

(* Normalising gives a text of bytes with one byte per character.          *)
LEMMA NormalizeType ==
  ASSUME NEW raw \in Seq(Byte)
  PROVE  Normalize(raw) \in Seq(Byte) /\ Len(Normalize(raw)) = Characters(raw)
<1>1. Characters(raw) \in Nat
  BY CharactersCount
<1>2. ASSUME NEW k \in 1..Characters(raw)
      PROVE  raw[ByteOffset(raw, k - 1) + 1] \in Byte
  <2>1. ByteOffset(raw, k - 1) + 1 \in 1..Len(raw)
    BY <1>1, OffsetInside, OffsetRange
  <2> QED
    BY <2>1
<1> QED
  BY <1>1, <1>2, LineEndingAssumption DEF Normalize

(* The line ending of a file is a nonempty sequence of bytes.              *)
LEMMA DetectNewlineType ==
  ASSUME NEW raw
  PROVE  /\ DetectNewline(raw) \in Seq(Byte)
         /\ DetectNewline(raw) # <<>>
BY LineEndingAssumption DEF DetectNewline

(* Lines and columns are numbers.                                          *)
LEMMA PositionAfterType ==
  ASSUME NEW prefix \in Seq(Byte)
  PROVE  PositionAfter(prefix) \in Position
<1> DEFINE text     == Normalize(prefix)
           newlines == {k \in 1..Len(text) : text[k] = LF}
           lastLine == {k \in 1..Len(text) : newlines \cap k..Len(text) = {}}
<1>1. Len(text) \in Nat
  BY NormalizeType
<1>2. newlines \subseteq 1..Len(text) /\ lastLine \subseteq 1..Len(text)
  OBVIOUS
<1>3. Cardinality(newlines) \in Nat /\ Cardinality(lastLine) \in Nat
  BY <1>1, <1>2, PositionsCount
<1> QED
  BY <1>3 DEF PositionAfter, Position

(* A region of a file between two offsets in it is a region.               *)
LEMMA RegionIsTyped ==
  ASSUME NEW raw \in Seq(Byte), NEW start \in 0..Len(raw), NEW end \in 0..Len(raw)
  PROVE  Region(raw, start, end) \in RegionType
<1>1. SubSeq(raw, 1, start) \in Seq(Byte) /\ SubSeq(raw, 1, end) \in Seq(Byte)
  BY SubSeqType
<1>2. /\ PositionAfter(SubSeq(raw, 1, start)) \in Position
      /\ PositionAfter(SubSeq(raw, 1, end)) \in Position
  BY <1>1, PositionAfterType
<1>3. start \in Nat /\ end \in Nat
  OBVIOUS
<1> QED
  BY <1>2, <1>3 DEF Region, RegionType

(* The bytes of a region that ends in the file.                            *)
LEMMA BytesAtType ==
  ASSUME NEW raw \in Seq(Byte), NEW region,
         region.start_offset \in Nat, region.end_offset \in 0..Len(raw)
  PROVE  BytesAt(raw, region) \in Seq(Byte)
BY SubSeqType DEF BytesAt

(* The first of some indexes is the least of them.                         *)
LEMMA FirstOfIsLeast ==
  ASSUME NEW indexes, indexes \subseteq Nat, indexes # {}
  PROVE  FirstOf(indexes) \in indexes /\ \A q \in indexes : FirstOf(indexes) <= q
BY LeastNatural DEF FirstOf

(* Replacing a region of a file gives a file, and how long it is.          *)
LEMMA SpliceType ==
  ASSUME NEW raw \in Seq(Byte), NEW bytes \in Seq(Byte), NEW region,
         region.start_offset \in 0..Len(raw), region.end_offset \in 0..Len(raw)
  PROVE  /\ Splice(raw, region, bytes) \in Seq(Byte)
         /\ Len(Splice(raw, region, bytes)) =
              region.start_offset + Len(bytes) + (Len(raw) - region.end_offset)
<1> DEFINE before == SubSeq(raw, 1, region.start_offset)
           after  == SubSeq(raw, region.end_offset + 1, Len(raw))
<1>1. /\ before \in Seq(Byte) /\ Len(before) = region.start_offset
      /\ after \in Seq(Byte) /\ Len(after) = Len(raw) - region.end_offset
  BY SubSeqType
<1> HIDE DEF before, after
<1>2. before \o bytes \in Seq(Byte) /\ Len(before \o bytes) = Len(before) + Len(bytes)
  BY <1>1, ConcatProperties
<1>3. /\ (before \o bytes) \o after \in Seq(Byte)
      /\ Len((before \o bytes) \o after) = Len(before \o bytes) + Len(after)
  BY <1>1, <1>2, ConcatProperties
<1> QED
  BY <1>1, <1>2, <1>3 DEF Splice, before, after

(* Writing a text with the line ending of a file gives bytes.              *)
LEMMA RestoreNewlinesType ==
  ASSUME NEW text \in Seq(Byte), NEW newline \in Seq(Byte), newline # <<>>
  PROVE  RestoreNewlines(text, newline) \in Seq(Byte)
<1> DEFINE longer    == Len(newline) - 1
           starts(k) == k + longer * Cardinality({j \in 1..(k - 1) : text[j] = LF})
           which(i)  == Cardinality({k \in 1..Len(text) : starts(k) <= i})
           size      == starts(Len(text) + 1) - 1
<1>1. longer \in Nat /\ Len(text) \in Nat
  OBVIOUS
<1>2. ASSUME NEW k \in Nat \ {0} PROVE starts(k) \in Nat \ {0}
  <2>1. {j \in 1..(k - 1) : text[j] = LF} \subseteq 1..(k - 1) /\ k - 1 \in Nat
    OBVIOUS
  <2>2. Cardinality({j \in 1..(k - 1) : text[j] = LF}) \in Nat
    BY <2>1, PositionsCount
  <2> QED
    BY <1>1, <2>2
<1>3. starts(1) = 1
  <2>1. {j \in 1..(1 - 1) : text[j] = LF} = {}
    OBVIOUS
  <2>2. Cardinality({j \in 1..(1 - 1) : text[j] = LF}) = 0
    BY <2>1, FS_EmptySet
  <2> QED
    BY <1>1, <2>2
<1>4. size \in Nat
  <2>1. starts(Len(text) + 1) \in Nat \ {0}
    BY <1>1, <1>2
  <2> QED
    BY <2>1
<1>5. ASSUME NEW i \in 1..size PROVE which(i) \in 1..Len(text)
  <2>1. CASE Len(text) = 0
    BY <1>3, <1>4, <2>1
  <2>2. CASE Len(text) # 0
    <3> DEFINE S == {k \in 1..Len(text) : starts(k) <= i}
    <3>1. S \subseteq 1..Len(text)
      OBVIOUS
    <3>2. 1 \in S
      BY <1>1, <1>3, <2>2
    <3> HIDE DEF S
    <3>3. IsFiniteSet(S) /\ Cardinality(S) \in 0..Len(text)
      BY <1>1, <3>1, PositionsCount
    <3>4. Cardinality(S) # 0
      BY <3>2, <3>3, FS_EmptySet
    <3> QED
      BY <1>1, <3>3, <3>4 DEF S
  <2> QED
    BY <2>1, <2>2
<1>6. newline[1] \in Byte /\ newline[Len(newline)] \in Byte
  BY <1>1
<1> DEFINE byte(i) == IF text[which(i)] # LF THEN text[which(i)]
                      ELSE IF i = starts(which(i)) THEN newline[1]
                      ELSE newline[Len(newline)]
<1>7. \A i \in 1..size : byte(i) \in Byte
  BY <1>5, <1>6
<1>8. RestoreNewlines(text, newline) = [i \in 1..size |-> byte(i)]
  BY DEF RestoreNewlines
<1> HIDE DEF byte, size
<1> QED
  BY <1>4, <1>7, <1>8
(* A string that is found is found at a region of the file.                *)
LEMMA MatchRegionType ==
  ASSUME NEW file \in Seq(Byte), NEW old \in Seq(Byte), LocatesUnique(file, old)
  PROVE  /\ MatchRegion(file, old) \in RegionType
         /\ MatchRegion(file, old).start_offset <= MatchRegion(file, old).end_offset
         /\ MatchRegion(file, old).end_offset <= Len(file)
<1> DEFINE found == Occurrences(Normalize(file), Normalize(old))
           start == FirstOf(found)
           end   == start + Len(Normalize(old))
<1>1. Len(Normalize(file)) \in Nat /\ Len(Normalize(old)) \in Nat
  BY NormalizeType
<1>2. found \subseteq Nat /\ found # {}
  <2>1. found \subseteq Nat
    BY <1>1 DEF Occurrences
  <2>2. found # {}
    BY DEF LocatesUnique, CountIsOne
  <2> QED
    BY <2>1, <2>2
<1>3. start \in Nat
  BY <1>2, FirstOfIsLeast
<1> HIDE DEF start
<1>4. /\ ByteOffset(file, start) \in 0..Len(file)
      /\ ByteOffset(file, end) \in 0..Len(file)
      /\ ByteOffset(file, start) <= ByteOffset(file, end)
  BY <1>1, <1>3, OffsetRange, OffsetMonotone
<1>5. MatchRegion(file, old) = Region(file, ByteOffset(file, start), ByteOffset(file, end))
  BY DEF MatchRegion, RegionInOriginal, start
<1>6. Region(file, ByteOffset(file, start), ByteOffset(file, end)) \in RegionType
  BY <1>4, RegionIsTyped
<1> QED
  BY <1>4, <1>5, <1>6 DEF Region

(* Where the bytes of a file with a region of it replaced come from.       *)
LEMMA SpliceParts ==
  ASSUME NEW raw \in Seq(Byte), NEW bytes \in Seq(Byte), NEW region,
         region.start_offset \in Nat, region.end_offset \in 0..Len(raw),
         region.start_offset <= region.end_offset
  PROVE  LET at == region.start_offset
             by == Len(bytes) - (region.end_offset - region.start_offset)
             new == Splice(raw, region, bytes)
         IN  /\ \A k \in 1..at : new[k] = raw[k]
             /\ \A k \in 1..Len(bytes) : new[at + k] = bytes[k]
             /\ \A k \in (region.end_offset + 1)..Len(raw) : new[k + by] = raw[k]
<1> DEFINE at == region.start_offset
           end == region.end_offset
           head == SubSeq(raw, 1, at)
           tail == SubSeq(raw, end + 1, Len(raw))
           new == Splice(raw, region, bytes)
<1>1. /\ head \in Seq(Byte) /\ Len(head) = at /\ \A k \in 1..at : head[k] = raw[k]
  BY SubSeqType
<1>2. /\ tail \in Seq(Byte) /\ Len(tail) = Len(raw) - end
      /\ \A k \in 1..(Len(raw) - end) : tail[k] = raw[end + k]
  <2>1. end + 1 \in Nat \ {0} /\ Len(raw) \in 0..Len(raw)
    OBVIOUS
  <2>2. /\ tail \in Seq(Byte)
        /\ Len(tail) = IF end + 1 <= Len(raw) THEN Len(raw) - (end + 1) + 1 ELSE 0
        /\ \A k \in 1..(Len(raw) - (end + 1) + 1) : tail[k] = raw[end + 1 + k - 1]
    BY <2>1, SubSeqType
  <2> HIDE DEF tail
  <2>3. Len(raw) \in Nat /\ end \in Nat /\ end <= Len(raw)
    OBVIOUS
  <2>4. \A e, n \in Nat : e <= n => /\ n - (e + 1) + 1 = n - e
                                   /\ (IF e + 1 <= n THEN n - (e + 1) + 1 ELSE 0) = n - e
                                   /\ \A k \in 1..(n - e) : e + 1 + k - 1 = e + k
    OBVIOUS
  <2> QED
    BY <2>2, <2>3, <2>4
<1>3. new = (head \o bytes) \o tail
  BY DEF Splice
<1> HIDE DEF head, tail, new
<1>4. /\ head \o bytes \in Seq(Byte) /\ Len(head \o bytes) = at + Len(bytes)
      /\ \A k \in 1..at : (head \o bytes)[k] = head[k]
      /\ \A k \in 1..Len(bytes) : (head \o bytes)[at + k] = bytes[k]
  <2>1. /\ head \o bytes \in Seq(Byte) /\ Len(head \o bytes) = Len(head) + Len(bytes)
        /\ \A k \in 1..Len(head) : (head \o bytes)[k] = head[k]
        /\ \A k \in 1..Len(bytes) : (head \o bytes)[Len(head) + k] = bytes[k]
    <3>1. head \in Seq(Byte) /\ bytes \in Seq(Byte)
      BY <1>1
    <3> QED
      BY <3>1, ConcatParts, SMTT(30)
  <2> QED
    BY <1>1, <2>1, Zenon
<1>5. /\ \A k \in 1..(at + Len(bytes)) : new[k] = (head \o bytes)[k]
      /\ \A k \in 1..(Len(raw) - end) : new[at + Len(bytes) + k] = tail[k]
  <2> DEFINE start == head \o bytes
  <2>1. start \in Seq(Byte) /\ tail \in Seq(Byte)
    BY <1>2, <1>4
  <2>2. new = start \o tail
    BY <1>3
  <2> HIDE DEF start
  <2>3. /\ \A k \in 1..Len(start) : new[k] = start[k]
        /\ \A k \in 1..Len(tail) : new[Len(start) + k] = tail[k]
    BY <2>1, <2>2, ConcatParts, SMTT(30)
  <2>4. Len(start) = at + Len(bytes)
    BY <1>4 DEF start
  <2> QED
    BY <1>2, <2>3, <2>4, Zenon DEF start
<1>6. at \in Nat /\ end \in Nat /\ Len(raw) \in Nat /\ Len(bytes) \in Nat
  OBVIOUS
<1>10. \A m, n \in Nat : /\ \A k \in 1..m : k \in 1..(m + n)
                         /\ \A k \in 1..n : m + k \in 1..(m + n)
  OBVIOUS
<1>7. \A k \in 1..at : new[k] = raw[k]
  BY <1>1, <1>4, <1>5, <1>6, <1>10, Zenon
<1>8. \A k \in 1..Len(bytes) : new[at + k] = bytes[k]
  BY <1>4, <1>5, <1>6, <1>10, Zenon
<1>9. ASSUME NEW k \in (end + 1)..Len(raw)
      PROVE  new[k + (Len(bytes) - (end - at))] = raw[k]
  <2>1. k - end \in 1..(Len(raw) - end)
    BY <1>6
  <2>2. at + Len(bytes) + (k - end) = k + (Len(bytes) - (end - at)) /\ end + (k - end) = k
    BY <1>6
  <2>3. new[at + Len(bytes) + (k - end)] = tail[k - end] /\ tail[k - end] = raw[end + (k - end)]
    BY <1>2, <1>5, <2>1
  <2> QED
    BY <2>2, <2>3
<1> QED
  BY <1>7, <1>8, <1>9 DEF new

(* What an application that passes its checks does to the file it read,    *)
(* and what it reports.                                                    *)
LEMMA ApplicationFacts ==
  ASSUME NEW raw \in Seq(Byte), NEW d, d.old \in Seq(Byte), d.new \in Seq(Byte),
         ApplyChecks(raw, d)
  PROVE  LET at == d.match_region
             to == ChangedRegion(raw, d)
         IN  /\ at \in RegionType /\ at.start_offset <= at.end_offset
             /\ at.end_offset <= Len(raw)
             /\ Replacement(raw, d) \in Seq(Byte)
             /\ FinalBytes(raw, d) \in Seq(Byte)
             /\ Len(FinalBytes(raw, d)) =
                  at.start_offset + Len(Replacement(raw, d)) + (Len(raw) - at.end_offset)
             /\ to \in RegionType
             /\ to.start_offset = at.start_offset
             /\ to.end_offset = at.start_offset + Len(Replacement(raw, d))
             /\ to.from = at.from
<1> DEFINE at == d.match_region
           written == Replacement(raw, d)
           new == FinalBytes(raw, d)
           to == ChangedRegion(raw, d)
<1>1. /\ at \in RegionType /\ at.start_offset <= at.end_offset /\ at.end_offset <= Len(raw)
      /\ at.from = PositionAfter(SubSeq(raw, 1, at.start_offset))
  <2>1. LocatesUnique(raw, d.old) /\ MatchRegion(raw, d.old) = at
    BY DEF ApplyChecks
  <2>2. at.from = PositionAfter(SubSeq(raw, 1, at.start_offset))
    BY <2>1 DEF MatchRegion, RegionInOriginal, Region
  <2> QED
    BY <2>1, <2>2, MatchRegionType
<1>2. written \in Seq(Byte)
  <2>1. Normalize(d.new) \in Seq(Byte)
    BY NormalizeType
  <2>2. DetectNewline(raw) \in Seq(Byte) /\ DetectNewline(raw) # <<>>
    BY DetectNewlineType
  <2> QED
    BY <2>1, <2>2, RestoreNewlinesType DEF Replacement
<1> HIDE DEF written
<1>3. at.start_offset \in 0..Len(raw) /\ at.end_offset \in 0..Len(raw)
  BY <1>1 DEF RegionType
<1>4. new = Splice(raw, at, written)
  BY DEF FinalBytes, written
<1> HIDE DEF at
<1>5. /\ new \in Seq(Byte)
      /\ Len(new) = at.start_offset + Len(written) + (Len(raw) - at.end_offset)
  <2> HIDE DEF new
  <2> QED
    BY <1>2, <1>3, <1>4, SpliceType, ZenonT(40)
<1>6. \A k \in 1..at.start_offset : new[k] = raw[k]
  <2>1. at.start_offset \in Nat /\ at.start_offset <= at.end_offset
    BY <1>1, <1>3
  <2> HIDE DEF new
  <2> QED
    BY <1>2, <1>3, <1>4, <2>1, SpliceParts
<1> DEFINE start == at.start_offset
           end == start + Len(written)
<1>7. start \in 0..Len(new) /\ end \in 0..Len(new)
  <2>1. Len(written) \in Nat /\ Len(raw) \in Nat
    BY <1>2
  <2>2. \A s, w, r, e \in Nat : e <= r => s \in 0..(s + w + (r - e)) /\ s + w \in 0..(s + w + (r - e))
    OBVIOUS
  <2>3. start \in Nat /\ at.end_offset \in Nat /\ at.end_offset <= Len(raw)
    BY <1>3, <2>1
  <2> QED
    BY <1>5, <2>1, <2>2, <2>3, Zenon
<1>8. to = Region(new, start, end)
  BY DEF ChangedRegion, written, at
<1> HIDE DEF new, to
<1>9. SubSeq(new, 1, start) = SubSeq(raw, 1, start)
  <2>1. start \in 0..Len(raw)
    BY <1>3
  <2>2. \A i \in 1..(start - 1 + 1) : new[1 + i - 1] = raw[1 + i - 1]
    BY <1>3, <1>6
  <2> HIDE DEF start
  <2> DEFINE x == SubSeq(new, 1, start)
             y == SubSeq(raw, 1, start)
  <2>3. PartsAgree(Byte, x, new, 1, start, y, raw, 1, start)
    BY <1>5, <1>7, <2>1, <2>2 DEF PartsAgree
  <2> HIDE DEF x, y
  <2>4. x = y
    BY <2>3, SameParts, Zenon
  <2> QED
    BY <2>4 DEF x, y
<1>10. to.from = at.from
  BY <1>1, <1>8, <1>9 DEF Region
<1>11. to.start_offset = start /\ to.end_offset = end
  BY <1>8 DEF Region
<1>12. to \in RegionType
  <2> HIDE DEF start, end
  <2> QED
    BY <1>5, <1>7, <1>8, RegionIsTyped
<1> QED
  BY <1>1, <1>2, <1>5, <1>10, <1>11, <1>12 DEF new, to, at, written

(* A set of positions that has all positions before each of its own.       *)
LEMMA PrefixSet ==
  ASSUME NEW n \in Nat, NEW D, D \subseteq 1..n,
         \A i, j \in 1..n : j \in D /\ i <= j => i \in D
  PROVE  D = 1..Cardinality(D)
<1>1. CASE D = 1..n
  BY <1>1, FS_Interval
<1>2. CASE D # 1..n
  <2>1. (1..n) \ D \subseteq Nat /\ (1..n) \ D # {}
    <3>1. PICK x \in 1..n : x \notin D
      BY <1>2, Zenon
    <3> QED
      BY <3>1
  <2>2. PICK m \in (1..n) \ D : \A j \in (1..n) \ D : m <= j
    BY <2>1, LeastNatural
  <2>3. D = 1..(m - 1)
    <3>1. m \in 1..n /\ m \notin D
      OBVIOUS
    <3>2. ASSUME NEW j \in D PROVE j \in 1..(m - 1)
      <4>1. j \in 1..n /\ ~(m <= j)
        BY <3>1
      <4> QED
        BY <3>1, <4>1
    <3>3. ASSUME NEW j \in 1..(m - 1) PROVE j \in D
      <4>1. j \in 1..n /\ ~(m <= j)
        BY <3>1
      <4> QED
        BY <2>2, <4>1
    <3> QED
      BY <3>2, <3>3
  <2>4. Cardinality(1..(m - 1)) = m - 1
    BY FS_Interval
  <2> QED
    BY <2>3, <2>4
<1> QED
  BY <1>1, <1>2

(* As many positions as there are members of an increasing list of them.   *)
LEMMA IncreasingCount ==
  ASSUME NEW n \in Nat, NEW k \in Nat, NEW at, NEW S, S = {at[l] : l \in 1..k},
         \A l \in 1..k : at[l] \in 1..n,
         \A l, m \in 1..k : l < m => at[l] < at[m]
  PROVE  Cardinality(S) = k
<1> DEFINE f == [l \in 1..k |-> at[l]]
<1>1. \A l, m \in 1..k : f[l] = f[m] => l = m
  <2> SUFFICES ASSUME NEW l \in 1..k, NEW m \in 1..k, at[l] = at[m] PROVE l = m
    OBVIOUS
  <2>1. ~(l < m) /\ ~(m < l)
    <3>1. at[l] \in Int /\ at[m] \in Int
      OBVIOUS
    <3> QED
      BY <3>1
  <2> QED
    BY <2>1
<1>2. f \in [1..k -> S] /\ \A s \in S : \E l \in 1..k : f[l] = s
  OBVIOUS
<1>3. f \in Surjection(1..k, S) /\ f \in Injection(1..k, S)
  <2> HIDE DEF f
  <2> QED
    BY <1>1, <1>2, Zenon DEF Surjection, Injection, IsInjective
<1>4. IsFiniteSet(1..k) /\ Cardinality(1..k) = k
  BY FS_Interval
<1> HIDE DEF f
<1> QED
  BY <1>3, <1>4, FS_Surjection

-----------------------------------------------------------------------------
(* The characters of a file. *)

(* Position 0 is before the first character; a byte belongs to the         *)
(* character of the byte before it unless it begins one.                   *)
LEMMA CharacterStep ==
  ASSUME NEW raw \in Seq(Byte)
  PROVE  /\ CharacterAt(raw, 0) = 0
         /\ \A i \in 1..Len(raw) :
              CharacterAt(raw, i) =
                IF i \in UnitStarts(raw) THEN CharacterAt(raw, i - 1) + 1
                ELSE CharacterAt(raw, i - 1)
         /\ CharacterAt(raw, Len(raw)) = Characters(raw)
<1> DEFINE U == UnitStarts(raw)
           upto(i) == {j \in U : j <= i}
           len == Len(raw)
<1>1. U \subseteq 1..len /\ len \in Nat
  BY DEF UnitStarts
<1> HIDE DEF U, len
<1>2. \A i \in Int : upto(i) \subseteq 1..len
  BY <1>1
<1>6. \A j \in U : j \in Int /\ 0 < j /\ j <= len
  BY <1>1
<1>3. upto(0) = {} /\ upto(len) = U
  <2>1. upto(0) = {}
    BY <1>6
  <2>2. upto(len) = U
    BY <1>6, Zenon
  <2> QED
    BY <2>1, <2>2
<1>4. ASSUME NEW i \in 1..len
      PROVE  Cardinality(upto(i)) = IF i \in U THEN Cardinality(upto(i - 1)) + 1
                                    ELSE Cardinality(upto(i - 1))
  <2>1. upto(i) = IF i \in U THEN upto(i - 1) \cup {i} ELSE upto(i - 1)
    <3>1. \A j \in U : j <= i <=> j <= i - 1 \/ j = i
      BY <1>1, <1>6
    <3>2. i \in U => upto(i) = upto(i - 1) \cup {i}
      BY <3>1
    <3>3. i \notin U => upto(i) = upto(i - 1)
      BY <3>1
    <3> QED
      BY <3>2, <3>3
  <2>2. i \notin upto(i - 1)
    BY <1>1
  <2>3. IsFiniteSet(upto(i - 1))
    BY <1>1, <1>2, PositionsCount
  <2> HIDE DEF upto
  <2> QED
    BY <2>1, <2>2, <2>3, FS_AddElement
<1>5. Cardinality(upto(0)) = 0 /\ Cardinality(upto(len)) = Cardinality(U)
  BY <1>3, FS_EmptySet
<1> QED
  BY <1>4, <1>5 DEF CharacterAt, Characters, U, len

(* Later bytes are of later characters.                                    *)
LEMMA CharacterMonotone ==
  ASSUME NEW raw \in Seq(Byte), NEW i \in Int, NEW j \in Int, i <= j
  PROVE  CharacterAt(raw, i) <= CharacterAt(raw, j)
<1> DEFINE upto(k) == {u \in UnitStarts(raw) : u <= k}
<1>1. UnitStarts(raw) \subseteq 1..Len(raw) /\ Len(raw) \in Nat
  BY DEF UnitStarts
<1>2. upto(i) \subseteq upto(j) /\ upto(j) \subseteq 1..Len(raw)
  BY <1>1
<1> QED
  BY <1>1, <1>2, CountsMonotone DEF CharacterAt

(* The bytes of the first n characters are the first ones of the file.     *)
LEMMA OffsetIsPrefix ==
  ASSUME NEW raw \in Seq(Byte), NEW n \in Int, NEW i \in 1..Len(raw)
  PROVE  i <= ByteOffset(raw, n) <=> CharacterAt(raw, i) <= n
<1> DEFINE D == {j \in 1..Len(raw) : CharacterAt(raw, j) <= n}
<1>1. Len(raw) \in Nat /\ D \subseteq 1..Len(raw)
  OBVIOUS
<1>2. \A j, k \in 1..Len(raw) : k \in D /\ j <= k => j \in D
  <2> SUFFICES ASSUME NEW j \in 1..Len(raw), NEW k \in 1..Len(raw),
                      CharacterAt(raw, k) <= n, j <= k
               PROVE  CharacterAt(raw, j) <= n
    OBVIOUS
  <2>1. CharacterAt(raw, j) <= CharacterAt(raw, k)
    BY CharacterMonotone
  <2>2. CharacterAt(raw, j) \in Int /\ CharacterAt(raw, k) \in Int
    BY CharacterAtCount
  <2> QED
    BY <2>1, <2>2
<1>3. i \in D <=> CharacterAt(raw, i) <= n
  OBVIOUS
<1>4. ByteOffset(raw, n) = Cardinality(D)
  BY DEF ByteOffset
<1> HIDE DEF D
<1>5. D = 1..Cardinality(D) /\ Cardinality(D) \in Nat
  <2> DEFINE len == Len(raw)
  <2>1. len \in Nat /\ D \subseteq 1..len
        /\ \A j, k \in 1..len : k \in D /\ j <= k => j \in D
    BY <1>1, <1>2
  <2> HIDE DEF len
  <2>2. D = 1..Cardinality(D)
    BY <2>1, PrefixSet, Zenon
  <2>3. Cardinality(D) \in 0..len
    BY <2>1, PositionsCount, Zenon
  <2> QED
    BY <2>1, <2>2, <2>3
<1> QED
  BY <1>3, <1>4, <1>5

(* The first n characters end with the last byte of character n.           *)
LEMMA OffsetOfCharacter ==
  ASSUME NEW raw \in Seq(Byte), NEW n \in 0..Characters(raw)
  PROVE  /\ CharacterAt(raw, ByteOffset(raw, n)) = n
         /\ n < Characters(raw) => /\ ByteOffset(raw, n) + 1 \in UnitStarts(raw)
                                   /\ CharacterAt(raw, ByteOffset(raw, n) + 1) = n + 1
         /\ n = Characters(raw) => ByteOffset(raw, n) = Len(raw)
<1> DEFINE at == ByteOffset(raw, n)
           len == Len(raw)
           char(i) == CharacterAt(raw, i)
           all == Characters(raw)
<1>1. at \in 0..len /\ len \in Nat /\ all \in Nat /\ \A i \in Int : char(i) \in Nat
  BY OffsetRange, CharacterAtCount, CharactersCount
<1>2. /\ char(0) = 0 /\ char(len) = all
      /\ \A i \in 1..len : char(i) = IF i \in UnitStarts(raw) THEN char(i - 1) + 1 ELSE char(i - 1)
  BY CharacterStep
<1>3. \A i \in 1..len : i <= at <=> char(i) <= n
  BY OffsetIsPrefix
<1>4. \A i \in 0..len : char(i) <= all
  <2> SUFFICES ASSUME NEW i \in 0..len PROVE CharacterAt(raw, i) <= CharacterAt(raw, Len(raw))
    BY <1>2
  <2> QED
    BY CharacterMonotone
<1> HIDE DEF at, len, char, all
<1>5. char(at) <= n
  BY <1>1, <1>2, <1>3 DEF all
<1>6. CASE at = len
  <2>1. n = all
    BY <1>1, <1>2, <1>5, <1>6 DEF all
  <2> QED
    BY <1>2, <1>6, <2>1 DEF at, len, char, all
<1>7. CASE at # len
  <2>1. at + 1 \in 1..len /\ ~(char(at + 1) <= n) /\ (at + 1) - 1 = at
    BY <1>1, <1>3, <1>7
  <2>2. char(at + 1) = IF at + 1 \in UnitStarts(raw) THEN char(at) + 1 ELSE char(at)
    BY <1>2, <2>1
  <2>3. n \in Nat /\ char(at) \in Nat /\ char(at + 1) \in Nat
    <3>1. n \in Nat
      BY <1>1 DEF all
    <3>2. at \in Int /\ at + 1 \in Int
      BY <1>1
    <3> QED
      BY <1>1, <3>1, <3>2, Zenon
  <2>4. at + 1 \in UnitStarts(raw) /\ char(at) = n /\ char(at + 1) = n + 1
    BY <1>5, <2>1, <2>2, <2>3
  <2>5. n # all
    BY <1>1, <1>4, <2>1, <2>4
  <2> QED
    BY <2>4, <2>5 DEF at, char, all
<1> QED
  BY <1>6, <1>7

-----------------------------------------------------------------------------
(* The text of a file, from the list of the bytes that begin a character. *)

TextByte(byte) == IF byte = CR THEN LF ELSE byte

(* at lists, in order, the m bytes that begin a character.                 *)
BeginsAt(raw, m, at) ==
  /\ m \in Nat /\ \A k \in 1..m : at[k] \in 1..Len(raw)
  /\ \A k, l \in 1..m : k < l => at[k] < at[l]
  /\ UnitStarts(raw) = {at[k] : k \in 1..m}

(* The text of a file has the bytes of the list, as text.                  *)
TextIsAt(raw, m, at) ==
  /\ Normalize(raw) \in Seq(Byte) /\ Len(Normalize(raw)) = m
  /\ \A k \in 1..m : Normalize(raw)[k] = TextByte(raw[at[k]])

(* Whatever the list, the text has its bytes.                              *)
LEMMA TextOfBegins ==
  ASSUME NEW raw \in Seq(Byte), NEW m, NEW at, BeginsAt(raw, m, at)
  PROVE  TextIsAt(raw, m, at)
<1> DEFINE len == Len(raw)
           upto(i) == {j \in UnitStarts(raw) : j <= i}
           first(k) == {at[l] : l \in 1..k}
<1>1. /\ m \in Nat /\ len \in Nat /\ UnitStarts(raw) = first(m)
      /\ \A k \in 1..m : at[k] \in 1..len
      /\ \A k, l \in 1..m : k < l => at[k] < at[l]
  BY DEF BeginsAt
<1> HIDE DEF len
<1>2. ASSUME NEW k \in 0..m PROVE Cardinality(first(k)) = k
  <2>1. /\ k \in Nat /\ \A l \in 1..k : l \in 1..m /\ at[l] \in 1..len
        /\ \A l, j \in 1..k : l < j => at[l] < at[j]
    BY <1>1
  <2> DEFINE S == first(k)
  <2>2. S = {at[l] : l \in 1..k}
    OBVIOUS
  <2> HIDE DEF S
  <2>3. Cardinality(S) = k
    BY <1>1, <2>1, <2>2, IncreasingCount
  <2> QED
    BY <2>3 DEF S
<1>3. Characters(raw) = m
  BY <1>1, <1>2 DEF Characters
<1>4. ASSUME NEW k \in 1..m PROVE ByteOffset(raw, k - 1) = at[k] - 1
  <2>1. at[k] \in 1..len
    BY <1>1
  <2>2. ASSUME NEW i \in 1..len
        PROVE  CharacterAt(raw, i) <= k - 1 <=> i <= at[k] - 1
    <3>1. upto(i) \subseteq 1..len /\ first(k) \subseteq 1..len /\ first(k - 1) \subseteq 1..len
      <4>1. \A l \in 1..m : at[l] \in 1..len
        BY <1>1
      <4> QED
        BY <1>1, <4>1
    <3>2. CharacterAt(raw, i) = Cardinality(upto(i)) /\ Cardinality(upto(i)) \in Nat
      BY <1>1, <3>1, PositionsCount, SMTT(60) DEF CharacterAt
    <3>3. CASE i < at[k]
      <4>1. ASSUME NEW l \in 1..m, at[l] <= i PROVE l \in 1..(k - 1)
        <5>1. ~(k <= l)
          BY <1>1, <2>1, <3>3, <4>1
        <5> QED
          BY <1>1, <5>1
      <4>2. upto(i) \subseteq first(k - 1)
        BY <1>1, <4>1
      <4>3. Cardinality(upto(i)) <= Cardinality(first(k - 1))
        <5> HIDE DEF upto, first
        <5> QED
          BY <1>1, <3>1, <4>2, CountsMonotone
      <4>4. Cardinality(first(k - 1)) = k - 1
        <5>1. k - 1 \in 0..m
          BY <1>1
        <5> QED
          BY <1>2, <5>1, Zenon
      <4> QED
        BY <2>1, <3>2, <3>3, <4>3, <4>4
    <3>4. CASE ~(i < at[k])
      <4>1. ASSUME NEW l \in 1..k PROVE at[l] \in first(m) /\ at[l] <= i
        <5>1. l \in 1..m /\ (l < k \/ l = k)
          BY <1>1
        <5>2. at[l] \in 1..len /\ (at[l] < at[k] \/ at[l] = at[k])
          BY <1>1, <5>1
        <5> QED
          BY <2>1, <3>4, <5>1, <5>2
      <4>2. first(k) \subseteq upto(i)
        BY <1>1, <4>1
      <4>3. Cardinality(first(k)) <= Cardinality(upto(i))
        <5> HIDE DEF upto, first
        <5> QED
          BY <1>1, <3>1, <4>2, CountsMonotone
      <4>4. Cardinality(first(k)) = k
        BY <1>2
      <4> QED
        BY <2>1, <3>2, <3>4, <4>3, <4>4
    <3> QED
      BY <3>3, <3>4
  <2> DEFINE D == {i \in 1..len : CharacterAt(raw, i) <= k - 1}
  <2>3. D = 1..(at[k] - 1)
    <3>1. \A i \in 1..(at[k] - 1) : i \in 1..len /\ i <= at[k] - 1
      BY <1>1, <2>1
    <3>2. \A i \in 1..len : i <= at[k] - 1 => i \in 1..(at[k] - 1)
      BY <1>1, <2>1
    <3> QED
      BY <2>2, <3>1, <3>2
  <2>4. Cardinality(1..(at[k] - 1)) = at[k] - 1
    BY <2>1, FS_Interval
  <2> QED
    BY <2>3, <2>4 DEF ByteOffset, len
<1>5. ASSUME NEW k \in 1..m PROVE Normalize(raw)[k] = TextByte(raw[at[k]])
  <2>1. ByteOffset(raw, k - 1) + 1 = at[k]
    <3>1. at[k] \in Int
      BY <1>1
    <3> QED
      BY <1>4, <3>1
  <2>2. Normalize(raw)[k] = TextByte(raw[ByteOffset(raw, k - 1) + 1])
    BY <1>3 DEF Normalize, TextByte
  <2> QED
    BY <2>1, <2>2
<1> QED
  BY <1>3, <1>5, NormalizeType DEF TextIsAt

(* Every file has such a list: the byte after the first k - 1 characters.  *)
LEMMA BeginsOfFile ==
  ASSUME NEW raw \in Seq(Byte), NEW at,
         at = [k \in 1..Characters(raw) |-> ByteOffset(raw, k - 1) + 1]
  PROVE  BeginsAt(raw, Characters(raw), at)
<1> DEFINE m == Characters(raw)
           len == Len(raw)
           char(i) == CharacterAt(raw, i)
<1>1. m \in Nat /\ len \in Nat /\ UnitStarts(raw) \subseteq 1..len
  BY CharactersCount DEF UnitStarts
<1>2. ASSUME NEW k \in 1..m
      PROVE  at[k] \in UnitStarts(raw) /\ char(at[k]) = k
  <2>1. k - 1 \in 0..Characters(raw) /\ k - 1 < Characters(raw) /\ k - 1 + 1 = k
    BY <1>1
  <2> HIDE DEF m
  <2>2. /\ ByteOffset(raw, k - 1) + 1 \in UnitStarts(raw)
        /\ CharacterAt(raw, ByteOffset(raw, k - 1) + 1) = k - 1 + 1
    BY <2>1, OffsetOfCharacter
  <2>3. at[k] = ByteOffset(raw, k - 1) + 1
    BY DEF m
  <2> QED
    BY <2>1, <2>2, <2>3
<1>3. ASSUME NEW k \in 1..m, NEW l \in 1..m, k < l PROVE at[k] < at[l]
  <2> SUFFICES ASSUME at[l] <= at[k] PROVE FALSE
    BY <1>1, <1>2
  <2>1. at[l] \in Int /\ at[k] \in Int
    BY <1>1, <1>2
  <2>2. char(at[l]) <= char(at[k])
    BY <2>1, CharacterMonotone
  <2> QED
    BY <1>2, <1>3, <2>2
<1>4. ASSUME NEW i \in UnitStarts(raw) PROVE \E k \in 1..m : at[k] = i
  <2> DEFINE k == char(i)
  <2>1. i \in 1..len /\ i - 1 \in Int
    BY <1>1
  <2>2. char(i) = char(i - 1) + 1 /\ char(i - 1) \in Nat /\ char(i) <= m
    <3>1. char(i) = char(i - 1) + 1 /\ char(len) = m
      BY <2>1, CharacterStep
    <3>2. char(i - 1) \in Nat
      BY <2>1, CharacterAtCount
    <3>3. char(i) <= char(len)
      BY <2>1, CharacterMonotone
    <3> QED
      BY <3>1, <3>2, <3>3
  <2>3. k \in 1..m /\ k - 1 = char(i - 1)
    BY <1>1, <2>2
  <2>4. at[k] = ByteOffset(raw, k - 1) + 1
    BY <2>3
  <2> HIDE DEF k
  <2>5. ByteOffset(raw, k - 1) \in 0..len /\ k \in Int
    BY <1>1, <2>3, OffsetRange
  <2>6. ~(i <= ByteOffset(raw, k - 1))
    <3>1. i <= ByteOffset(raw, k - 1) <=> char(i) <= k - 1
      BY <2>1, <2>5, OffsetIsPrefix
    <3> QED
      BY <2>5, <3>1 DEF k
  <2>7. i - 1 <= ByteOffset(raw, k - 1)
    <3>1. CASE i = 1
      BY <2>5, <3>1
    <3>2. CASE i # 1
      <4>1. i - 1 \in 1..len /\ k - 1 \in Int
        BY <2>1, <2>5, <3>2
      <4>2. i - 1 <= ByteOffset(raw, k - 1) <=> char(i - 1) <= k - 1
        BY <4>1, OffsetIsPrefix
      <4> QED
        BY <2>2, <2>3, <4>2
    <3> QED
      BY <3>1, <3>2
  <2>8. at[k] = i
    BY <2>1, <2>4, <2>5, <2>6, <2>7
  <2> QED
    BY <2>3, <2>8
<1>5. UnitStarts(raw) = {at[k] : k \in 1..m}
  BY <1>2, <1>4
<1> QED
  BY <1>1, <1>2, <1>3, <1>5 DEF BeginsAt

(* The bytes and the text between two characters of a file.                *)
IsPiece(raw, p, q, piece, text) ==
  /\ p \in 0..Characters(raw) /\ q \in 0..Characters(raw) /\ p <= q
  /\ piece = SubSeq(raw, ByteOffset(raw, p) + 1, ByteOffset(raw, q))
  /\ text = SubSeq(Normalize(raw), p + 1, q)

(* Such bytes, normalised, are such a text.                                *)
LEMMA TextOfPiece ==
  ASSUME NEW raw \in Seq(Byte), NEW p, NEW q, NEW piece, NEW text,
         IsPiece(raw, p, q, piece, text)
  PROVE  Normalize(piece) = text
<1> DEFINE m == Characters(raw)
           len == Len(raw)
           a == ByteOffset(raw, p)
           b == ByteOffset(raw, q)
           at == [k \in 1..Characters(raw) |-> ByteOffset(raw, k - 1) + 1]
           list == [k \in 1..(q - p) |-> at[p + k] - a]
           char(i) == CharacterAt(raw, i)
<1> USE DEF IsPiece
<1>1. /\ m \in Nat /\ len \in Nat /\ p \in 0..m /\ q \in 0..m /\ p \in Nat /\ q \in Nat
      /\ p <= q /\ a \in 0..len /\ b \in 0..len /\ a <= b
  BY CharactersCount, OffsetRange, OffsetMonotone
<1>2. BeginsAt(raw, m, at)
  BY BeginsOfFile
<1>3. /\ \A k \in 1..m : at[k] \in 1..len
      /\ \A k, l \in 1..m : k < l => at[k] < at[l]
      /\ UnitStarts(raw) = {at[k] : k \in 1..m}
  BY <1>2 DEF BeginsAt
<1>4. /\ Normalize(raw) \in Seq(Byte) /\ Len(Normalize(raw)) = m
      /\ \A k \in 1..m : Normalize(raw)[k] = TextByte(raw[at[k]])
  <2>1. TextIsAt(raw, m, at)
    <3> HIDE DEF at, m
    <3> QED
      BY <1>2, TextOfBegins
  <2> HIDE DEF at, m
  <2> QED
    BY <2>1 DEF TextIsAt
<1>5. \A i \in 1..len : /\ i <= a <=> char(i) <= p
                        /\ i <= b <=> char(i) <= q
  BY OffsetIsPrefix
<1>6. ASSUME NEW k \in 1..m PROVE char(at[k]) = k
  <2>1. k - 1 \in 0..Characters(raw) /\ k - 1 < Characters(raw) /\ k - 1 + 1 = k
    BY <1>1
  <2>2. at[k] = ByteOffset(raw, k - 1) + 1
    OBVIOUS
  <2> HIDE DEF m, at
  <2>3. CharacterAt(raw, ByteOffset(raw, k - 1) + 1) = k - 1 + 1
    BY <2>1, OffsetOfCharacter
  <2> QED
    BY <2>1, <2>2, <2>3
<1>7. p < q => a + 1 \in UnitStarts(raw)
  <2>1. p < q => p < Characters(raw)
    BY <1>1
  <2> QED
    BY <2>1, OffsetOfCharacter
<1>8. /\ piece \in Seq(Byte) /\ Len(piece) = b - a
      /\ \A i \in 1..(b - a) : piece[i] = raw[a + i]
  <2> HIDE DEF a, b, len
  <2>1. a + 1 \in Nat \ {0} /\ b \in 0..Len(raw)
    BY <1>1 DEF len
  <2>2. piece = SubSeq(raw, a + 1, b)
    BY DEF a, b
  <2>6. /\ SubSeq(raw, a + 1, b) \in Seq(Byte)
        /\ Len(SubSeq(raw, a + 1, b)) = IF a + 1 <= b THEN b - (a + 1) + 1 ELSE 0
        /\ \A i \in 1..(b - (a + 1) + 1) : SubSeq(raw, a + 1, b)[i] = raw[a + 1 + i - 1]
    BY <2>1, SubSeqType, ZenonT(60)
  <2>3. /\ piece \in Seq(Byte) /\ Len(piece) = IF a + 1 <= b THEN b - (a + 1) + 1 ELSE 0
        /\ \A i \in 1..(b - (a + 1) + 1) : piece[i] = raw[a + 1 + i - 1]
    BY <2>2, <2>6, Zenon
  <2>4. a \in Int /\ b \in Int /\ a <= b
    BY <1>1
  <2>5. \A x, y \in Int : x <= y =>
          /\ (IF x + 1 <= y THEN y - (x + 1) + 1 ELSE 0) = y - x
          /\ y - (x + 1) + 1 = y - x
          /\ \A i \in 1..(y - x) : x + 1 + i - 1 = x + i
    OBVIOUS
  <2> QED
    BY <2>3, <2>4, <2>5
<1> HIDE DEF m, len, a, b, at, char
<1>9. ASSUME NEW l \in 1..m PROVE /\ a < at[l] <=> p < l
                                  /\ at[l] <= b <=> l <= q
  <2>1. at[l] \in 1..len /\ char(at[l]) = l
    BY <1>3, <1>6
  <2> QED
    BY <1>1, <1>5, <2>1
<1>10. ASSUME NEW i \in 1..(b - a) PROVE i \in UnitStarts(piece) <=> a + i \in UnitStarts(raw)
  <2>1. a + i \in 1..len /\ i \in Int /\ a \in Int
    BY <1>1
  <2>2. i \in UnitStarts(piece) <=> ~(piece[i] = LF /\ i > 1 /\ piece[i - 1] = CR)
    BY <1>8 DEF UnitStarts
  <2>3. a + i \in UnitStarts(raw) <=> ~(raw[a + i] = LF /\ a + i > 1 /\ raw[a + i - 1] = CR)
    BY <2>1 DEF UnitStarts, len
  <2>4. CASE i = 1
    <3>1. p # q
      <4>1. p = q => a = b
        BY DEF a, b
      <4> QED
        BY <1>1, <4>1
    <3> QED
      BY <1>1, <1>7, <2>2, <2>4, <3>1
  <2>5. CASE i # 1
    <3>1. i > 1 /\ i - 1 \in 1..(b - a) /\ a + (i - 1) = a + i - 1 /\ a + i > 1
      BY <1>1, <2>1, <2>5
    <3>2. piece[i] = raw[a + i] /\ piece[i - 1] = raw[a + (i - 1)]
      BY <1>8, <3>1
    <3> QED
      BY <2>2, <2>3, <3>1, <3>2
  <2> QED
    BY <2>4, <2>5
<1>11. ASSUME NEW k \in 1..(q - p)
       PROVE  /\ p + k \in 1..m /\ list[k] = at[p + k] - a
              /\ list[k] \in 1..(b - a) /\ a + list[k] = at[p + k]
  <2>1. p + k \in 1..m /\ p < p + k /\ p + k <= q
    BY <1>1
  <2>2. at[p + k] \in 1..len /\ a < at[p + k] /\ at[p + k] <= b
    BY <1>3, <1>9, <2>1
  <2> QED
    BY <1>1, <2>1, <2>2, SMTT(30)
<1>12. \A k, l \in 1..(q - p) : k < l => list[k] < list[l]
  <2> SUFFICES ASSUME NEW k \in 1..(q - p), NEW l \in 1..(q - p), k < l
               PROVE  list[k] < list[l]
    OBVIOUS
  <2>1. p + k < p + l /\ p + k \in 1..m /\ p + l \in 1..m
    BY <1>1, <1>11
  <2>2. at[p + k] < at[p + l] /\ at[p + k] \in Int /\ at[p + l] \in Int
    BY <1>3, <2>1
  <2>3. list[k] = at[p + k] - a /\ list[l] = at[p + l] - a
    BY <1>11
  <2> QED
    BY <1>1, <2>2, <2>3
<1>13. UnitStarts(piece) = {list[k] : k \in 1..(q - p)}
  <2>1. ASSUME NEW i \in UnitStarts(piece) PROVE \E k \in 1..(q - p) : list[k] = i
    <3>1. i \in 1..(b - a)
      BY <1>8 DEF UnitStarts
    <3>2. PICK l \in 1..m : at[l] = a + i
      BY <1>3, <1>10, <3>1
    <3>3. a < at[l] /\ at[l] <= b
      BY <1>1, <3>1, <3>2
    <3>4. l - p \in 1..(q - p) /\ p + (l - p) = l
      BY <1>1, <1>9, <3>3
    <3>5. list[l - p] = at[l] - a
      BY <3>4
    <3>6. list[l - p] = i
      BY <1>1, <3>1, <3>2, <3>5
    <3> QED
      BY <3>4, <3>6
  <2>2. ASSUME NEW k \in 1..(q - p) PROVE list[k] \in UnitStarts(piece)
    <3>1. a + list[k] \in UnitStarts(raw) /\ list[k] \in 1..(b - a)
      BY <1>3, <1>11
    <3> QED
      BY <1>10, <3>1
  <2> QED
    BY <2>1, <2>2
<1>14. q - p \in Nat
  BY <1>1
<1>15. BeginsAt(piece, q - p, list)
  BY <1>8, <1>11, <1>12, <1>13, <1>14 DEF BeginsAt
<1> HIDE DEF list
<1>16. /\ Normalize(piece) \in Seq(Byte) /\ Len(Normalize(piece)) = q - p
       /\ \A k \in 1..(q - p) : Normalize(piece)[k] = TextByte(piece[list[k]])
  <2> DEFINE size == q - p
  <2>1. BeginsAt(piece, size, list)
    BY <1>15
  <2> HIDE DEF size
  <2>2. TextIsAt(piece, size, list)
    BY <1>8, <2>1, TextOfBegins
  <2> QED
    BY <2>2 DEF TextIsAt, size
<1>17. /\ text \in Seq(Byte) /\ Len(text) = q - p
       /\ \A k \in 1..(q - p) : text[k] = Normalize(raw)[p + k]
  <2> DEFINE whole == Normalize(raw)
  <2>1. whole \in Seq(Byte) /\ p + 1 \in Nat \ {0} /\ q \in 0..Len(whole)
    BY <1>1, <1>4
  <2>2. text = SubSeq(whole, p + 1, q)
    OBVIOUS
  <2> HIDE DEF whole
  <2>6. /\ SubSeq(whole, p + 1, q) \in Seq(Byte)
        /\ Len(SubSeq(whole, p + 1, q)) = IF p + 1 <= q THEN q - (p + 1) + 1 ELSE 0
        /\ \A i \in 1..(q - (p + 1) + 1) : SubSeq(whole, p + 1, q)[i] = whole[p + 1 + i - 1]
    BY <2>1, SubSeqType, Zenon
  <2>3. /\ text \in Seq(Byte) /\ Len(text) = IF p + 1 <= q THEN q - (p + 1) + 1 ELSE 0
        /\ \A k \in 1..(q - (p + 1) + 1) : text[k] = whole[p + 1 + k - 1]
    BY <2>2, <2>6, Zenon
  <2>4. \A x, y \in Int : x <= y =>
          /\ (IF x + 1 <= y THEN y - (x + 1) + 1 ELSE 0) = y - x
          /\ y - (x + 1) + 1 = y - x
          /\ \A i \in 1..(y - x) : x + 1 + i - 1 = x + i
    OBVIOUS
  <2>5. p \in Int /\ q \in Int /\ p <= q
    BY <1>1
  <2> QED
    BY <2>3, <2>4, <2>5 DEF whole
<1>18. ASSUME NEW k \in 1..(q - p) PROVE Normalize(piece)[k] = text[k]
  <2>1. piece[list[k]] = raw[at[p + k]]
    BY <1>8, <1>11
  <2> QED
    BY <1>4, <1>11, <1>16, <1>17, <2>1
<1> QED
  BY <1>14, <1>16, <1>17, <1>18, SeqEqual

(* A text with its line ends written in one of the three ways has, as      *)
(* text, again the same characters.                                        *)
LEMMA RestoredText ==
  ASSUME NEW text \in Seq(Byte), \A k \in 1..Len(text) : text[k] # CR,
         NEW newline, newline \in {<<CR, LF>>, <<CR>>, <<LF>>},
         NEW file, file = RestoreNewlines(text, newline)
  PROVE  Normalize(file) = text
<1> DEFINE m == Len(text)
           longer == Len(newline) - 1
           breaks(k) == Cardinality({j \in 1..(k - 1) : text[j] = LF})
           starts(k) == k + longer * breaks(k)
           which(i) == Cardinality({k \in 1..m : starts(k) <= i})
           size == starts(m + 1) - 1
           byte(i) == IF text[which(i)] # LF THEN text[which(i)]
                      ELSE IF i = starts(which(i)) THEN newline[1]
                      ELSE newline[Len(newline)]
<1>1. /\ m \in Nat /\ longer \in {0, 1} /\ newline \in Seq(Byte) /\ newline # <<>>
      /\ \/ longer = 0 /\ newline[1] = CR
         \/ longer = 0 /\ newline[1] = LF
         \/ longer = 1 /\ newline[1] = CR /\ newline[Len(newline)] = LF
  <2>1. CASE newline = <<CR, LF>>
    <3>1. /\ Len(newline) = 2 /\ newline[1] = CR /\ newline[2] = LF /\ newline \in Seq(Byte)
      BY <2>1, LineEndingAssumption
    <3>2. longer = 1 /\ newline # <<>> /\ newline[Len(newline)] = LF
      BY <3>1
    <3> QED
      BY <3>1, <3>2
  <2>2. ASSUME NEW b \in {CR, LF}, newline = <<b>>
        PROVE  /\ longer = 0 /\ newline[1] = b
               /\ newline \in Seq(Byte) /\ newline # <<>>
    <3>1. b \in Byte
      BY LineEndingAssumption
    <3>2. <<b>> \in Seq(Byte) /\ Len(<<b>>) = 1 /\ <<b>>[1] = b
      BY <3>1
    <3> QED
      BY <2>2, <3>2
  <2>3. newline = <<CR, LF>> \/ newline = <<CR>> \/ newline = <<LF>>
    OBVIOUS
  <2>4. m \in Nat
    OBVIOUS
  <2> HIDE DEF longer, m
  <2> QED
    BY <2>1, <2>2, <2>3, <2>4
<1>2. file = [i \in 1..size |-> byte(i)]
  BY DEF RestoreNewlines
<1>3. file \in Seq(Byte)
  BY <1>1, RestoreNewlinesType
<1> HIDE DEF m, longer, breaks
<1>4. /\ breaks(1) = 0
      /\ \A k \in 1..(m + 1) : breaks(k) \in Nat
      /\ \A k \in 1..m : breaks(k + 1) = IF text[k] = LF THEN breaks(k) + 1 ELSE breaks(k)
      /\ \A k, l \in 1..(m + 1) : k <= l => breaks(k) <= breaks(l)
  <2> DEFINE lines(k) == {j \in 1..(k - 1) : text[j] = LF}
  <2>1. \A k \in 1..(m + 1) : k - 1 \in Nat /\ lines(k) \subseteq 1..(k - 1)
    BY <1>1
  <2>2. \A k \in 1..(m + 1) : IsFiniteSet(lines(k)) /\ Cardinality(lines(k)) \in Nat
    <3> SUFFICES ASSUME NEW k \in 1..(m + 1)
                 PROVE  IsFiniteSet(lines(k)) /\ Cardinality(lines(k)) \in Nat
      OBVIOUS
    <3>1. k - 1 \in Nat /\ lines(k) \subseteq 1..(k - 1)
      BY <2>1
    <3> HIDE DEF lines
    <3>2. IsFiniteSet(lines(k)) /\ Cardinality(lines(k)) \in 0..(k - 1)
      BY <3>1, PositionsCount
    <3> QED
      BY <3>1, <3>2
  <2>3. Cardinality(lines(1)) = 0
    <3>1. lines(1) = {}
      OBVIOUS
    <3> QED
      BY <3>1, FS_EmptySet
  <2>4. ASSUME NEW k \in 1..m
        PROVE  Cardinality(lines(k + 1)) = IF text[k] = LF THEN Cardinality(lines(k)) + 1
                                           ELSE Cardinality(lines(k))
    <3>1. lines(k + 1) = IF text[k] = LF THEN lines(k) \cup {k} ELSE lines(k)
      <4>1. \A j \in 1..(k + 1 - 1) : j \in 1..(k - 1) \/ j = k
        BY <1>1
      <4>2. \A j \in 1..(k - 1) : j \in 1..(k + 1 - 1)
        BY <1>1
      <4>3. k \in 1..(k + 1 - 1)
        BY <1>1
      <4> QED
        BY <4>1, <4>2, <4>3
    <3>2. k \notin lines(k) /\ k \in 1..(m + 1)
      BY <1>1
    <3>3. IsFiniteSet(lines(k))
      BY <2>2, <3>2
    <3> HIDE DEF lines
    <3> QED
      BY <3>1, <3>2, <3>3, FS_AddElement
  <2>5. ASSUME NEW k \in 1..(m + 1), NEW l \in 1..(m + 1), k <= l
        PROVE  Cardinality(lines(k)) <= Cardinality(lines(l))
    <3>1. lines(k) \subseteq lines(l) /\ lines(l) \subseteq 1..(l - 1) /\ l - 1 \in Nat
      BY <1>1, <2>5
    <3> HIDE DEF lines
    <3> QED
      BY <3>1, CountsMonotone
  <2> QED
    BY <2>2, <2>3, <2>4, <2>5 DEF breaks
<1> HIDE DEF starts
<1>5. /\ starts(1) = 1
      /\ \A k \in 1..(m + 1) : starts(k) \in Nat
      /\ \A k \in 1..m : starts(k + 1) = IF text[k] = LF THEN starts(k) + 1 + longer
                                         ELSE starts(k) + 1
      /\ \A k, l \in 1..(m + 1) : k < l => starts(k) < starts(l)
  <2>1. CASE longer = 0
    <3>1. \A k \in 1..(m + 1) : starts(k) = k
      BY <1>4, <2>1 DEF starts
    <3>2. \A k \in 1..m : k \in 1..(m + 1) /\ k + 1 \in 1..(m + 1)
      BY <1>1
    <3>3. 1 \in 1..(m + 1)
      BY <1>1
    <3> QED
      BY <1>1, <2>1, <3>1, <3>2, <3>3
  <2>2. CASE longer = 1
    <3>1. \A k \in 1..(m + 1) : starts(k) = k + breaks(k)
      BY <1>4, <2>2 DEF starts
    <3>2. \A k \in 1..m : k \in 1..(m + 1) /\ k + 1 \in 1..(m + 1)
      BY <1>1
    <3>3. 1 \in 1..(m + 1)
      BY <1>1
    <3>4. \A k \in 1..m : breaks(k) \in Nat /\ breaks(k + 1) \in Nat
      BY <1>4, <3>2
    <3>5. \A k, l \in 1..(m + 1) : k < l => starts(k) < starts(l)
      BY <1>4, <3>1
    <3>6. \A k \in 1..m : starts(k + 1) = IF text[k] = LF THEN starts(k) + 1 + longer
                                         ELSE starts(k) + 1
      <4> SUFFICES ASSUME NEW k \in 1..m
                   PROVE  starts(k + 1) = IF text[k] = LF THEN starts(k) + 1 + longer
                                          ELSE starts(k) + 1
        OBVIOUS
      <4>1. starts(k) = k + breaks(k) /\ starts(k + 1) = k + 1 + breaks(k + 1)
        BY <3>1, <3>2
      <4>2. breaks(k + 1) = IF text[k] = LF THEN breaks(k) + 1 ELSE breaks(k)
        BY <1>4
      <4>3. k \in Int /\ breaks(k) \in Int
        BY <3>4
      <4> QED
        BY <2>2, <4>1, <4>2, <4>3
    <3> QED
      BY <1>4, <3>1, <3>3, <3>5, <3>6
  <2> QED
    BY <1>1, <2>1, <2>2
<1>6. size \in Nat /\ \A k \in 1..m : starts(k) \in 1..size
  <2>1. m + 1 \in 1..(m + 1) /\ 1 \in 1..(m + 1)
    BY <1>1
  <2>2. starts(1) <= starts(m + 1) /\ starts(m + 1) \in Nat
    BY <1>1, <1>5, <2>1
  <2>3. ASSUME NEW k \in 1..m PROVE starts(k) \in 1..size
    <3>1. k \in 1..(m + 1) /\ k < m + 1 /\ (k = 1 \/ 1 < k)
      BY <1>1
    <3>2. starts(k) < starts(m + 1) /\ starts(1) <= starts(k) /\ starts(k) \in Nat
      BY <1>5, <2>1, <3>1
    <3> QED
      BY <1>5, <2>2, <3>2
  <2> QED
    BY <1>5, <2>2, <2>3
<1> HIDE DEF which
<1>7. ASSUME NEW i \in 1..size
      PROVE  /\ which(i) \in 1..m
             /\ starts(which(i)) <= i /\ i < starts(which(i) + 1)
             /\ \A k \in 1..m : starts(k) <= i <=> k <= which(i)
  <2> DEFINE D == {k \in 1..m : starts(k) <= i}
  <2>1. D \subseteq 1..m /\ \A j, k \in 1..m : k \in D /\ j <= k => j \in D
    <3> SUFFICES ASSUME NEW j \in 1..m, NEW k \in 1..m, starts(k) <= i, j <= k
                 PROVE  starts(j) <= i
      OBVIOUS
    <3>1. j \in 1..(m + 1) /\ k \in 1..(m + 1) /\ (j = k \/ j < k)
      BY <1>1
    <3>2. starts(j) <= starts(k) /\ starts(j) \in Nat /\ starts(k) \in Nat
      BY <1>5, <3>1
    <3> QED
      BY <1>6, <3>2
  <2>2. which(i) = Cardinality(D)
    BY DEF which
  <2>3. \A k \in 1..m : starts(k) <= i <=> k \in D
    OBVIOUS
  <2> HIDE DEF D
  <2>4. D = 1..which(i) /\ which(i) \in 0..m
    <3>1. D = 1..Cardinality(D)
      BY <1>1, <2>1, PrefixSet
    <3>2. Cardinality(D) \in 0..m
      BY <1>1, <2>1, PositionsCount
    <3> QED
      BY <2>2, <3>1, <3>2
  <2>5. \A k \in 1..m : starts(k) <= i <=> k <= which(i)
    BY <1>1, <2>3, <2>4
  <2>6. which(i) # 0
    <3>1. m # 0
      BY <1>5, <1>6
    <3>2. 1 \in 1..m /\ starts(1) <= i
      BY <1>1, <1>5, <1>6, <3>1
    <3> QED
      BY <2>3, <2>4, <3>2
  <2>7. which(i) \in 1..m
    BY <1>1, <2>4, <2>6
  <2>8. i < starts(which(i) + 1)
    <3>1. which(i) + 1 \in 1..(m + 1)
      BY <1>1, <2>7
    <3>2. starts(which(i) + 1) \in Nat
      BY <1>5, <3>1
    <3>3. CASE which(i) = m
      BY <1>6, <3>2, <3>3
    <3>4. CASE which(i) # m
      <4>1. which(i) + 1 \in 1..m /\ ~(which(i) + 1 <= which(i))
        BY <1>1, <2>7, <3>4
      <4>2. ~(starts(which(i) + 1) <= i)
        BY <2>5, <4>1, Zenon
      <4> QED
        BY <1>6, <3>2, <4>2
    <3> QED
      BY <3>3, <3>4
  <2> QED
    BY <2>5, <2>7, <2>8
<1>8. Len(file) = size /\ \A i \in 1..size : file[i] = byte(i)
  <2> HIDE DEF byte, size
  <2> QED
    BY <1>2, <1>6
<1>9. ASSUME NEW k \in 1..m PROVE which(starts(k)) = k
  <2>1. starts(k) \in 1..size
    BY <1>6
  <2>2. /\ which(starts(k)) \in 1..m
        /\ \A l \in 1..m : starts(l) <= starts(k) <=> l <= which(starts(k))
    BY <1>7, <2>1
  <2>3. k <= which(starts(k))
    BY <1>6, <2>1, <2>2
  <2>4. which(starts(k)) <= k
    <3> SUFFICES ASSUME k < which(starts(k)) PROVE FALSE
      BY <2>2
    <3>1. starts(k) < starts(which(starts(k)))
      <4>1. k \in 1..(m + 1) /\ which(starts(k)) \in 1..(m + 1)
        BY <1>1, <2>2
      <4> QED
        BY <1>5, <4>1
    <3>2. starts(which(starts(k))) <= starts(k)
      BY <1>7, <2>1
    <3>3. starts(which(starts(k))) \in Int /\ starts(k) \in Int
      BY <1>6, <2>2
    <3> QED
      BY <3>1, <3>2, <3>3
  <2> QED
    BY <2>2, <2>3, <2>4
(* The bytes that begin a character are the starts. *)
<1>10. ASSUME NEW i \in 1..size PROVE i \in UnitStarts(file) <=> i = starts(which(i))
  <2> DEFINE w == which(i)
  <2>1. w \in 1..m /\ starts(w) <= i /\ i < starts(w + 1) /\ text[w] # CR
    BY <1>7 DEF m
  <2>2. file[i] = byte(i) /\ starts(w) \in 1..size
    BY <1>6, <1>8, <2>1
  <2>3. i \in UnitStarts(file) <=> ~(file[i] = LF /\ i > 1 /\ file[i - 1] = CR)
    BY <1>8 DEF UnitStarts
  <2>4. starts(w + 1) = IF text[w] = LF THEN starts(w) + 1 + longer ELSE starts(w) + 1
    BY <1>5, <2>1
  <2>5. CASE i = starts(w)
    <3>1. CASE longer = 0 /\ newline[1] = LF
      <4>1. \A j \in 1..size : file[j] # CR
        <5> SUFFICES ASSUME NEW j \in 1..size PROVE byte(j) # CR
          BY <1>8
        <5>1. which(j) \in 1..m
          BY <1>7
        <5>2. text[which(j)] # CR
          BY <5>1 DEF m
        <5> QED
          BY <1>1, <3>1, <5>2, LineEndingAssumption
      <4>2. i > 1 => i - 1 \in 1..size
        BY <1>6
      <4> QED
        BY <2>3, <2>5, <4>1, <4>2
    <3>2. CASE newline[1] = CR
      <4>1. file[i] = IF text[w] # LF THEN text[w] ELSE newline[1]
        BY <2>2, <2>5
      <4>2. file[i] # LF
        BY <3>2, <4>1, LineEndingAssumption
      <4> QED
        BY <2>3, <2>5, <4>2
    <3> QED
      BY <1>1, <3>1, <3>2
  <2>6. CASE i # starts(w)
    <3>1. text[w] = LF /\ longer = 1 /\ i = starts(w) + 1
      <4>1. starts(w) \in Int /\ i \in Int
        BY <1>6, <2>2
      <4>2. text[w] = LF /\ longer = 1
        <5> SUFFICES ASSUME starts(w + 1) = starts(w) + 1 PROVE FALSE
          BY <1>1, <2>4, <4>1
        <5> HIDE DEF w
        <5> QED
          BY <2>1, <2>6, <4>1
      <4>3. starts(w + 1) = starts(w) + 2
        BY <2>4, <4>1, <4>2
      <4> HIDE DEF w
      <4> QED
        BY <2>1, <2>6, <4>1, <4>2, <4>3
    <3>2. newline[1] = CR /\ newline[Len(newline)] = LF
      BY <1>1, <3>1
    <3>3. i - 1 = starts(w) /\ i > 1 /\ i - 1 \in 1..size
      BY <1>6, <2>2, <3>1
    <3>4. which(i - 1) = w
      BY <1>9, <2>1, <3>3
    <3>5. file[i] = LF
      BY <2>2, <2>6, <3>1, <3>2
    <3>6. file[i - 1] = CR
      BY <1>8, <3>1, <3>2, <3>3, <3>4
    <3> QED
      BY <2>3, <2>6, <3>3, <3>5, <3>6
  <2> QED
    BY <2>5, <2>6
<1> DEFINE at == [k \in 1..m |-> starts(k)]
<1>11. BeginsAt(file, m, at)
  <2>1. \A k \in 1..m : at[k] = starts(k)
    OBVIOUS
  <2>2. \A k, l \in 1..m : k < l => at[k] < at[l]
    <3>1. \A k \in 1..m : k \in 1..(m + 1)
      BY <1>1
    <3> QED
      BY <1>5, <2>1, <3>1
  <2>3. UnitStarts(file) = {at[k] : k \in 1..m}
    <3>1. ASSUME NEW i \in UnitStarts(file) PROVE \E k \in 1..m : at[k] = i
      <4>1. i \in 1..size
        BY <1>8 DEF UnitStarts
      <4>2. i = starts(which(i)) /\ which(i) \in 1..m
        BY <1>7, <1>10, <4>1
      <4> QED
        BY <2>1, <4>2
    <3>2. ASSUME NEW k \in 1..m PROVE at[k] \in UnitStarts(file)
      <4>1. starts(k) \in 1..size
        BY <1>6
      <4>2. starts(k) = starts(which(starts(k)))
        BY <1>9
      <4> QED
        BY <1>10, <2>1, <4>1, <4>2
    <3> HIDE DEF at
    <3> QED
      BY <3>1, <3>2
  <2> HIDE DEF at
  <2> QED
    BY <1>1, <1>6, <1>8, <2>1, <2>2, <2>3 DEF BeginsAt
<1> HIDE DEF at
<1>12. TextIsAt(file, m, at)
  BY <1>3, <1>11, TextOfBegins
<1>13. ASSUME NEW k \in 1..m PROVE Normalize(file)[k] = text[k]
  <2>1. at[k] = starts(k) /\ starts(k) \in 1..size /\ which(starts(k)) = k
    BY <1>6, <1>9 DEF at
  <2>2. file[starts(k)] = IF text[k] # LF THEN text[k] ELSE newline[1]
    BY <1>8, <2>1
  <2>3. TextByte(file[starts(k)]) = text[k]
    <3>1. text[k] # CR
      BY DEF m
    <3>2. newline[1] \in {CR, LF}
      BY <1>1
    <3> QED
      BY <2>2, <3>1, <3>2, LineEndingAssumption DEF TextByte
  <2> QED
    BY <1>12, <2>1, <2>3 DEF TextIsAt
<1> QED
  BY <1>12, <1>13, SeqEqual DEF TextIsAt, m

-----------------------------------------------------------------------------
(* What an application takes from the file, and what it puts there. *)

(* Read as text, the match region holds what was to be replaced.           *)
LEMMA MatchedText ==
  ASSUME NEW raw \in Seq(Byte), NEW old \in Seq(Byte), LocatesUnique(raw, old)
  PROVE  Normalize(BytesAt(raw, MatchRegion(raw, old))) = Normalize(old)
<1> DEFINE text   == Normalize(raw)
           string == Normalize(old)
           found  == Occurrences(text, string)
           start  == FirstOf(found)
           end    == start + Len(string)
<1>1. Len(text) = Characters(raw) /\ Len(text) \in Nat /\ Len(string) \in Nat
  BY NormalizeType
<1>2. start \in found
  <2>1. found \subseteq Nat
    BY <1>1 DEF Occurrences
  <2>2. found # {}
    BY DEF LocatesUnique, CountIsOne
  <2> HIDE DEF found
  <2> QED
    BY <2>1, <2>2, FirstOfIsLeast
<1>3. BytesAt(raw, MatchRegion(raw, old))
        = SubSeq(raw, ByteOffset(raw, start) + 1, ByteOffset(raw, end))
  BY DEF MatchRegion, RegionInOriginal, Region, BytesAt
<1> HIDE DEF start
<1>4. /\ start \in 0..(Len(text) - Len(string))
      /\ SubSeq(text, start + 1, end) = string
  BY <1>2 DEF Occurrences
<1>5. start \in 0..Characters(raw) /\ end \in 0..Characters(raw) /\ start <= end
  BY <1>1, <1>4
<1> DEFINE piece == BytesAt(raw, MatchRegion(raw, old))
<1>6. string = SubSeq(Normalize(raw), start + 1, end)
  BY <1>4
<1>7. piece = SubSeq(raw, ByteOffset(raw, start) + 1, ByteOffset(raw, end))
  BY <1>3
<1> HIDE DEF piece, string, end
<1>9. IsPiece(raw, start, end, piece, string)
  BY <1>5, <1>6, <1>7 DEF IsPiece
<1>8. Normalize(piece) = string
  BY <1>9, TextOfPiece
<1> QED
  BY <1>8 DEF piece, string

(* Read as text, what is written is the new text.                          *)
LEMMA WrittenText ==
  ASSUME NEW raw \in Seq(Byte), NEW d, d.new \in Seq(Byte)
  PROVE  Normalize(Replacement(raw, d)) = Normalize(d.new)
<1> DEFINE text    == Normalize(d.new)
           newline == DetectNewline(raw)
           file    == RestoreNewlines(text, newline)
<1>1. text \in Seq(Byte) /\ \A k \in 1..Len(text) : text[k] # CR
  <2>1. text \in Seq(Byte) /\ Len(text) = Characters(d.new)
    BY NormalizeType
  <2>2. \A k \in 1..Characters(d.new) : text[k] # CR
    BY LineEndingAssumption DEF Normalize
  <2> QED
    BY <2>1, <2>2
<1>2. newline \in {<<CR, LF>>, <<CR>>, <<LF>>}
  BY DEF DetectNewline
<1>3. file = RestoreNewlines(text, newline)
  OBVIOUS
<1>4. Replacement(raw, d) = file
  BY DEF Replacement
<1> HIDE DEF text, newline, file
<1>5. Normalize(file) = text
  BY <1>1, <1>2, <1>3, RestoredText
<1> QED
  BY <1>4, <1>5 DEF text

(* One region of the file is replaced, and nothing else.                   *)
LEMMA OnlyTheRegion ==
  ASSUME NEW was \in Seq(Byte), NEW d, d.old \in Seq(Byte), d.new \in Seq(Byte),
         ApplyChecks(was, d)
  PROVE  LET now == FinalBytes(was, d)
             before == SubSeq(was, 1, d.match_region.start_offset)
             after  == SubSeq(was, d.match_region.end_offset + 1, Len(was))
             inserted == SubSeq(now, Len(before) + 1, Len(now) - Len(after))
         IN  /\ SubSeq(now, 1, Len(before)) = before
             /\ SubSeq(now, Len(now) - Len(after) + 1, Len(now)) = after
             /\ inserted = Replacement(was, d)
<1> DEFINE at == d.match_region
           written == Replacement(was, d)
           now == FinalBytes(was, d)
           a == at.start_offset
           b == at.end_offset
           n == Len(was)
           w == Len(written)
           before == SubSeq(was, 1, a)
           after == SubSeq(was, b + 1, n)
<1>1. /\ at \in RegionType /\ a <= b /\ b <= n /\ written \in Seq(Byte)
      /\ now \in Seq(Byte) /\ Len(now) = a + w + (n - b)
  BY ApplicationFacts, ZenonT(40)
<1>2. a \in Nat /\ b \in Nat /\ n \in Nat /\ w \in Nat
  BY <1>1 DEF RegionType
<1>3. /\ \A k \in 1..a : now[k] = was[k]
      /\ \A k \in 1..w : now[a + k] = written[k]
      /\ \A k \in (b + 1)..n : now[k + (w - (b - a))] = was[k]
  <2>1. now = Splice(was, at, written)
    BY DEF FinalBytes
  <2>2. a \in Nat /\ b \in 0..n
    BY <1>1, <1>2
  <2>3. at.start_offset \in Nat /\ at.end_offset \in 0..Len(was)
        /\ at.start_offset <= at.end_offset /\ written \in Seq(Byte)
    BY <1>1, <2>2
  <2> HIDE DEF now, at, written
  <2>4. /\ \A k \in 1..at.start_offset : now[k] = was[k]
        /\ \A k \in (at.end_offset + 1)..Len(was) :
             now[k + (Len(written) - (at.end_offset - at.start_offset))] = was[k]
    BY <2>1, <2>3, SpliceParts, SMTT(60)
  <2>5. \A k \in 1..Len(written) : now[at.start_offset + k] = written[k]
    BY <2>1, <2>3, SpliceParts
  <2> QED
    BY <2>4, <2>5
<1> HIDE DEF at, written, now, a, b, n, w
<1>4. Len(before) = a
  <2>1. a \in 0..Len(was) /\ 1 \in Nat \ {0}
    BY <1>1, <1>2 DEF n
  <2>2. Len(before) = IF 1 <= a THEN a - 1 + 1 ELSE 0
    BY <2>1, SubSeqType
  <2> QED
    BY <1>2, <2>2
<1>5. Len(after) = n - b
  <2>1. b + 1 \in Nat \ {0} /\ n \in 0..Len(was)
    BY <1>1, <1>2 DEF n
  <2>2. Len(after) = IF b + 1 <= n THEN n - (b + 1) + 1 ELSE 0
    BY <2>1, SubSeqType
  <2> QED
    BY <1>1, <1>2, <2>2
<1> HIDE DEF before, after
<1> DEFINE size == Len(now)
<1>6. /\ size = a + w + (n - b) /\ size \in Nat /\ size - (n - b) = a + w
      /\ a \in 0..size /\ a + w \in 0..size /\ n - b \in Nat
  BY <1>1, <1>2
<1>7. SubSeq(now, 1, a) = before
  <2> DEFINE x == SubSeq(now, 1, a)
  <2>1. \A i \in 1..(a - 1 + 1) : now[1 + i - 1] = was[1 + i - 1]
    BY <1>2, <1>3
  <2>2. a \in 0..Len(now) /\ a \in 0..Len(was)
    BY <1>1, <1>2, <1>6 DEF n
  <2>3. PartsAgree(Byte, x, now, 1, a, before, was, 1, a)
    BY <1>1, <2>1, <2>2 DEF PartsAgree, before
  <2> HIDE DEF x
  <2>4. x = before
    BY <2>3, SameParts, Zenon
  <2> QED
    BY <2>4 DEF x
<1>8. SubSeq(now, size - (n - b) + 1, size) = after
  <2> DEFINE x == SubSeq(now, a + w + 1, size)
  <2>1. /\ a + w + 1 \in Nat \ {0} /\ size \in 0..Len(now)
        /\ b + 1 \in Nat \ {0} /\ n \in 0..Len(was) /\ size - (a + w + 1) = n - (b + 1)
    BY <1>1, <1>2, <1>6 DEF n
  <2>2. \A i \in 1..(size - (a + w + 1) + 1) : now[a + w + 1 + i - 1] = was[b + 1 + i - 1]
    <3> SUFFICES ASSUME NEW i \in 1..(size - (a + w + 1) + 1)
                 PROVE  now[a + w + 1 + i - 1] = was[b + 1 + i - 1]
      OBVIOUS
    <3>1. /\ b + i \in (b + 1)..n /\ (b + i) + (w - (b - a)) = a + w + 1 + i - 1
          /\ b + 1 + i - 1 = b + i
      <4> HIDE DEF size
      <4> QED
        BY <1>1, <1>2, <1>6
    <3>2. now[(b + i) + (w - (b - a))] = was[b + i]
      BY <1>3, <3>1
    <3> QED
      BY <3>1, <3>2
  <2>3. PartsAgree(Byte, x, now, a + w + 1, size, after, was, b + 1, n)
    <3> HIDE DEF size
    <3> QED
      BY <1>1, <2>1, <2>2, Zenon DEF PartsAgree, after
  <2>4. size - (n - b) + 1 = a + w + 1
    BY <1>6
  <2> HIDE DEF x
  <2>5. x = after
    BY <2>3, SameParts, Zenon
  <2> QED
    BY <2>4, <2>5 DEF x
<1>9. SubSeq(now, a + 1, a + w) = written
  <2> DEFINE x == SubSeq(now, a + 1, a + w)
  <2> DEFINE l == a + 1
             h == a + w
  <2>1. now \in Seq(Byte) /\ l \in Nat \ {0} /\ h \in 0..Len(now) /\ x = SubSeq(now, l, h)
    BY <1>1, <1>2, <1>6
  <2>2. /\ (IF l <= h THEN h - l + 1 ELSE 0) = w /\ h - l + 1 = w
        /\ \A i \in 1..w : l + i - 1 = a + i
    BY <1>2
  <2> HIDE DEF l, h, x
  <2>3. /\ SubSeq(now, l, h) \in Seq(Byte)
        /\ Len(SubSeq(now, l, h)) = IF l <= h THEN h - l + 1 ELSE 0
        /\ \A i \in 1..(h - l + 1) : SubSeq(now, l, h)[i] = now[l + i - 1]
    BY <2>1, SubSeqType, Zenon
  <2>4. x \in Seq(Byte) /\ Len(x) = w /\ \A i \in 1..w : x[i] = now[a + i]
    BY <2>1, <2>2, <2>3, Zenon
  <2>5. \A i \in 1..w : x[i] = written[i]
    BY <1>3, <2>4
  <2> QED
    BY <1>1, <1>2, <2>1, <2>4, <2>5, SeqEqual DEF l, h, w
<1>10. SubSeq(now, a + 1, size - (n - b)) = written
  BY <1>6, <1>9
<1> QED
  BY <1>4, <1>5, <1>7, <1>8, <1>10 DEF now, before, after, at, a, b, n, written

-----------------------------------------------------------------------------
(* The verification of an applied patch. *)

(* What is known of a patch and of its application.                        *)
PatchInv ==
  /\ original \in Seq(Byte)
  /\ patch.old \in Seq(Byte) /\ patch.new \in Seq(Byte)
  /\ ApplyChecks(original, patch)
  /\ patch.target # NoTarget =>
       /\ patch.target.start_offset \in Nat
       /\ patch.target.end_offset \in 0..Len(original)
       /\ patch.target.start_offset < patch.target.end_offset

ApplicationInv ==
  IF result = Nothing
    THEN content = original /\ outcome = Nothing
    ELSE /\ content = FinalBytes(original, patch)
         /\ result = [source |-> patch.match_region, changed |-> ChangedRegion(original, patch)]

VerdictInv ==
  outcome # Nothing => /\ result # Nothing
                       /\ report \in Reports \cup {ScanFailed}
                       /\ outcome = Verdict(report)

VerificationInv == PatchInv /\ ApplicationInv /\ VerdictInv

(* The region that an application reports is evidence for its draft, as    *)
(* long as the draft has a target.                                         *)
LEMMA ReportIsEvidence ==
  ASSUME PatchInv, ApplicationInv, result # Nothing, patch.target # NoTarget
  PROVE  /\ IsEvidence(result.source, result.changed)
         /\ result.source = patch.match_region
         /\ patch.match_region.start_offset \in Nat /\ patch.match_region.end_offset \in Nat
         /\ patch.match_region.start_offset <= patch.match_region.end_offset
         /\ patch.match_region.end_offset <= Len(original)
         /\ result.changed.start_offset = patch.match_region.start_offset
         /\ result.changed.end_offset \in Nat
         /\ result.changed.end_offset >= result.changed.start_offset
         /\ Len(content) - Len(original) = ByteDelta(result.source, result.changed)
         /\ Len(original) \in Nat /\ Len(content) \in Nat
         /\ Intersects(patch.match_region, patch.target)
<1> DEFINE at == patch.match_region
           to == ChangedRegion(original, patch)
           written == Replacement(original, patch)
<1>1. /\ at \in RegionType /\ at.start_offset <= at.end_offset /\ at.end_offset <= Len(original)
      /\ written \in Seq(Byte) /\ FinalBytes(original, patch) \in Seq(Byte)
      /\ Len(FinalBytes(original, patch)) =
           at.start_offset + Len(written) + (Len(original) - at.end_offset)
      /\ to \in RegionType /\ to.start_offset = at.start_offset
      /\ to.end_offset = at.start_offset + Len(written) /\ to.from = at.from
  BY ApplicationFacts, ZenonT(40) DEF PatchInv
<1>2. /\ result.source = at /\ result.changed = to /\ content = FinalBytes(original, patch)
  BY DEF ApplicationInv
<1>3. Intersects(at, patch.target)
  BY DEF PatchInv, ApplyChecks, Touches
<1>4. Len(original) \in Nat /\ Len(written) \in Nat /\ Len(content) \in Nat
  BY <1>1, <1>2 DEF PatchInv
<1>5. at.start_offset \in Nat /\ at.end_offset \in Nat
  BY <1>1 DEF RegionType
<1> HIDE DEF at, to, written
<1>6. Len(content) - Len(original) = ByteDelta(at, to)
  <2> DEFINE n == Len(original)
             c == Len(content)
             w == Len(written)
             x == at.start_offset
             y == at.end_offset
  <2>1. c = x + w + (n - y) /\ n \in Nat /\ c \in Nat /\ w \in Nat /\ x \in Nat /\ y \in Nat
    BY <1>1, <1>2, <1>4, <1>5, Zenon
  <2>2. ByteDelta(at, to) = (x + w - x) - (y - x)
    <3>1. to.start_offset = x /\ to.end_offset = x + w
      BY <1>1
    <3>2. ByteDelta(at, to) = (to.end_offset - to.start_offset) - (y - x)
      BY DEF ByteDelta
    <3> HIDE DEF x, y, w
    <3> QED
      BY <2>1, <3>1, <3>2
  <2> HIDE DEF n, c, w, x, y
  <2>3. c - n = (x + w - x) - (y - x)
    BY <2>1
  <2> QED
    BY <2>2, <2>3, Zenon DEF n, c
<1> DEFINE t == patch.target
<1>7. t.start_offset \in Nat /\ t.end_offset \in Nat /\ t.start_offset < t.end_offset
  BY DEF PatchInv
<1>8. /\ at.start_offset < t.end_offset
      /\ t.start_offset < at.end_offset \/ t.start_offset <= at.start_offset
  BY <1>3, <1>5, <1>7 DEF Intersects
<1> HIDE DEF t
<1>9. FootprintStart(t, at, to) <= FootprintEnd(t, at, to)
  BY <1>1, <1>4, <1>5, <1>7, <1>8, SMTT(60) DEF FootprintStart, FootprintEnd, ByteDelta
<1>10. IsEvidence(at, to)
  BY <1>1, <1>3, <1>9 DEF IsEvidence, at, t
<1> QED
  BY <1>1, <1>2, <1>3, <1>4, <1>5, <1>6, <1>10 DEF at

(* TargetBytes, of a target (t, u] and a match (a, b] in n bytes.          *)
LeftAndWritten(a, b, t, u, n, grown) ==
  LET kept == {k \in 1..n : t < k /\ k <= u /\ (k <= a \/ k > b)}
  IN  {IF k <= a THEN k ELSE k + grown : k \in kept} \cup (a + 1)..(b + grown)

(* The span that stands for the target has the bytes of the target that    *)
(* are left and those that were written, and a report of the rule meets it *)
(* exactly when it meets one of those bytes, or the point of the deletion. *)
LEMMA FootprintIsTheTarget ==
  ASSUME NEW a \in Nat, NEW b \in Nat, NEW t \in Nat, NEW u \in Nat, NEW n \in Nat,
         NEW grown \in Int, a <= b, b <= n, t < u, u <= n, a < u, t < b \/ t <= a, a <= b + grown
  PROVE  LeftAndWritten(a, b, t, u, n, grown)
           = ((IF t < a THEN t ELSE a) + 1)..(IF u > b THEN u + grown ELSE b + grown)
<1> DEFINE s == IF t < a THEN t ELSE a
           e == IF u > b THEN u + grown ELSE b + grown
           kept == {k \in 1..n : t < k /\ k <= u /\ (k <= a \/ k > b)}
           now(k) == IF k <= a THEN k ELSE k + grown
<1>1. ASSUME NEW k \in kept PROVE now(k) \in (s + 1)..e
  OBVIOUS
<1>2. (a + 1)..(b + grown) \subseteq (s + 1)..e
  OBVIOUS
<1>3. ASSUME NEW k \in (s + 1)..e
      PROVE  k \in (a + 1)..(b + grown) \/ \E j \in kept : k = now(j)
  <2>1. CASE k <= a
    <3>1. k \in kept /\ now(k) = k
      BY <2>1
    <3> QED
      BY <3>1
  <2>2. CASE k > b + grown
    <3>1. k - grown \in kept /\ now(k - grown) = k
      BY <2>2
    <3> QED
      BY <3>1
  <2>3. CASE a < k /\ k <= b + grown
    BY <2>3
  <2> QED
    BY <2>1, <2>2, <2>3
<1> QED
  BY <1>1, <1>2, <1>3 DEF LeftAndWritten

(* Meeting a span and having one of its bytes are the same.                *)
LEMMA MeetingIsSharing ==
  ASSUME NEW x \in Nat, NEW y \in Nat, x < y, NEW s \in Int, NEW e \in Int, s <= e
  PROVE  (IF s = e THEN x <= s /\ s < y ELSE x < e /\ s < y)
           <=> ((x + 1)..y) \cap (IF (s + 1)..e = {} THEN {s + 1} ELSE (s + 1)..e) # {}
<1>1. CASE s = e
  <2>1. (s + 1)..e = {}
    BY <1>1
  <2>2. x <= s /\ s < y <=> s + 1 \in (x + 1)..y
    OBVIOUS
  <2> QED
    BY <1>1, <2>1, <2>2
<1>2. CASE s # e
  <2>1. s + 1 \in (s + 1)..e /\ (s + 1)..e # {}
    <3>1. s < e
      BY <1>2
    <3>2. s + 1 \in (s + 1)..e
      BY <3>1
    <3> QED
      BY <3>2
  <2>2. ASSUME x < e, s < y PROVE \E k \in (x + 1)..y : k \in (s + 1)..e
    <3>1. CASE x <= s
      <4>1. s + 1 \in (x + 1)..y
        BY <2>2, <3>1
      <4> QED
        BY <2>1, <4>1
    <3>2. CASE x > s
      <4>1. x + 1 \in (x + 1)..y /\ x + 1 \in (s + 1)..e
        BY <2>2, <3>2
      <4> QED
        BY <4>1
    <3> QED
      BY <3>1, <3>2
  <2>3. ASSUME NEW k \in (x + 1)..y, k \in (s + 1)..e PROVE x < e /\ s < y
    BY <2>3
  <2> QED
    BY <1>2, <2>1, <2>2, <2>3
<1> QED
  BY <1>1, <1>2

(* The regions of a report have bytes.                                     *)
LEMMA ReportedRegions ==
  ASSUME NEW raw, Len(raw) \in Nat, NEW r \in Regions(raw)
  PROVE  r.start_offset \in Nat /\ r.end_offset \in Nat /\ r.start_offset < r.end_offset
         /\ r.end_offset <= Len(raw)
<1>1. PICK start \in 0..Len(raw) : r \in {Region(raw, start, end) : end \in (start + 1)..Len(raw)}
  BY Zenon DEF Regions
<1>2. PICK end \in (start + 1)..Len(raw) : r = Region(raw, start, end)
  BY <1>1
<1>3. r.start_offset = start /\ r.end_offset = end
  BY <1>2 DEF Region
<1> QED
  BY <1>3

(* The invariant gives the two properties.                                 *)
LEMMA VerdictFollows ==
  ASSUME VerificationInv
  PROVE  VerdictIsAboutTheTarget /\ AppliedPatchIsJudged
<1>1. CASE outcome = Nothing
  BY <1>1, NothingAssumption DEF VerdictIsAboutTheTarget, AppliedPatchIsJudged, Judged
<1>2. CASE outcome # Nothing /\ (patch.target = NoTarget \/ report = ScanFailed)
  <2>1. outcome = "UNVERIFIED"
    BY <1>2 DEF VerificationInv, VerdictInv, Verdict
  <2> QED
    BY <1>2, <2>1 DEF VerdictIsAboutTheTarget, AppliedPatchIsJudged
<1>3. CASE outcome # Nothing /\ patch.target # NoTarget /\ report # ScanFailed
  <2> DEFINE at == patch.match_region
             to == result.changed
             aim == patch.target
             span == Footprint(aim, at, to)
             grown == ByteDelta(at, to)
  <2>1. /\ IsEvidence(result.source, to) /\ result.source = at
        /\ at.start_offset \in Nat /\ at.end_offset \in Nat
        /\ at.start_offset <= at.end_offset /\ at.end_offset <= Len(original)
        /\ to.start_offset = at.start_offset /\ to.end_offset \in Nat
        /\ to.end_offset >= to.start_offset
        /\ Len(content) - Len(original) = grown
        /\ Len(original) \in Nat /\ Len(content) \in Nat
        /\ Intersects(at, aim)
    BY <1>3, ReportIsEvidence DEF VerificationInv, VerdictInv
  <2>2. /\ report \in Reports
        /\ outcome = IF \E r \in report : Intersects(r, span) THEN "STILL_PRESENT" ELSE "RESOLVED"
    BY <1>3, <2>1 DEF VerificationInv, VerdictInv, Verdict
  <2>3. aim.start_offset \in Nat /\ aim.end_offset \in 0..Len(original)
        /\ aim.start_offset < aim.end_offset
    BY <1>3 DEF VerificationInv, PatchInv
  <2> DEFINE a == at.start_offset
             b == at.end_offset
             m == to.end_offset - to.start_offset
             t == aim.start_offset
             u == aim.end_offset
             n == Len(original)
  <2>4. /\ a \in Nat /\ b \in Nat /\ m \in Nat /\ t \in Nat /\ u \in Nat /\ n \in Nat
        /\ a <= b /\ b <= n /\ t < u /\ u <= n
        /\ to.start_offset = a /\ to.end_offset = a + m
    <3>1. \A x, y \in Nat : y >= x => y - x \in Nat /\ y = x + (y - x)
      OBVIOUS
    <3>2. m \in Nat /\ to.end_offset = a + m
      BY <2>1, <3>1, Zenon
    <3>3. u \in Nat /\ u <= n
      BY <2>1, <2>3
    <3> QED
      BY <2>1, <2>3, <3>2, <3>3, Zenon
  <2>5. grown = m - (b - a)
    BY DEF ByteDelta
  <2>14. TargetBytes = LeftAndWritten(a, b, t, u, n, Len(content) - Len(original))
    BY DEF TargetBytes, LeftAndWritten
  <2>15. Intersects(at, aim) <=>
           IF a = b THEN t <= a /\ a < u ELSE IF t = u THEN a <= t /\ t < b ELSE a < u /\ t < b
    BY DEF Intersects
  <2>16. /\ Footprint(aim, at, to).start_offset = IF t < a THEN t ELSE to.start_offset
         /\ Footprint(aim, at, to).end_offset = IF u > b THEN u + grown ELSE to.end_offset
    BY DEF Footprint, FootprintStart, FootprintEnd
  <2> HIDE DEF a, b, m, t, u, n
  <2>6. a < u /\ (t < b \/ t <= a)
    BY <2>1, <2>4, <2>15
  <2> DEFINE s == IF t < a THEN t ELSE a
             e == IF u > b THEN u + (m - (b - a)) ELSE a + m
  <2>7. span.start_offset = s /\ span.end_offset = e
    BY <2>4, <2>5, <2>16
  <2>8. TargetBytes = (s + 1)..e
    <3> DEFINE by == Len(content) - Len(original)
    <3>1. by = m - (b - a)
      BY <2>1, <2>5
    <3> HIDE DEF by
    <3>2. by \in Int /\ a <= b + by /\ a + m = b + by /\ u + (m - (b - a)) = u + by
      BY <2>4, <3>1
    <3>3. LeftAndWritten(a, b, t, u, n, by)
            = ((IF t < a THEN t ELSE a) + 1)..(IF u > b THEN u + by ELSE b + by)
      BY <2>4, <2>6, <3>2, FootprintIsTheTarget
    <3> QED
      BY <2>14, <3>2, <3>3, Zenon DEF by
  <2>9. s \in Int /\ e \in Int /\ s <= e
    BY <2>4, <2>6
  <2> DEFINE about == IF TargetBytes = {} THEN {at.start_offset + 1} ELSE TargetBytes
  <2>10. about = IF (s + 1)..e = {} THEN {s + 1} ELSE (s + 1)..e
    <3>1. (s + 1)..e = {} => s = a
      <4>1. \A x, y \in Int : (x + 1)..y = {} => ~(x < y)
        OBVIOUS
      <4>2. (s + 1)..e = {} => ~(s < e)
        BY <2>9, <4>1
      <4> QED
        BY <2>4, <2>6, <2>9, <4>2
    <3> QED
      BY <2>4, <2>8, <3>1 DEF a
  <2> HIDE DEF s, e, about, span, at, to, aim, grown
  <2>11. ASSUME NEW r \in report PROVE Intersects(r, span) <=> ReportedBytes(r) \cap about # {}
    <3>1. r \in Regions(content)
      BY <2>2 DEF Reports
    <3>2. r.start_offset \in Nat /\ r.end_offset \in Nat /\ r.start_offset < r.end_offset
      BY <2>1, <3>1, ReportedRegions
    <3>3. Intersects(r, span) <=> IF s = e THEN r.start_offset <= s /\ s < r.end_offset
                                  ELSE r.start_offset < e /\ s < r.end_offset
      BY <2>7, <3>2 DEF Intersects
    <3> QED
      BY <2>9, <2>10, <3>2, <3>3, MeetingIsSharing DEF ReportedBytes
  <2>12. VerdictIsAboutTheTarget
    BY <2>2, <2>11 DEF VerdictIsAboutTheTarget, about, at
  <2>13. outcome # "UNVERIFIED"
    BY <2>2
  <2> QED
    BY <2>12, <2>13 DEF AppliedPatchIsJudged
<1> QED
  BY <1>1, <1>2, <1>3

-----------------------------------------------------------------------------
(* The invariant of the verification. *)

(* It holds before the patch is applied.                                   *)
LEMMA VerificationInitInv == VerificationInit => VerificationInv
<1> SUFFICES ASSUME VerificationInit PROVE VerificationInv
  OBVIOUS
<1>1. PICK old \in OldString, new \in NewString, target \in Regions(content) \cup {NoTarget} :
        /\ CanDraft(content, old, target)
        /\ patch = Draft("f", content, old, new, target)
  BY DEF VerificationInit
<1>2. /\ patch.old = old /\ patch.new = new /\ patch.target = target
      /\ patch.match_region = MatchRegion(content, old)
  BY <1>1 DEF Draft
<1>3. content \in Seq(Byte) /\ original = content /\ old \in Seq(Byte) /\ new \in Seq(Byte)
  BY <1>1, TextAssumption DEF VerificationInit, CanDraft, File
<1>4. ApplyChecks(content, patch)
  BY <1>1, <1>2 DEF ApplyChecks, CanDraft
<1>5. target # NoTarget => /\ target.start_offset \in Nat
                           /\ target.end_offset \in 0..Len(content)
                           /\ target.start_offset < target.end_offset
  <2>1. Len(content) \in Nat
    BY <1>3
  <2>2. ASSUME target # NoTarget
        PROVE  /\ target.start_offset \in Nat /\ target.end_offset \in Nat
               /\ target.start_offset < target.end_offset /\ target.end_offset <= Len(content)
    BY <2>1, <2>2, ReportedRegions
  <2> QED
    BY <2>1, <2>2
<1> QED
  BY <1>2, <1>3, <1>4, <1>5 DEF VerificationInit, VerificationInv, PatchInv, ApplicationInv,
                                VerdictInv

(* Applying the patch, scanning again and judging keep it.                 *)
LEMMA VerificationStep ==
  VerificationInv /\ [VerificationNext]_verificationVars => VerificationInv'
<1> SUFFICES ASSUME VerificationInv, [VerificationNext]_verificationVars
             PROVE  VerificationInv'
  OBVIOUS
<1> USE DEF VerificationInv
<1>1. CASE ApplyPatch
  <2>1. /\ result = Nothing /\ content = original /\ outcome = Nothing
        /\ UNCHANGED <<original, patch, outcome>>
        /\ content' = FinalBytes(original, patch)
        /\ result' = [source |-> patch.match_region, changed |-> ChangedRegion(original, patch)]
    BY <1>1 DEF ApplyPatch, ApplicationInv
  <2>2. result' # Nothing
    <3>1. patch.match_region \in RegionType /\ ChangedRegion(original, patch) \in RegionType
      BY ApplicationFacts, ZenonT(40) DEF PatchInv
    <3>2. result' \in Applied
      BY <2>1, <3>1 DEF Applied
    <3> QED
      BY <3>2, NothingAssumption
  <2> QED
    BY <2>1, <2>2 DEF PatchInv, ApplicationInv, VerdictInv
<1>2. CASE Verify
  <2>1. PICK scan \in Reports \cup {ScanFailed} : VerifyFinding(scan)
    BY <1>2 DEF Verify
  <2>2. UNCHANGED <<content, original, patch, result>>
    BY <2>1 DEF VerifyFinding
  <2>3. Reports' = Reports /\ Verdict(scan)' = Verdict(scan)
    BY <2>2 DEF Reports, Verdict, IsEvidence
  <2>4. report' = scan /\ outcome' = Verdict(scan) /\ result # Nothing
    BY <2>1 DEF VerifyFinding
  <2>5. Verdict(report)' = Verdict(scan)
    BY <2>2, <2>4 DEF Verdict, IsEvidence
  <2> QED
    BY <2>2, <2>3, <2>4, <2>5 DEF PatchInv, ApplicationInv, VerdictInv
<1>3. CASE UNCHANGED verificationVars
  BY <1>3 DEF verificationVars, PatchInv, ApplicationInv, VerdictInv, Verdict, IsEvidence, Reports
<1> QED
  BY <1>1, <1>2, <1>3 DEF VerificationNext

(* RESOLVED is said of a finding only when no report of its rule touches   *)
(* a byte that is left of it or that the patch wrote, STILL_PRESENT only   *)
(* when one does (verify_finding_resolved).                                *)
THEOREM VerdictsAreAboutTheTarget == VerificationSpec => []VerdictIsAboutTheTarget
<1>1. VerificationInv => VerdictIsAboutTheTarget
  BY VerdictFollows
<1> QED
  BY <1>1, VerificationInitInv, VerificationStep, PTL DEF VerificationSpec

(* The evidence that apply_patch returns is the evidence the verifier asks *)
(* for: only a missing target or a failed scan leaves a patch unverified.  *)
THEOREM AppliedPatchesAreJudged == VerificationSpec => []AppliedPatchIsJudged
<1>1. VerificationInv => AppliedPatchIsJudged
  BY VerdictFollows
<1> QED
  BY <1>1, VerificationInitInv, VerificationStep, PTL DEF VerificationSpec

-----------------------------------------------------------------------------
(* The inductive invariant of the review. *)

IsReplaced == phase = "apply" /\ apply.step = "replaced"

(* The running handler works on the current patch, and has what it read.   *)
HandlerInv ==
  /\ phase \in {"prompt", "apply"} => draft = NoDraft
  /\ draft # NoDraft => draft.error = "none"
  /\ phase = "audit" =>
       /\ workspace.cursor = 1
       /\ draft # NoDraft => draft.target \in Targets(draft.path) \cup {NoTarget}
  /\ phase \in {"revise", "apply"} =>
       /\ HasPendingPatch(workspace)
       /\ CurrentPatch(workspace).draft.error # "STALE_DRAFT"
  /\ phase = "apply" =>
       /\ apply.draft = CurrentPatch(workspace).draft
       /\ ApplyChecks(apply.read, apply.draft)
       /\ apply.step = "compared" /\ ~apply.raced => source[apply.draft.path] = apply.read

(* The history of each item: nothing yet happened to those ahead.          *)
LedgerInv ==
  \A i \in 1..Len(workspace.items) :
    /\ i > workspace.cursor => ledger[i].writes = 0 /\ ~ledger[i].revised
    /\ workspace.items[i].status = "applied" => ledger[i].writes > 0
    /\ IsReplaced /\ i = workspace.cursor => ledger[i].writes > 0
    /\ workspace.items[i].draft.path \notin touched =>
         ledger[i].writes = IF \/ workspace.items[i].status = "applied"
                               \/ IsReplaced /\ i = workspace.cursor
                            THEN 1 ELSE 0

(* The session's draft fits the file it was made from.                     *)
DraftApplies ==
  draft # NoDraft /\ draft.path \notin touched => ApplyChecks(source[draft.path], draft)

(* While the agent proposes, an undisturbed file is the scanned one.       *)
ScanInv ==
  phase = "audit" => \A path \in Path : path \notin touched => source[path] = scanned[path]

(* Between the replacement of a file and its record, the evidence of the   *)
(* patches still to be rebased is in the bytes that were replaced.         *)
ReplacedInv ==
  phase = "apply" =>
    /\ apply.raced => apply.draft.path \in touched
    /\ IsReplaced /\ apply.draft.path \notin touched =>
         /\ source[apply.draft.path] = FinalBytes(apply.read, apply.draft)
         /\ \A i \in 1..Len(workspace.items) :
              LET d == workspace.items[i].draft
              IN  /\ workspace.items[i].status = "pending" /\ d.error # "STALE_DRAFT"
                  /\ d.path = apply.draft.path /\ d.target # NoTarget
                  => BytesAt(apply.read, d.target) = ledger[i].evidence

(* A sequence is made of pieces, each of which ends at a place of it.      *)
LaidOut(S, now, pieces, at) ==
  /\ now \in Seq(S) /\ pieces \in Seq(Seq(S))
  /\ at \in [0..Len(pieces) -> Nat] /\ at[0] = 0 /\ at[Len(pieces)] = Len(now)
  /\ \A k \in 1..Len(pieces) :
       /\ at[k] = at[k - 1] + Len(pieces[k])
       /\ \A j \in 1..Len(pieces[k]) : now[at[k - 1] + j] = pieces[k][j]

(* A file that only recorded applications of drafts as proposed changed.   *)
Settled(path) ==
  /\ workspace.items # <<>> \/ phase = "audit"
  /\ scanned[path] \notin {Unreadable, <<>>}
  /\ path \notin touched
  /\ \A i \in AppliedOn(path) : ~ledger[i].revised

(* What the recorded applications left of it. *)
RecordedFile(path) ==
  IF IsReplaced /\ apply.draft.path = path THEN apply.read ELSE source[path]

(* What the applied patches make of each byte of the scanned file.         *)
Pieces(path, ending) == [k \in 1..Len(scanned[path]) |-> Piece(path, ending, k)]

(* The patch of an item is still the one that was proposed, to be applied. *)
IsOpen(i) ==
  /\ workspace.items[i].status = "pending"
  /\ workspace.items[i].draft.error # "STALE_DRAFT"
  /\ ~ledger[i].revised

(* Every item of the file replaces something of the scanned file; an open  *)
(* one is where that has moved to, apart from what was replaced.           *)
IsPlaced(path, at) ==
  \A i \in 1..Len(workspace.items) :
    workspace.items[i].draft.path = path =>
      LET origin == ledger[i].origin
          match  == workspace.items[i].draft.match_region
      IN  /\ origin.start_offset < origin.end_offset
          /\ origin.end_offset <= Len(scanned[path])
          /\ IsOpen(i) => /\ match.start_offset = at[origin.start_offset]
                          /\ match.end_offset = at[origin.end_offset]
          /\ i \in AppliedOn(path) \/ IsOpen(i) =>
               \A j \in AppliedOn(path) \ {i} : IsApart(origin, ledger[j].origin)

(* Some layout of the file fits the applied patches and the open ones.     *)
Placed(path) ==
  \E ending \in [AppliedOn(path) -> LineEnding], at \in [0..Len(scanned[path]) -> Nat] :
    /\ LaidOut(Byte, RecordedFile(path), Pieces(path, ending), at)
    /\ IsPlaced(path, at)

(* The patches of a settled file are where the review takes them to be.    *)
PlacesInv == \A path \in Path : Settled(path) => Placed(path)

IInv ==
  /\ TypeOK /\ CursorSplitsQueue /\ HandlerInv
  /\ LedgerInv /\ StaleNeverWritten
  /\ DraftApplies /\ PendingDraftsApply
  /\ ScanInv /\ ReplacedInv /\ TargetTracksEvidence /\ PlacesInv

-----------------------------------------------------------------------------
(* Drafts of the review: their types, and what binds them again. *)

(* What the configuration of the model is assumed to be.                   *)
LEMMA Constants ==
  /\ OldString \subseteq Seq(Byte) /\ NewString \subseteq Seq(Byte)
  /\ InitialFile \subseteq File /\ EditedFile \subseteq File
BY TextAssumption, FileAssumption

(* A draft that can be made is a draft and can be applied at once.         *)
LEMMA DraftIsTyped ==
  ASSUME NEW path \in Path, NEW file \in File, NEW old \in OldString, NEW new \in NewString,
         NEW target \in RegionType \cup {NoTarget}, CanDraft(file, old, target)
  PROVE  /\ Draft(path, file, old, new, target) \in DraftType
         /\ ApplyChecks(file, Draft(path, file, old, new, target))
<1>1. file \in Seq(Byte) /\ old \in Seq(Byte) /\ LocatesUnique(file, old)
  BY Constants DEF CanDraft, File
<1>2. MatchRegion(file, old) \in RegionType
  BY <1>1, MatchRegionType
<1> QED
  BY <1>2 DEF Draft, DraftType, ApplyChecks, CanDraft

(* What an application writes is bytes, and what it reports a region.      *)
LEMMA FinalBytesType ==
  ASSUME NEW raw \in Seq(Byte), NEW d \in DraftType, ApplyChecks(raw, d)
  PROVE  /\ FinalBytes(raw, d) \in Seq(Byte)
         /\ ChangedRegion(raw, d) \in RegionType
<1>1. d.old \in Seq(Byte) /\ d.new \in Seq(Byte)
  BY Constants DEF DraftType
<1>2. /\ d.match_region.start_offset \in 0..Len(raw)
      /\ d.match_region.end_offset \in 0..Len(raw)
  BY <1>1, MatchRegionType DEF ApplyChecks, RegionType
<1>3. Replacement(raw, d) \in Seq(Byte)
  <2>1. Normalize(d.new) \in Seq(Byte)
    BY <1>1, NormalizeType
  <2>2. DetectNewline(raw) \in Seq(Byte) /\ DetectNewline(raw) # <<>>
    BY DetectNewlineType
  <2> QED
    BY <2>1, <2>2, RestoreNewlinesType DEF Replacement
<1>4. /\ FinalBytes(raw, d) \in Seq(Byte)
      /\ d.match_region.start_offset + Len(Replacement(raw, d)) <= Len(FinalBytes(raw, d))
  <2>1. FinalBytes(raw, d) = Splice(raw, d.match_region, Replacement(raw, d))
    BY DEF FinalBytes
  <2>2. /\ FinalBytes(raw, d) \in Seq(Byte)
        /\ Len(FinalBytes(raw, d)) = d.match_region.start_offset + Len(Replacement(raw, d))
                                       + (Len(raw) - d.match_region.end_offset)
    BY <1>2, <1>3, <2>1, SpliceType, ZenonT(60)
  <2>3. Len(raw) \in Nat /\ Len(Replacement(raw, d)) \in Nat
    BY <1>3
  <2> QED
    BY <1>2, <2>2, <2>3, SMTT(60)
<1> DEFINE start == d.match_region.start_offset
           end   == start + Len(Replacement(raw, d))
<1>5. start \in 0..Len(FinalBytes(raw, d)) /\ end \in 0..Len(FinalBytes(raw, d))
  BY <1>2, <1>3, <1>4
<1>6. ChangedRegion(raw, d) = Region(FinalBytes(raw, d), start, end)
  BY DEF ChangedRegion
<1> HIDE DEF start, end
<1> QED
  BY <1>4, <1>5, <1>6, RegionIsTyped

(* A region that can be moved is moved to a region.                        *)
LEMMA RebaseRegionType ==
  ASSUME NEW file \in Seq(Byte), NEW region \in RegionType, NEW from \in RegionType,
         NEW to \in RegionType, CanRebaseRegion(file, region, from, to)
  PROVE  RebaseRegion(file, region, from, to) \in RegionType
<1> DEFINE by == Shift(region, from, to)
<1>1. by \in Int
  BY DEF Shift, ByteDelta, RegionType
<1>2. /\ 0 <= region.start_offset + by
      /\ region.start_offset + by <= region.end_offset + by
      /\ region.end_offset + by <= Len(file)
  BY DEF CanRebaseRegion, InRange
<1>3. region.start_offset \in Nat /\ region.end_offset \in Nat
  BY DEF RegionType
<1> HIDE DEF by
<1>4. region.start_offset + by \in 0..Len(file) /\ region.end_offset + by \in 0..Len(file)
  BY <1>1, <1>2, <1>3
<1> QED
  BY <1>4, RegionIsTyped DEF RebaseRegion, by

(* A rebased draft is stale or can be applied to the file it was bound to. *)
LEMMA RebaseDraftType ==
  ASSUME NEW file \in File, NEW d \in DraftType, NEW from \in RegionType,
         NEW to \in RegionType,
         d.error # "STALE_DRAFT"
  PROVE  /\ RebaseDraft(file, d, from, to) \in DraftType
         /\ RebaseDraft(file, d, from, to).path = d.path
         /\ \/ RebaseDraft(file, d, from, to).error = "STALE_DRAFT"
            \/ ApplyChecks(file, RebaseDraft(file, d, from, to))
<1>1. CASE CanRebase(file, d, from, to)
  <2> DEFINE match  == MatchRegion(file, d.old)
             target == RebasedTarget(file, d.target, from, to)
             moved  == [d EXCEPT !.match_region = match, !.target = target]
  <2>1. file \in Seq(Byte) /\ file # Unreadable /\ d.old \in Seq(Byte)
        /\ LocatesUnique(file, d.old) /\ Touches(match, target)
    BY <1>1, Constants DEF CanRebase, File, DraftType
  <2>2. match \in RegionType
    BY <2>1, MatchRegionType
  <2>3. target \in RegionType \cup {NoTarget}
    <3>1. CASE d.target = NoTarget
      BY <3>1 DEF RebasedTarget
    <3>2. CASE d.target # NoTarget
      BY <1>1, <2>1, <3>2, RebaseRegionType DEF CanRebase, RebasedTarget, DraftType
    <3> QED
      BY <3>1, <3>2
  <2>4. RebaseDraft(file, d, from, to) = moved
    BY <1>1 DEF RebaseDraft
  <2> HIDE DEF match, target
  <2>5. moved \in DraftType /\ moved.path = d.path /\ moved.old = d.old
        /\ moved.match_region = match /\ moved.target = target
    BY <2>2, <2>3 DEF DraftType
  <2> QED
    BY <2>1, <2>4, <2>5 DEF ApplyChecks, match
<1>2. CASE ~CanRebase(file, d, from, to)
  BY <1>2 DEF RebaseDraft, DraftType
<1> QED
  BY <1>1, <1>2

(* A region apart from the one that was replaced has the same bytes where  *)
(* it is moved to.                                                         *)
LEMMA MovedRegionKeepsBytes ==
  ASSUME NEW raw \in Seq(Byte), NEW d \in DraftType, ApplyChecks(raw, d),
         NEW region \in RegionType,
         CanRebaseRegion(FinalBytes(raw, d), region, d.match_region, ChangedRegion(raw, d))
  PROVE  BytesAt(FinalBytes(raw, d),
                 RebaseRegion(FinalBytes(raw, d), region, d.match_region, ChangedRegion(raw, d)))
           = BytesAt(raw, region)
<1> DEFINE at == d.match_region
           to == ChangedRegion(raw, d)
           new == FinalBytes(raw, d)
           written == Replacement(raw, d)
           by == Shift(region, at, to)
           a == at.start_offset
           b == at.end_offset
           s == region.start_offset
           e == region.end_offset
           w == Len(written)
           n == Len(raw)
<1>1. d.old \in Seq(Byte) /\ d.new \in Seq(Byte)
  BY Constants DEF DraftType
<1>2. /\ at \in RegionType /\ a <= b /\ b <= n /\ written \in Seq(Byte)
      /\ new \in Seq(Byte) /\ Len(new) = a + w + (n - b)
      /\ to.start_offset = a /\ to.end_offset = a + w
  BY <1>1, ApplicationFacts, ZenonT(40)
<1>3. a \in Nat /\ b \in Nat /\ s \in Nat /\ e \in Nat /\ w \in Nat /\ n \in Nat
  BY <1>2 DEF RegionType
<1>4. /\ \A k \in 1..a : new[k] = raw[k]
      /\ \A k \in (b + 1)..n : new[k + (w - (b - a))] = raw[k]
  <2>1. new = Splice(raw, at, written)
    BY DEF FinalBytes
  <2>2. a \in Nat /\ b \in 0..n
    BY <1>2, <1>3
  <2>3. at.start_offset \in Nat /\ at.end_offset \in 0..Len(raw)
        /\ at.start_offset <= at.end_offset /\ written \in Seq(Byte)
    BY <1>2, <2>2
  <2> HIDE DEF new, at, written
  <2>4. /\ \A k \in 1..at.start_offset : new[k] = raw[k]
        /\ \A k \in (at.end_offset + 1)..Len(raw) :
             new[k + (Len(written) - (at.end_offset - at.start_offset))] = raw[k]
    BY <2>1, <2>3, SpliceParts, SMTT(60)
  <2> QED
    BY <2>4
<1>5. /\ e <= a \/ s >= b
      /\ 0 <= s + by /\ s + by <= e + by /\ e + by <= Len(new)
  BY DEF CanRebaseRegion, InRange, IsApart
<1>6. by = IF e <= a THEN 0 ELSE w - (b - a)
  <2>1. by = IF e <= a THEN 0 ELSE (to.end_offset - to.start_offset) - (b - a)
    BY DEF Shift, ByteDelta
  <2>2. to.end_offset - to.start_offset = w
    <3> HIDE DEF a, w, to
    <3> QED
      BY <1>2, <1>3
  <2> QED
    BY <2>1, <2>2
<1>7. /\ BytesAt(new, RebaseRegion(new, region, at, to)) = SubSeq(new, s + by + 1, e + by)
      /\ BytesAt(raw, region) = SubSeq(raw, s + 1, e)
  BY DEF BytesAt, RebaseRegion, Region
<1> HIDE DEF at, to, new, written, by, a, b, s, e, w, n
<1>8. CASE e <= a
  <2>1. by = 0 /\ s <= e /\ e <= n /\ e <= Len(new)
    BY <1>2, <1>3, <1>5, <1>6, <1>8
  <2>2. \A i \in 1..(e - (s + 1) + 1) : new[s + 1 + i - 1] = raw[s + 1 + i - 1]
    <3>1. \A i \in 1..(e - (s + 1) + 1) : s + 1 + i - 1 \in 1..a
      BY <1>3, <1>8
    <3> QED
      BY <1>4, <3>1
  <2>3. SubSeq(new, s + 1, e) = SubSeq(raw, s + 1, e)
    <3>1. /\ s + 1 \in Nat \ {0} /\ e \in 0..Len(new) /\ e \in 0..Len(raw)
          /\ new \in Seq(Byte)
      BY <1>2, <1>3, <2>1 DEF n
    <3> DEFINE x == SubSeq(new, s + 1, e)
               y == SubSeq(raw, s + 1, e)
    <3>2. PartsAgree(Byte, x, new, s + 1, e, y, raw, s + 1, e)
      BY <2>2, <3>1, Zenon DEF PartsAgree
    <3> HIDE DEF x, y
    <3>3. x = y
      BY <3>2, SameParts, Zenon
    <3> QED
      BY <3>3 DEF x, y
  <2>4. s + by + 1 = s + 1 /\ e + by = e
    BY <1>3, <2>1
  <2> QED
    BY <1>7, <2>3, <2>4 DEF new, at, to
<1>9. CASE ~(e <= a)
  <2>1. by = w - (b - a) /\ s >= b /\ s <= e /\ e <= n
    BY <1>2, <1>3, <1>5, <1>6, <1>9
  <2>2. /\ s + by + 1 \in Nat \ {0} /\ e + by \in 0..Len(new)
        /\ s + 1 \in Nat \ {0} /\ e \in 0..n
        /\ (e + by) - (s + by + 1) = e - (s + 1)
    BY <1>2, <1>3, <1>5, <2>1
  <2>3. \A i \in 1..((e + by) - (s + by + 1) + 1) : new[s + by + 1 + i - 1] = raw[s + 1 + i - 1]
    <3>1. ASSUME NEW i \in 1..((e + by) - (s + by + 1) + 1)
          PROVE  s + i \in (b + 1)..n /\ s + by + 1 + i - 1 = s + i + (w - (b - a))
                 /\ s + 1 + i - 1 = s + i
      BY <1>2, <1>3, <2>1
    <3> QED
      BY <1>4, <3>1
  <2>4. SubSeq(new, s + by + 1, e + by) = SubSeq(raw, s + 1, e)
    <3>1. e \in 0..Len(raw) /\ new \in Seq(Byte)
      BY <1>2, <2>2 DEF n
    <3> DEFINE x == SubSeq(new, s + by + 1, e + by)
               y == SubSeq(raw, s + 1, e)
    <3>2. PartsAgree(Byte, x, new, s + by + 1, e + by, y, raw, s + 1, e)
      BY <2>2, <2>3, <3>1, Zenon DEF PartsAgree
    <3> HIDE DEF x, y
    <3>3. x = y
      BY <3>2, SameParts, Zenon
    <3> QED
      BY <3>3 DEF x, y
  <2> QED
    BY <1>7, <2>4 DEF new, at, to
<1> QED
  BY <1>8, <1>9

(* A draft that is bound again, not marked stale, has its target on the    *)
(* bytes it was on before.                                                 *)
LEMMA RebaseKeepsEvidence ==
  ASSUME NEW raw \in Seq(Byte), NEW d \in DraftType, ApplyChecks(raw, d),
         NEW e \in DraftType, NEW r,
         r = RebaseDraft(FinalBytes(raw, d), e, d.match_region, ChangedRegion(raw, d)),
         r.error # "STALE_DRAFT", r.target # NoTarget
  PROVE  /\ e.error # "STALE_DRAFT" /\ e.target # NoTarget
         /\ BytesAt(FinalBytes(raw, d), r.target) = BytesAt(raw, e.target)
<1> DEFINE at == d.match_region
           to == ChangedRegion(raw, d)
           new == FinalBytes(raw, d)
           match == MatchRegion(new, e.old)
           target == RebasedTarget(new, e.target, at, to)
<1>1. CanRebase(new, e, at, to)
  <2> SUFFICES ASSUME ~CanRebase(new, e, at, to) PROVE FALSE
    OBVIOUS
  <2>1. r = [e EXCEPT !.error = "STALE_DRAFT"]
    BY DEF RebaseDraft
  <2> QED
    BY <2>1 DEF DraftType
<1>2. r = [e EXCEPT !.match_region = match, !.target = target]
  BY <1>1 DEF RebaseDraft
<1> HIDE DEF match
<1>3. r.target = target /\ r.error = e.error
  <2> HIDE DEF target
  <2> QED
    BY <1>2 DEF DraftType
<1>4. e.target # NoTarget /\ e.target \in RegionType
  BY <1>3 DEF RebasedTarget, DraftType
<1>5. CanRebaseRegion(new, e.target, at, to) /\ target = RebaseRegion(new, e.target, at, to)
  BY <1>1, <1>4 DEF CanRebase, RebasedTarget
<1> QED
  BY <1>3, <1>4, <1>5, MovedRegionKeepsBytes

-----------------------------------------------------------------------------
(* The operations of the queue, on a queue that its cursor splits. *)

Splits(w) ==
  /\ w \in WorkspaceType
  /\ w.cursor \in 1..(Len(w.items) + 1)
  /\ \A i \in 1..Len(w.items) : IsPending(w.items[i]) <=> i >= w.cursor
  /\ (w.mode = "idle") <=> (w.cursor = Len(w.items) + 1)

(* The idle workspace is split by its cursor.                              *)
LEMMA IdleSplits == Splits(IdleWorkspace)
BY DEF Splits, IdleWorkspace, WorkspaceType

(* The fields of an item, and items with one field changed.                *)
LEMMA ItemUpdate ==
  ASSUME NEW item \in ItemType
  PROVE  /\ item.draft \in DraftType
         /\ item.status \in {"pending", "applied", "discarded"}
         /\ \A status \in {"pending", "applied", "discarded"} :
              LET new == [item EXCEPT !.status = status]
              IN  new \in ItemType /\ new.status = status /\ new.draft = item.draft
         /\ \A d \in DraftType :
              LET new == [item EXCEPT !.draft = d]
              IN  new \in ItemType /\ new.status = item.status /\ new.draft = d
BY DEF ItemType

(* The fields of a workspace.                                              *)
LEMMA WorkspaceFields ==
  ASSUME NEW w \in WorkspaceType
  PROVE  /\ w.items \in Seq(ItemType) /\ Len(w.items) \in Nat
         /\ w.cursor \in Nat /\ w.mode \in {"idle", "reviewing"}
BY DEF WorkspaceType

(* Deciding the current patch moves the cursor to the next.                *)
LEMMA MarkCurrentResult ==
  ASSUME NEW w, Splits(w), HasPendingPatch(w), NEW status \in {"applied", "discarded"}
  PROVE  LET m == MarkCurrentPatch(w, status)
         IN  /\ Splits(m)
             /\ m.cursor = w.cursor + 1
             /\ Len(m.items) = Len(w.items)
             /\ \A i \in 1..Len(w.items) :
                  m.items[i] = IF i = w.cursor THEN [w.items[i] EXCEPT !.status = status]
                               ELSE w.items[i]
<1> DEFINE n == Len(w.items)
           u == [w EXCEPT !.items[w.cursor].status = status]
           m == MarkCurrentPatch(w, status)
<1>1. w \in WorkspaceType /\ w.cursor \in 1..n /\ n \in Nat /\ w.items \in Seq(ItemType)
  BY WorkspaceFields DEF Splits, HasPendingPatch
<1> DEFINE new   == [w.items[w.cursor] EXCEPT !.status = status]
           items == [w.items EXCEPT ![w.cursor] = new]
<1>2. w.items[w.cursor] \in ItemType /\ new \in ItemType /\ new.status = status
  <2>1. w.items[w.cursor] \in ItemType
    BY <1>1
  <2> QED
    BY <2>1, ItemUpdate, ZenonT(60)
<1>3. /\ items \in Seq(ItemType) /\ Len(items) = n
      /\ \A i \in 1..n : items[i] = IF i = w.cursor THEN new ELSE w.items[i]
  <2> HIDE DEF new
  <2> QED
    BY <1>1, <1>2
<1>9. u = [w EXCEPT !.items = items]
  OBVIOUS
<1>10. /\ u \in WorkspaceType /\ u.cursor = w.cursor /\ u.mode = w.mode /\ u.items = items
  <2>1. w \in WorkspaceType /\ items \in Seq(ItemType)
    BY <1>1, <1>3
  <2> HIDE DEF items, u, n
  <2> QED
    BY <2>1, <1>9 DEF WorkspaceType
<1>4. m = AdvanceAfterTerminalPatch(u)
  BY DEF MarkCurrentPatch
<1>5. \A i \in 1..n : IsPending(u.items[i]) <=> i > w.cursor
  <2>1. ~IsPending(new)
    BY <1>2 DEF IsPending
  <2> HIDE DEF new, items, u
  <2> QED
    BY <1>1, <1>3, <1>10, <2>1 DEF Splits
<1> HIDE DEF u, m, n, items
<1>6. PendingAfterCursor(u) = (w.cursor + 1)..n
  BY <1>1, <1>3, <1>10, <1>5 DEF PendingAfterCursor
<1>7. CASE w.cursor = n
  <2>1. PendingAfterCursor(u) = {}
    BY <1>1, <1>6, <1>7
  <2>2. m = [u EXCEPT !.cursor = n + 1, !.mode = "idle"]
    BY <1>3, <1>4, <1>10, <2>1 DEF AdvanceAfterTerminalPatch
  <2>3. m.items = items /\ m.cursor = n + 1 /\ m.mode = "idle" /\ m \in WorkspaceType
    <3>1. n + 1 \in Nat /\ u \in WorkspaceType /\ u.items = items
      BY <1>1, <1>10
    <3> QED
      BY <3>1, <2>2 DEF WorkspaceType
  <2>4. Splits(m)
    BY <1>1, <1>3, <1>5, <1>7, <1>10, <2>3 DEF Splits
  <2> QED
    BY <1>1, <1>3, <1>7, <2>3, <2>4 DEF n, m
<1>8. CASE w.cursor # n
  <2>1. w.cursor + 1 \in PendingAfterCursor(u)
    BY <1>1, <1>6, <1>8
  <2>2. (CHOOSE i \in PendingAfterCursor(u) : \A j \in PendingAfterCursor(u) : i <= j)
           = w.cursor + 1
    BY <1>1, <1>6, <2>1
  <2>3. m = [u EXCEPT !.cursor = w.cursor + 1, !.mode = "reviewing"]
    BY <1>4, <2>1, <2>2 DEF AdvanceAfterTerminalPatch
  <2>4. m.items = items /\ m.cursor = w.cursor + 1 /\ m.mode = "reviewing"
        /\ m \in WorkspaceType
    <3>1. w.cursor + 1 \in Nat /\ u \in WorkspaceType /\ u.items = items
      BY <1>1, <1>10
    <3> QED
      BY <3>1, <2>3 DEF WorkspaceType
  <2>5. Splits(m)
    BY <1>1, <1>3, <1>5, <1>8, <1>10, <2>4 DEF Splits
  <2> QED
    BY <1>1, <1>3, <2>4, <2>5 DEF n, m
<1> QED
  BY <1>7, <1>8

(* Replacing the current draft leaves the rest of the queue alone.         *)
LEMMA ReplaceCurrentResult ==
  ASSUME NEW w, Splits(w), HasPendingPatch(w), NEW d \in DraftType
  PROVE  LET m == ReplaceCurrentPatch(w, d)
         IN  /\ Splits(m)
             /\ m.cursor = w.cursor
             /\ Len(m.items) = Len(w.items)
             /\ \A i \in 1..Len(w.items) :
                  m.items[i] = IF i = w.cursor THEN [w.items[i] EXCEPT !.draft = d]
                               ELSE w.items[i]
<1> DEFINE n == Len(w.items)
           m == ReplaceCurrentPatch(w, d)
<1>1. w \in WorkspaceType /\ w.cursor \in 1..n /\ n \in Nat /\ w.items \in Seq(ItemType)
  BY WorkspaceFields DEF Splits, HasPendingPatch
<1> DEFINE new   == [w.items[w.cursor] EXCEPT !.draft = d]
           items == [w.items EXCEPT ![w.cursor] = new]
<1>2. w.items[w.cursor] \in ItemType
  BY <1>1
<1>3. new \in ItemType /\ new.status = w.items[w.cursor].status
  BY <1>2 DEF ItemType
<1>4. /\ items \in Seq(ItemType) /\ Len(items) = n
      /\ \A i \in 1..n : items[i] = IF i = w.cursor THEN new ELSE w.items[i]
  <2> HIDE DEF new
  <2> QED
    BY <1>1, <1>3
<1>5. m = [[w EXCEPT !.items = items] EXCEPT !.cursor = w.cursor, !.mode = "reviewing"]
  BY <1>1 DEF ReplaceCurrentPatch, WorkspaceType
<1> HIDE DEF items, m
<1>6. /\ m \in WorkspaceType /\ m.cursor = w.cursor /\ m.mode = "reviewing"
      /\ m.items = items
  <2>1. w \in WorkspaceType /\ items \in Seq(ItemType) /\ w.cursor \in Nat
    BY <1>1, <1>4
  <2> HIDE DEF n
  <2> QED
    BY <2>1, <1>5 DEF WorkspaceType
<1>7. \A i \in 1..n : IsPending(items[i]) <=> IsPending(w.items[i])
  <2> HIDE DEF new
  <2> QED
    BY <1>1, <1>3, <1>4 DEF IsPending
<1>8. Splits(m)
  BY <1>1, <1>4, <1>6, <1>7 DEF Splits
<1> QED
  BY <1>4, <1>6, <1>8 DEF m

(* A patch added to a queue of pending patches joins its end.              *)
LEMMA AddPatchResult ==
  ASSUME NEW w, Splits(w), w.cursor = 1, NEW d \in DraftType
  PROVE  LET m == AddPatch(w, d)
         IN  /\ Splits(m)
             /\ m.cursor = 1
             /\ m.items = Append(w.items, [status |-> "pending", draft |-> d])
             /\ Len(m.items) = Len(w.items) + 1
<1> DEFINE n == Len(w.items)
           item == [status |-> "pending", draft |-> d]
           m == AddPatch(w, d)
<1>1. w \in WorkspaceType /\ n \in Nat /\ w.items \in Seq(ItemType)
  BY DEF Splits, WorkspaceType
<1>2. item \in ItemType
  BY DEF ItemType
<1>3. m = [w EXCEPT !.items = Append(w.items, item), !.mode = "reviewing", !.cursor = 1]
  BY <1>1 DEF AddPatch, Splits, WorkspaceType
<1>4. Append(w.items, item) \in Seq(ItemType) /\ Len(Append(w.items, item)) = n + 1
  BY <1>1, <1>2
<1> DEFINE items == Append(w.items, item)
<1>8. m = [[w EXCEPT !.items = items] EXCEPT !.cursor = 1, !.mode = "reviewing"]
  BY <1>3
<1>5. /\ m \in WorkspaceType /\ m.cursor = 1 /\ m.mode = "reviewing" /\ m.items = items
  <2>1. w \in WorkspaceType /\ items \in Seq(ItemType)
    BY <1>1, <1>4
  <2> HIDE DEF items, m
  <2> QED
    BY <2>1, <1>8 DEF WorkspaceType
<1>6. ASSUME NEW i \in 1..(n + 1) PROVE IsPending(Append(w.items, item)[i])
  <2>1. IsPending(item)
    BY DEF IsPending
  <2>2. Append(w.items, item)[i] = IF i <= n THEN w.items[i] ELSE item
    BY <1>1, <1>2, AppendProperties
  <2>3. i <= n => IsPending(w.items[i])
    BY <1>1 DEF Splits
  <2> QED
    BY <1>1, <2>1, <2>2, <2>3
<1> HIDE DEF m
<1>7. Splits(m)
  BY <1>1, <1>4, <1>5, <1>6 DEF Splits
<1> QED
  BY <1>4, <1>5, <1>7 DEF m

(* Rebasing changes nothing but the drafts of pending patches of one file. *)
LEMMA RebasePendingResult ==
  ASSUME NEW w, Splits(w), NEW file \in File, NEW path, NEW from \in RegionType,
         NEW to \in RegionType
  PROVE  LET m == RebasePending(w, file, path, from, to)
         IN  /\ Splits(m)
             /\ m.cursor = w.cursor
             /\ Len(m.items) = Len(w.items)
             /\ \A i \in 1..Len(w.items) :
                  /\ m.items[i].status = w.items[i].status
                  /\ m.items[i].draft.path = w.items[i].draft.path
                  /\ \/ m.items[i] = w.items[i]
                     \/ i >= w.cursor
                  /\ IsPending(w.items[i]) /\ w.items[i].draft.path = path =>
                       \/ m.items[i].draft.error = "STALE_DRAFT"
                       \/ ApplyChecks(file, m.items[i].draft)
                  /\ w.items[i].draft.path # path => m.items[i] = w.items[i]
                  /\ m.items[i].draft.error # "STALE_DRAFT" =>
                       \/ m.items[i].draft = w.items[i].draft /\ w.items[i].draft.path # path
                       \/ ~IsPending(w.items[i])
                       \/ m.items[i].draft = RebaseDraft(file, w.items[i].draft, from, to)
<1> DEFINE n == Len(w.items)
           m == RebasePending(w, file, path, from, to)
           moves(i) == /\ IsPending(w.items[i])
                       /\ w.items[i].draft.path = path
                       /\ w.items[i].draft.error # "STALE_DRAFT"
           moved(i) == [w.items[i] EXCEPT
                          !.draft = RebaseDraft(file, w.items[i].draft, from, to)]
           item(i)  == IF moves(i) THEN moved(i) ELSE w.items[i]
<1>1. w \in WorkspaceType /\ n \in Nat /\ w.items \in Seq(ItemType)
  BY DEF Splits, WorkspaceType
<1>2. m = [w EXCEPT !.items = [i \in 1..n |-> item(i)]]
  BY DEF RebasePending
<1>3. ASSUME NEW i \in 1..n
      PROVE  /\ item(i) \in ItemType
             /\ item(i).status = w.items[i].status
             /\ item(i).draft.path = w.items[i].draft.path
             /\ ~moves(i) => item(i) = w.items[i]
             /\ moves(i) =>
                  /\ item(i).draft = RebaseDraft(file, w.items[i].draft, from, to)
                  /\ item(i).draft.error = "STALE_DRAFT" \/ ApplyChecks(file, item(i).draft)
  <2>1. w.items[i] \in ItemType /\ w.items[i].draft \in DraftType
    <3>1. w.items[i] \in ItemType
      BY <1>1
    <3> QED
      BY <3>1, ItemUpdate
  <2>2. CASE moves(i)
    <3> DEFINE new == RebaseDraft(file, w.items[i].draft, from, to)
    <3>1. /\ new \in DraftType /\ new.path = w.items[i].draft.path
          /\ new.error = "STALE_DRAFT" \/ ApplyChecks(file, new)
      BY <2>1, <2>2, RebaseDraftType
    <3> HIDE DEF new
    <3>2. item(i) = [w.items[i] EXCEPT !.draft = new]
      BY <2>2 DEF new
    <3>3. item(i) \in ItemType /\ item(i).draft = new /\ item(i).status = w.items[i].status
        BY <2>1, <3>1, <3>2 DEF ItemType
    <3> QED
      BY <2>2, <3>1, <3>3 DEF new
  <2>3. CASE ~moves(i)
    BY <2>1, <2>3
  <2> QED
    BY <2>2, <2>3
<1> HIDE DEF item
<1> DEFINE items == [i \in 1..n |-> item(i)]
<1>9. /\ items \in Seq(ItemType) /\ Len(items) = n
      /\ \A i \in 1..n : items[i] = item(i)
  BY <1>1, <1>3
<1>4. /\ m \in WorkspaceType /\ m.cursor = w.cursor /\ m.mode = w.mode
      /\ Len(m.items) = n
      /\ \A i \in 1..n : m.items[i] = item(i)
  <2>1. m = [w EXCEPT !.items = items]
    BY <1>2
  <2>2. w \in WorkspaceType /\ items \in Seq(ItemType)
    BY <1>1, <1>9
  <2> HIDE DEF items, m
  <2>3. /\ m \in WorkspaceType /\ m.cursor = w.cursor /\ m.mode = w.mode
        /\ m.items = items
    BY <2>1, <2>2 DEF WorkspaceType
  <2> QED
    BY <1>9, <2>3
<1> HIDE DEF m
<1>5. \A i \in 1..n : IsPending(m.items[i]) <=> IsPending(w.items[i])
  BY <1>3, <1>4 DEF IsPending
<1>6. Splits(m)
  BY <1>4, <1>5 DEF Splits
<1>7. \A i \in 1..n : moves(i) => i >= w.cursor
  BY DEF Splits
<1>8. \A i \in 1..n :
        IsPending(w.items[i]) /\ w.items[i].draft.path = path =>
          \/ item(i).draft.error = "STALE_DRAFT"
          \/ ApplyChecks(file, item(i).draft)
  BY <1>3
<1>10. \A i \in 1..n :
         item(i).draft.error # "STALE_DRAFT" =>
           \/ item(i).draft = w.items[i].draft /\ w.items[i].draft.path # path
           \/ ~IsPending(w.items[i])
           \/ item(i).draft = RebaseDraft(file, w.items[i].draft, from, to)
  BY <1>3
<1> QED
  BY <1>3, <1>4, <1>6, <1>7, <1>8, <1>10 DEF m

-----------------------------------------------------------------------------
(* Every step preserves the type of the variables and the split queue. *)

(* The two invariants say that the cursor splits the workspace.            *)
LEMMA QueueFacts ==
  ASSUME TypeOK, CursorSplitsQueue
  PROVE  Splits(workspace)
BY DEF TypeOK, CursorSplitsQueue, Splits

(* The current patch of a queue that has one.                              *)
LEMMA CurrentFacts ==
  ASSUME TypeOK, HasPendingPatch(workspace)
  PROVE  /\ workspace.cursor \in 1..Len(workspace.items)
         /\ workspace.items[workspace.cursor] \in ItemType
         /\ CurrentPatch(workspace).status = "pending"
         /\ CurrentPatch(workspace).draft \in DraftType
<1>1. workspace.items \in Seq(ItemType)
  BY WorkspaceFields DEF TypeOK
<1>2. workspace.items[workspace.cursor] \in ItemType
  BY <1>1 DEF HasPendingPatch
<1> QED
  BY <1>2, ItemUpdate DEF HasPendingPatch, IsPending, CurrentPatch

(* What recording an application does to the queue. *)
LEMMA RecordApplyResult ==
  ASSUME TypeOK, CursorSplitsQueue, HandlerInv, RecordApply
  PROVE  /\ Splits(workspace')
         /\ workspace.cursor \in 1..Len(workspace.items)
         /\ workspace'.cursor = workspace.cursor + 1
         /\ Len(workspace'.items) = Len(workspace.items)
         /\ \A i \in 1..Len(workspace.items) :
              LET old == workspace.items[i]
                  new == workspace'.items[i]
              IN  /\ new.status = IF i = workspace.cursor THEN "applied" ELSE old.status
                  /\ new.draft.path = old.draft.path
                  /\ i <= workspace.cursor \/ old.draft.path # apply.draft.path
                       => new.draft = old.draft
                  /\ i > workspace.cursor /\ old.draft.path = apply.draft.path =>
                       \/ new.draft.error = "STALE_DRAFT"
                       \/ /\ ApplyChecks(source[apply.draft.path], new.draft)
                          /\ new.draft = RebaseDraft(source[apply.draft.path], old.draft,
                                                    apply.draft.match_region,
                                                    ChangedRegion(apply.read, apply.draft))
<1> DEFINE file == source[apply.draft.path]
           n    == Len(workspace.items)
           m    == MarkCurrentPatch(workspace, "applied")
           from == apply.draft.match_region
           to   == ChangedRegion(apply.read, apply.draft)
<1>1. Splits(workspace) /\ HasPendingPatch(workspace) /\ workspace.cursor \in 1..n
  BY QueueFacts DEF RecordApply, HandlerInv, HasPendingPatch
<1>2. apply.draft \in DraftType /\ apply.read \in Seq(Byte) /\ ApplyChecks(apply.read, apply.draft)
  BY DEF RecordApply, ApplyType, TypeOK, HandlerInv
<1>3. file \in File /\ from \in RegionType /\ to \in RegionType
  BY <1>2, FinalBytesType DEF TypeOK, DraftType
<1>4. /\ Splits(m) /\ m.cursor = workspace.cursor + 1 /\ Len(m.items) = n
      /\ \A i \in 1..n : m.items[i] = IF i = workspace.cursor
                                      THEN [workspace.items[i] EXCEPT !.status = "applied"]
                                      ELSE workspace.items[i]
  BY <1>1, MarkCurrentResult
<1>5. workspace' = RebasePending(m, file, apply.draft.path, from, to)
  BY DEF RecordApply
<1>6. ASSUME NEW i \in 1..n
      PROVE  /\ m.items[i].draft = workspace.items[i].draft
             /\ m.items[i].status = IF i = workspace.cursor THEN "applied"
                                     ELSE workspace.items[i].status
             /\ IsPending(m.items[i]) <=> i > workspace.cursor
  <2>1. workspace.items[i] \in ItemType
    BY <1>1, WorkspaceFields DEF Splits
  <2>2. IsPending(m.items[i]) <=> i > workspace.cursor
    BY <1>1, <1>4, WorkspaceFields DEF Splits
  <2>3. CASE i = workspace.cursor
    <3>1. m.items[i] = [workspace.items[i] EXCEPT !.status = "applied"]
      BY <1>4, <2>3
    <3> HIDE DEF m
    <3> QED
      BY <2>1, <2>2, <2>3, <3>1, ItemUpdate
  <2>4. CASE i # workspace.cursor
    BY <1>4, <2>2, <2>4
  <2> QED
    BY <2>3, <2>4
<1> HIDE DEF m, file, from, to
<1>7. /\ Splits(workspace') /\ workspace'.cursor = m.cursor /\ Len(workspace'.items) = n
      /\ \A i \in 1..n :
           /\ workspace'.items[i].status = m.items[i].status
           /\ workspace'.items[i].draft.path = m.items[i].draft.path
           /\ \/ workspace'.items[i] = m.items[i]
              \/ i >= m.cursor
           /\ IsPending(m.items[i]) /\ m.items[i].draft.path = apply.draft.path =>
                \/ workspace'.items[i].draft.error = "STALE_DRAFT"
                \/ ApplyChecks(file, workspace'.items[i].draft)
           /\ m.items[i].draft.path # apply.draft.path => workspace'.items[i] = m.items[i]
           /\ workspace'.items[i].draft.error # "STALE_DRAFT" =>
                \/ workspace'.items[i].draft = m.items[i].draft
                   /\ m.items[i].draft.path # apply.draft.path
                \/ ~IsPending(m.items[i])
                \/ workspace'.items[i].draft = RebaseDraft(file, m.items[i].draft, from, to)
  <2>1. Splits(m) /\ Len(m.items) = n
    BY <1>4
  <2> QED
    BY <1>3, <1>5, <2>1, RebasePendingResult
<1>8. n \in Nat /\ workspace.cursor \in Nat
  BY <1>1, WorkspaceFields DEF Splits
<1> QED
  BY <1>1, <1>4, <1>6, <1>7, <1>8 DEF file, from, to

(* Every step leaves the queue split by its cursor.                        *)
LEMMA QueueStep ==
  ASSUME TypeOK, CursorSplitsQueue, HandlerInv, [Next]_vars
  PROVE  Splits(workspace')
<1> USE DEF HandlerInv
<1>1. Splits(workspace) /\ Splits(IdleWorkspace)
  BY QueueFacts, IdleSplits
<1>2. CASE CommitProposal
  <2>1. draft \in DraftType /\ workspace.cursor = 1
    BY <1>2 DEF CommitProposal, TypeOK
  <2> QED
    BY <1>1, <1>2, <2>1, AddPatchResult DEF CommitProposal
<1>3. CASE EndAudit
  BY <1>1, <1>3 DEF EndAudit
<1>4. CASE Discard
  BY <1>1, <1>4, MarkCurrentResult DEF Discard
<1>5. CASE EndRevise
  <2>1. CASE ReplaceAllowed(CurrentPatch(workspace).draft)
    <3>1. draft \in DraftType
      BY <2>1 DEF ReplaceAllowed, TypeOK
    <3> QED
      BY <1>1, <1>5, <2>1, <3>1, ReplaceCurrentResult DEF EndRevise
  <2>2. CASE ~ReplaceAllowed(CurrentPatch(workspace).draft)
    BY <1>1, <1>5, <2>2 DEF EndRevise
  <2> QED
    BY <2>1, <2>2
<1>6. CASE RecordApply
  BY <1>6, RecordApplyResult
<1>7. CASE BeginAudit \/ Abort
  BY <1>1, <1>7 DEF BeginAudit, Abort
<1>8. CASE UNCHANGED workspace
  BY <1>1, <1>8
<1>9. \/ BeginAudit \/ CommitProposal \/ EndAudit \/ Discard \/ Abort \/ EndRevise \/ RecordApply
      \/ UNCHANGED workspace
  BY DEF Next, vars, ProposeSome, Propose, BeginRevise, ReviseSome, Revise, StageApply,
         CompareSource, RejectApply, ReplaceSource, ExternalEditSome, ExternalEdit, Interrupt
<1> QED
  BY <1>2, <1>3, <1>4, <1>5, <1>6, <1>7, <1>8, <1>9

(* The history grows and shrinks with the queue. *)
LedgerTyped == ledger \in Seq(LedgerType) /\ Len(ledger) = Len(workspace.items)

(* The evidence of a proposed patch is bytes of the scanned file.          *)
LEMMA EvidenceType ==
  ASSUME TypeOK, HandlerInv, phase = "audit", draft # NoDraft
  PROVE  Evidence(draft) \in Seq(Byte)
<1>1. CASE draft.target = NoTarget \/ scanned[draft.path] = Unreadable
  BY <1>1 DEF Evidence
<1>2. CASE draft.target # NoTarget /\ scanned[draft.path] # Unreadable
  <2>1. draft \in DraftType /\ draft.path \in Path
    BY DEF TypeOK, DraftType
  <2>2. scanned[draft.path] \in Seq(Byte)
    BY <1>2, <2>1 DEF TypeOK, File
  <2>3. draft.target \in Targets(draft.path)
    BY <1>2 DEF HandlerInv
  <2>4. PICK span \in FindingSpan : \E start \in 0..(Len(scanned[draft.path]) - span) :
           draft.target = Region(scanned[draft.path], start, start + span)
    BY <1>2, <2>3 DEF Targets
  <2>5. PICK start \in 0..(Len(scanned[draft.path]) - span) :
           draft.target = Region(scanned[draft.path], start, start + span)
    BY <2>4
  <2>6. /\ draft.target.start_offset = start
        /\ draft.target.end_offset = start + span
    BY <2>5 DEF Region
  <2>7. span \in Nat
    BY FileAssumption
  <2>8. start \in Nat /\ start + span \in 0..Len(scanned[draft.path])
    BY <2>2, <2>7
  <2> QED
    BY <1>2, <2>2, <2>6, <2>8, BytesAtType DEF Evidence
<1> QED
  BY <1>1, <1>2

(* The history stays typed and as long as the queue.                       *)
LEMMA LedgerTypeStep ==
  ASSUME TypeOK, CursorSplitsQueue, HandlerInv, [Next]_vars
  PROVE  LedgerTyped'
<1>1. Splits(workspace) /\ LedgerTyped
  BY QueueFacts DEF TypeOK, LedgerTyped
<1>2. CASE CommitProposal
  <2>1. draft \in DraftType /\ workspace.cursor = 1
    BY <1>2 DEF CommitProposal, TypeOK, HandlerInv
  <2>2. Len(workspace'.items) = Len(workspace.items) + 1
    BY <1>1, <1>2, <2>1, AddPatchResult DEF CommitProposal
  <2>3. Evidence(draft) \in Seq(Byte) /\ draft.match_region \in RegionType
    BY <1>2, <2>1, EvidenceType DEF CommitProposal, DraftType
  <2> DEFINE entry == [origin |-> draft.match_region, evidence |-> Evidence(draft),
                       writes |-> 0, revised |-> FALSE]
  <2>4. entry \in LedgerType
    BY <2>3 DEF LedgerType
  <2>5. ledger' = Append(ledger, entry)
    BY <1>2 DEF CommitProposal
  <2> HIDE DEF entry
  <2> QED
    BY <1>1, <2>2, <2>4, <2>5 DEF LedgerTyped
<1>3. CASE EndAudit \/ Abort \/ BeginAudit
  <2>1. \/ UNCHANGED <<workspace, ledger>>
        \/ workspace' = IdleWorkspace /\ ledger' = <<>>
    BY <1>3 DEF EndAudit, Abort, BeginAudit
  <2>2. CASE UNCHANGED <<workspace, ledger>>
    BY <1>1, <2>2 DEF LedgerTyped
  <2>3. CASE workspace' = IdleWorkspace /\ ledger' = <<>>
    <3>1. workspace'.items = <<>>
      BY <2>3 DEF IdleWorkspace
    <3> QED
      BY <2>3, <3>1 DEF LedgerTyped
  <2> QED
    BY <2>1, <2>2, <2>3
<1>4. CASE Discard
  <2>1. Len(workspace'.items) = Len(workspace.items) /\ ledger' = ledger
    BY <1>1, <1>4, MarkCurrentResult DEF Discard
  <2> QED
    BY <1>1, <2>1 DEF LedgerTyped
<1>5. CASE EndRevise
  <2>1. CASE ReplaceAllowed(CurrentPatch(workspace).draft)
    <3>1. draft \in DraftType /\ HasPendingPatch(workspace)
      BY <1>5, <2>1 DEF EndRevise, HandlerInv, ReplaceAllowed, TypeOK
    <3>2. Len(workspace'.items) = Len(workspace.items)
      BY <1>1, <1>5, <2>1, <3>1, ReplaceCurrentResult DEF EndRevise
    <3>3. workspace.cursor \in 1..Len(ledger)
      BY <1>1, <3>1, CurrentFacts DEF LedgerTyped
    <3>4. ledger[workspace.cursor] \in LedgerType
      BY <1>1, <3>3 DEF LedgerTyped
    <3>5. [ledger[workspace.cursor] EXCEPT !.revised = TRUE] \in LedgerType
      BY <3>4 DEF LedgerType
    <3>6. ledger' = [ledger EXCEPT ![workspace.cursor].revised = TRUE]
      BY <1>5, <2>1 DEF EndRevise
    <3> QED
      BY <1>1, <3>2, <3>3, <3>5, <3>6 DEF LedgerTyped
  <2>2. CASE ~ReplaceAllowed(CurrentPatch(workspace).draft)
    BY <1>1, <1>5, <2>2 DEF EndRevise, LedgerTyped
  <2> QED
    BY <2>1, <2>2
<1>6. CASE ReplaceSource
  <2>1. HasPendingPatch(workspace)
    BY <1>6 DEF ReplaceSource, HandlerInv
  <2>2. workspace.cursor \in 1..Len(ledger)
    BY <1>1, <2>1, CurrentFacts DEF LedgerTyped
  <2>3. ledger[workspace.cursor] \in LedgerType
    BY <1>1, <2>2 DEF LedgerTyped
  <2>4. [ledger[workspace.cursor] EXCEPT !.writes = @ + 1] \in LedgerType
    BY <2>3 DEF LedgerType
  <2>5. ledger' = [ledger EXCEPT ![workspace.cursor].writes = @ + 1] /\ workspace' = workspace
    BY <1>6, SMTT(60) DEF ReplaceSource
  <2> QED
    BY <1>1, <2>2, <2>4, <2>5 DEF LedgerTyped
<1>7. CASE RecordApply
  <2>1. Len(workspace'.items) = Len(workspace.items) /\ ledger' = ledger
    BY <1>7, RecordApplyResult, Zenon DEF RecordApply
  <2> QED
    BY <1>1, <2>1 DEF LedgerTyped
<1>8. CASE UNCHANGED <<workspace, ledger>>
  BY <1>1, <1>8 DEF LedgerTyped
<1>9. \/ BeginAudit \/ CommitProposal \/ EndAudit \/ Discard \/ Abort \/ EndRevise
      \/ ReplaceSource \/ RecordApply \/ UNCHANGED <<workspace, ledger>>
  BY DEF Next, vars, ProposeSome, Propose, BeginRevise, ReviseSome, Revise, StageApply,
         CompareSource, RejectApply, ExternalEditSome, ExternalEdit, Interrupt
<1> QED
  BY <1>2, <1>3, <1>4, <1>5, <1>6, <1>7, <1>8, <1>9

(* Files stay files: what is written to one is a sequence of bytes.        *)
LEMMA FilesTypeStep ==
  ASSUME TypeOK, HandlerInv, [Next]_vars
  PROVE  source' \in [Path -> File] /\ scanned' \in [Path -> File]
<1>1. source \in [Path -> File] /\ scanned \in [Path -> File]
  BY DEF TypeOK
<1>2. CASE ReplaceSource
  <2>1. apply \in ApplyType /\ ApplyChecks(apply.read, apply.draft)
    BY <1>2 DEF ReplaceSource, TypeOK, HandlerInv
  <2>2. apply.draft \in DraftType /\ apply.read \in Seq(Byte) /\ apply.draft.path \in Path
    BY <2>1 DEF ApplyType, DraftType
  <2>3. FinalBytes(apply.read, apply.draft) \in File
    BY <2>1, <2>2, FinalBytesType DEF File
  <2> QED
    BY <1>1, <1>2, <2>2, <2>3 DEF ReplaceSource
<1>3. CASE ExternalEditSome
  <2>1. PICK path \in Path, file \in EditedFile : ExternalEdit(path, file)
    BY <1>3 DEF ExternalEditSome
  <2>2. file \in File
    BY Constants
  <2> QED
    BY <1>1, <2>1, <2>2 DEF ExternalEdit
<1>4. CASE BeginAudit
  BY <1>1, <1>4 DEF BeginAudit
<1>5. CASE UNCHANGED <<source, scanned>>
  BY <1>1, <1>5
<1>6. ReplaceSource \/ ExternalEditSome \/ BeginAudit \/ UNCHANGED <<source, scanned>>
  BY DEF Next, vars, ProposeSome, Propose, CommitProposal, EndAudit, Discard, Abort, BeginRevise,
         ReviseSome, Revise, EndRevise, StageApply, CompareSource, RejectApply, RecordApply,
         Interrupt
<1> QED
  BY <1>2, <1>3, <1>4, <1>5, <1>6

(* A draft that a tool call leaves in the session. *)
LEMMA ProposeResult ==
  ASSUME TypeOK, ProposeSome
  PROVE  /\ draft' \in DraftType \cup {NoDraft}
         /\ draft' # NoDraft =>
              /\ draft'.error = "none"
              /\ draft'.target \in Targets(draft'.path) \cup {NoTarget}
              /\ ApplyChecks(source[draft'.path], draft')
<1>1. PICK path \in Path, old \in OldString, new \in NewString :
        \E target \in Targets(path) \cup {NoTarget} : Propose(path, old, new, target)
  BY DEF ProposeSome
<1>2. PICK target \in Targets(path) \cup {NoTarget} : Propose(path, old, new, target)
  BY <1>1
<1>3. target \in RegionType \cup {NoTarget}
  <2>1. CASE target = NoTarget
    BY <2>1
  <2>2. CASE target # NoTarget
    <3>1. scanned[path] # Unreadable /\ scanned[path] \in Seq(Byte)
      BY <1>2, <2>2 DEF Targets, TypeOK, File
    <3>2. PICK span \in FindingSpan : \E start \in 0..(Len(scanned[path]) - span) :
             target = Region(scanned[path], start, start + span)
      BY <1>2, <2>2, <3>1 DEF Targets
    <3>3. PICK start \in 0..(Len(scanned[path]) - span) :
             target = Region(scanned[path], start, start + span)
      BY <3>2
    <3>4. span \in Nat
      BY FileAssumption
    <3>5. start \in 0..Len(scanned[path]) /\ start + span \in 0..Len(scanned[path])
      BY <3>1, <3>4
    <3> QED
      BY <3>1, <3>3, <3>5, RegionIsTyped
  <2> QED
    BY <2>1, <2>2
<1>4. source[path] \in File
  BY DEF TypeOK
<1>5. CASE CanDraft(source[path], old, target)
  <2> DEFINE d == Draft(path, source[path], old, new, target)
  <2>1. draft' = d
    BY <1>2, <1>5 DEF Propose
  <2>2. d \in DraftType /\ ApplyChecks(source[path], d)
    BY <1>3, <1>4, <1>5, DraftIsTyped
  <2>3. d.path = path /\ d.target = target /\ d.error = "none"
    BY DEF Draft
  <2> HIDE DEF d
  <2> QED
    BY <1>2, <2>1, <2>2, <2>3
<1>6. CASE ~CanDraft(source[path], old, target)
  BY <1>2, <1>6 DEF Propose
<1> QED
  BY <1>5, <1>6

(* A draft that revise_patch leaves in the session.                        *)
LEMMA ReviseResult ==
  ASSUME TypeOK, HandlerInv, ReviseSome
  PROVE  /\ draft' \in DraftType
         /\ draft'.error = "none"
         /\ ApplyChecks(source[draft'.path], draft')
<1> DEFINE current == CurrentPatch(workspace).draft
<1>1. PICK old \in OldString, new \in NewString : Revise(old, new)
  BY DEF ReviseSome
<1>2. current \in DraftType
  BY <1>1, CurrentFacts DEF Revise, HandlerInv
<1> HIDE DEF current
<1>3. current.path \in Path /\ current.target \in RegionType \cup {NoTarget}
      /\ source[current.path] \in File
  BY <1>2 DEF DraftType, TypeOK
<1>4. CanDraft(source[current.path], old, current.target)
  BY <1>1 DEF Revise, current
<1> DEFINE d == Draft(current.path, source[current.path], old, new, current.target)
<1>5. draft' = d
  BY <1>1 DEF Revise, current
<1>6. d \in DraftType /\ ApplyChecks(source[current.path], d)
  BY <1>3, <1>4, DraftIsTyped
<1>7. d.path = current.path /\ d.error = "none"
  BY DEF Draft
<1> HIDE DEF d
<1> QED
  BY <1>5, <1>6, <1>7

(* The session's draft stays a draft.                                      *)
LEMMA DraftTypeStep ==
  ASSUME TypeOK, HandlerInv, [Next]_vars
  PROVE  draft' \in DraftType \cup {NoDraft}
<1>1. draft \in DraftType \cup {NoDraft}
  BY DEF TypeOK
<1>2. ProposeSome \/ ReviseSome \/ draft' = NoDraft \/ UNCHANGED draft
  BY DEF Next, vars, BeginAudit, CommitProposal, EndAudit, Discard, Abort, BeginRevise, EndRevise,
         StageApply, CompareSource, RejectApply, ReplaceSource, RecordApply, ExternalEditSome,
         ExternalEdit, Interrupt
<1> QED
  BY <1>1, <1>2, ProposeResult, ReviseResult

(* The application under way stays typed.                                  *)
LEMMA ApplyTypeStep ==
  ASSUME TypeOK, HandlerInv, [Next]_vars
  PROVE  IF phase' = "apply" THEN apply' \in ApplyType ELSE apply' = NoApply
<1>1. IF phase = "apply" THEN apply \in ApplyType ELSE apply = NoApply
  BY DEF TypeOK
<1>2. CASE StageApply
  <2> DEFINE current == CurrentPatch(workspace).draft
  <2>1. current \in DraftType /\ ApplyChecks(source[current.path], current)
    BY <1>2, CurrentFacts DEF StageApply
  <2> HIDE DEF current
  <2>2. source[current.path] \in Seq(Byte)
    BY <2>1 DEF DraftType, TypeOK, File, ApplyChecks
  <2>3. phase' = "apply" /\ apply' = [step |-> "staged", draft |-> current,
                                     read |-> source[current.path], raced |-> FALSE]
    BY <1>2 DEF StageApply, current
  <2> QED
    BY <2>1, <2>2, <2>3 DEF ApplyType
<1>3. CASE CompareSource
  BY <1>1, <1>3 DEF CompareSource, ApplyType
<1>4. CASE ReplaceSource
  BY <1>1, <1>4 DEF ReplaceSource, ApplyType
<1>5. CASE ExternalEditSome
  <2>1. /\ apply' = apply \/ (phase = "apply" /\ apply' = [apply EXCEPT !.raced = TRUE])
        /\ phase' = phase
    BY <1>5 DEF ExternalEditSome, ExternalEdit
  <2> QED
    BY <1>1, <2>1 DEF ApplyType
<1>6. CASE RejectApply \/ RecordApply \/ Interrupt
  BY <1>6 DEF RejectApply, RecordApply, Interrupt
<1>7. CASE BeginAudit \/ ProposeSome \/ CommitProposal \/ EndAudit \/ Discard \/ Abort
           \/ BeginRevise \/ ReviseSome \/ EndRevise
  <2>1. phase # "apply" /\ phase' # "apply" /\ apply' = apply
    BY <1>7 DEF BeginAudit, ProposeSome, Propose, CommitProposal, EndAudit, Discard, Abort,
                BeginRevise, ReviseSome, Revise, EndRevise
  <2> QED
    BY <1>1, <2>1
<1>8. CASE UNCHANGED vars
  BY <1>1, <1>8 DEF vars
<1> QED
  BY <1>2, <1>3, <1>4, <1>5, <1>6, <1>7, <1>8 DEF Next

(* Type correctness and the split queue are kept by every step.            *)
LEMMA TypeStep ==
  ASSUME TypeOK, CursorSplitsQueue, HandlerInv, [Next]_vars
  PROVE  TypeOK' /\ CursorSplitsQueue'
<1>1. Splits(workspace')
  BY QueueStep
<1>2. LedgerTyped'
  BY LedgerTypeStep
<1>3. /\ source' \in [Path -> File] /\ scanned' \in [Path -> File]
      /\ draft' \in DraftType \cup {NoDraft}
      /\ IF phase' = "apply" THEN apply' \in ApplyType ELSE apply' = NoApply
  BY FilesTypeStep, DraftTypeStep, ApplyTypeStep
<1>4. /\ phase' \in {"prompt", "audit", "revise", "apply"}
      /\ audits' \in Nat /\ faults' \in Nat
  BY DEF TypeOK, Next, vars, BeginAudit, ProposeSome, Propose, CommitProposal, EndAudit, Discard,
         Abort, BeginRevise, ReviseSome, Revise, EndRevise, StageApply, CompareSource, RejectApply,
         ReplaceSource, RecordApply, ExternalEditSome, ExternalEdit, Interrupt
<1>5. touched' \subseteq Path
  <2>1. CASE Interrupt
    BY <2>1 DEF Interrupt, TypeOK, ApplyType, DraftType
  <2>2. CASE ~Interrupt
    BY <2>2 DEF TypeOK, Next, vars, BeginAudit, ProposeSome, Propose, CommitProposal, EndAudit,
         Discard, Abort, BeginRevise, ReviseSome, Revise, EndRevise, StageApply, CompareSource,
         RejectApply, ReplaceSource, RecordApply, ExternalEditSome, ExternalEdit
  <2> QED
    BY <2>1, <2>2
<1> QED
  BY <1>1, <1>2, <1>3, <1>4, <1>5 DEF TypeOK, CursorSplitsQueue, Splits, LedgerTyped

-----------------------------------------------------------------------------
(* Every step leaves the running handler and the queue in agreement. *)

(* The handler that runs works on the current patch, which is pending and  *)
(* not stale, and an application that compared the file has what it read.  *)
LEMMA HandlerStep ==
  ASSUME TypeOK, CursorSplitsQueue, HandlerInv, [Next]_vars
  PROVE  HandlerInv'
<1>1. CASE BeginAudit
  BY <1>1 DEF BeginAudit, HandlerInv, IdleWorkspace
<1>2. CASE ProposeSome
  <2>1. /\ phase = "audit" /\ phase' = "audit" /\ workspace' = workspace /\ scanned' = scanned
    BY <1>2 DEF ProposeSome, Propose
  <2>2. \A path : Targets(path)' = Targets(path)
    BY <2>1 DEF Targets
  <2>3. draft' # NoDraft => /\ draft'.error = "none"
                           /\ draft'.target \in Targets(draft'.path) \cup {NoTarget}
    BY <1>2, ProposeResult
  <2> QED
    BY <2>1, <2>2, <2>3 DEF HandlerInv, Targets
<1>3. CASE CommitProposal
  <2>1. draft \in DraftType /\ workspace.cursor = 1 /\ Splits(workspace)
    BY <1>3, QueueFacts DEF CommitProposal, TypeOK, HandlerInv
  <2>2. workspace'.cursor = 1
    BY <1>3, <2>1, AddPatchResult DEF CommitProposal
  <2> QED
    BY <1>3, <2>2 DEF CommitProposal, HandlerInv
<1>4. CASE BeginRevise
  BY <1>4 DEF BeginRevise, HandlerInv, HasPendingPatch, IsPending, CurrentPatch
<1>5. CASE ReviseSome
  <2>1. phase = "revise" /\ phase' = "revise" /\ workspace' = workspace
    BY <1>5 DEF ReviseSome, Revise
  <2>2. draft'.error = "none"
    BY <1>5, ReviseResult
  <2> QED
    BY <2>1, <2>2 DEF HandlerInv
<1>6. CASE StageApply
  <2> DEFINE current == CurrentPatch(workspace).draft
  <2>1. /\ phase' = "apply" /\ workspace' = workspace /\ HasPendingPatch(workspace)
        /\ draft = NoDraft /\ draft' = NoDraft
        /\ current.error # "STALE_DRAFT"
        /\ ApplyChecks(source[current.path], current)
        /\ apply' = [step |-> "staged", draft |-> current, read |-> source[current.path],
                     raced |-> FALSE]
    BY <1>6 DEF StageApply, HandlerInv
  <2>2. apply'.draft = current /\ apply'.read = source[current.path] /\ apply'.step = "staged"
    BY <2>1
  <2> QED
    BY <2>1, <2>2 DEF HandlerInv
<1>7. CASE CompareSource
  <2>1. /\ phase = "apply" /\ phase' = "apply" /\ UNCHANGED <<source, workspace, draft>>
        /\ source[apply.draft.path] = apply.read
        /\ apply' = [apply EXCEPT !.step = "compared"] /\ apply \in ApplyType
    BY <1>7 DEF CompareSource, TypeOK
  <2>2. apply'.draft = apply.draft /\ apply'.read = apply.read
    BY <2>1 DEF ApplyType
  <2> QED
    BY <2>1, <2>2 DEF HandlerInv
<1>8. CASE ReplaceSource
  <2>1. /\ phase = "apply" /\ phase' = "apply" /\ UNCHANGED <<workspace, draft>>
        /\ apply' = [apply EXCEPT !.step = "replaced"] /\ apply \in ApplyType
    BY <1>8 DEF ReplaceSource, TypeOK
  <2>2. apply'.draft = apply.draft /\ apply'.read = apply.read /\ apply'.step = "replaced"
    BY <2>1 DEF ApplyType
  <2> QED
    BY <2>1, <2>2 DEF HandlerInv
<1>9. CASE ExternalEditSome
  <2>1. PICK path \in Path, file \in EditedFile : ExternalEdit(path, file)
    BY <1>9 DEF ExternalEditSome
  <2>2. UNCHANGED <<scanned, workspace, phase, draft>>
    BY <2>1 DEF ExternalEdit
  <2>3. phase = "apply" =>
          /\ apply'.draft = CurrentPatch(workspace).draft
          /\ ApplyChecks(apply'.read, apply'.draft)
          /\ apply'.step = "compared" /\ ~apply'.raced =>
                source'[apply'.draft.path] = apply'.read
    <3> SUFFICES ASSUME phase = "apply"
                 PROVE  /\ apply'.draft = CurrentPatch(workspace).draft
                        /\ ApplyChecks(apply'.read, apply'.draft)
                        /\ apply'.step = "compared" /\ ~apply'.raced =>
                              source'[apply'.draft.path] = apply'.read
      OBVIOUS
    <3>1. apply \in ApplyType /\ apply.draft \in DraftType /\ apply.draft.path \in Path
      BY DEF TypeOK, ApplyType, DraftType
    <3>2. CASE apply.step = "compared" /\ apply.draft.path = path
      <4>1. apply' = [apply EXCEPT !.raced = TRUE]
        BY <2>1, <3>2 DEF ExternalEdit
      <4>2. apply'.draft = apply.draft /\ apply'.read = apply.read /\ apply'.raced
        BY <3>1, <4>1 DEF ApplyType
      <4> QED
        BY <4>2 DEF HandlerInv
    <3>3. CASE ~(apply.step = "compared" /\ apply.draft.path = path)
      <4>1. apply' = apply /\ source' = [source EXCEPT ![path] = file]
        BY <2>1, <3>3 DEF ExternalEdit
      <4>2. apply.step = "compared" => source'[apply.draft.path] = source[apply.draft.path]
        BY <3>3, <4>1
      <4> QED
        BY <4>1, <4>2 DEF HandlerInv
    <3> QED
      BY <3>2, <3>3
  <2>4. \A p : Targets(p)' = Targets(p)
    BY <2>2 DEF Targets
  <2> QED
    BY <2>2, <2>3, <2>4 DEF HandlerInv, Targets
<1>10. CASE EndAudit \/ Discard \/ Abort \/ EndRevise \/ RejectApply \/ RecordApply \/ Interrupt
  <2>1. phase' = "prompt" /\ draft' = NoDraft
    BY <1>10 DEF EndAudit, Discard, Abort, EndRevise, RejectApply, RecordApply, Interrupt, HandlerInv
  <2> QED
    BY <2>1 DEF HandlerInv
<1>11. CASE UNCHANGED vars
  BY <1>11 DEF vars, HandlerInv, Targets
<1> QED
  BY <1>1, <1>2, <1>3, <1>4, <1>5, <1>6, <1>7, <1>8, <1>9, <1>10, <1>11 DEF Next

-----------------------------------------------------------------------------
(* Every step keeps the history of the items in agreement with the queue.  *)

(* Writes and revisions happen to the current patch only, so patches ahead *)
(* of the cursor, the only ones that can become stale, have none.          *)
LEMMA LedgerStep ==
  ASSUME TypeOK, CursorSplitsQueue, HandlerInv, LedgerInv, StaleNeverWritten, [Next]_vars
  PROVE  LedgerInv' /\ StaleNeverWritten'
<1> DEFINE n == Len(workspace.items)
           c == workspace.cursor
<1>1. /\ Splits(workspace) /\ n \in Nat /\ c \in Nat
      /\ ledger \in Seq(LedgerType) /\ Len(ledger) = n
      /\ workspace.items \in Seq(ItemType)
  BY QueueFacts, WorkspaceFields DEF TypeOK
<1>2. ASSUME NEW i \in 1..n PROVE ledger[i].writes \in Nat
  <2>1. ledger[i] \in LedgerType
    BY <1>1
  <2> QED
    BY <2>1 DEF LedgerType
<1>3. CASE workspace'.items = <<>>
  BY <1>3 DEF LedgerInv, StaleNeverWritten
<1>4. CASE /\ UNCHANGED <<workspace, ledger>>
           /\ touched \subseteq touched'
           /\ IsReplaced' <=> IsReplaced
  BY <1>4 DEF LedgerInv, StaleNeverWritten, IsStale
<1>5. CASE CommitProposal
  <2> DEFINE item  == [status |-> "pending", draft |-> draft]
             entry == [origin |-> draft.match_region, evidence |-> Evidence(draft),
                       writes |-> 0, revised |-> FALSE]
  <2>1. draft \in DraftType /\ c = 1 /\ draft.error = "none"
    BY <1>5 DEF CommitProposal, TypeOK, HandlerInv
  <2>2. /\ workspace'.cursor = 1 /\ workspace'.items = Append(workspace.items, item)
        /\ Len(workspace'.items) = n + 1 /\ ledger' = Append(ledger, entry)
        /\ touched' = touched /\ ~IsReplaced' /\ ~IsReplaced
    BY <1>1, <1>5, <2>1, AddPatchResult DEF CommitProposal, IsReplaced
  <2>3. item.status = "pending" /\ item.draft = draft
        /\ entry.writes = 0 /\ entry.revised = FALSE
    OBVIOUS
  <2> HIDE DEF item, entry
  <2>4. \A i \in 1..(n + 1) :
          /\ workspace'.items[i] = IF i <= n THEN workspace.items[i] ELSE item
          /\ ledger'[i] = IF i <= n THEN ledger[i] ELSE entry
    BY <1>1, <2>2
  <2>5. \A i \in 1..n : i \in 1..(n + 1)
    BY <1>1
  <2> QED
    BY <1>1, <2>1, <2>2, <2>3, <2>4, <2>5 DEF LedgerInv, StaleNeverWritten, IsStale
<1>6. CASE Discard
  <2>1. /\ workspace'.cursor = c + 1 /\ Len(workspace'.items) = n /\ c \in 1..n
        /\ \A i \in 1..n :
             workspace'.items[i] = IF i = c THEN [workspace.items[i] EXCEPT !.status = "discarded"]
                                   ELSE workspace.items[i]
        /\ UNCHANGED <<ledger, touched>> /\ ~IsReplaced' /\ ~IsReplaced
    BY <1>1, <1>6, MarkCurrentResult DEF Discard, IsReplaced, HasPendingPatch
  <2>2. ASSUME NEW i \in 1..n
        PROVE  /\ workspace'.items[i].draft = workspace.items[i].draft
               /\ workspace'.items[i].status = IF i = c THEN "discarded"
                                               ELSE workspace.items[i].status
    <3>1. workspace.items[i] \in ItemType
      BY <1>1
    <3>2. CASE i = c
      <4>1. workspace'.items[i] = [workspace.items[i] EXCEPT !.status = "discarded"]
        BY <2>1, <3>2
      <4> QED
        BY <3>1, <3>2, <4>1, ItemUpdate
    <3>3. CASE i # c
      BY <2>1, <3>3
    <3> QED
      BY <3>2, <3>3
  <2>3. workspace.items[c].status = "pending"
    BY <1>6, CurrentFacts DEF Discard, CurrentPatch
  <2> QED
    BY <1>1, <2>1, <2>2, <2>3, SMTT(60) DEF LedgerInv, StaleNeverWritten, IsStale
<1>7. CASE EndRevise /\ ReplaceAllowed(CurrentPatch(workspace).draft)
  <2>1. /\ draft \in DraftType /\ draft.error = "none" /\ HasPendingPatch(workspace)
        /\ draft.path = workspace.items[c].draft.path
    BY <1>7 DEF EndRevise, ReplaceAllowed, TypeOK, HandlerInv, CurrentPatch
  <2>2. /\ workspace'.cursor = c /\ Len(workspace'.items) = n /\ c \in 1..n
        /\ \A i \in 1..n :
             workspace'.items[i] = IF i = c THEN [workspace.items[i] EXCEPT !.draft = draft]
                                   ELSE workspace.items[i]
        /\ ledger' = [ledger EXCEPT ![c].revised = TRUE]
        /\ touched' = touched /\ ~IsReplaced' /\ ~IsReplaced
    <3>1. workspace' = ReplaceCurrentPatch(workspace, draft) /\ c \in 1..n
      BY <1>7, <2>1 DEF EndRevise, HasPendingPatch
    <3>2. /\ workspace'.cursor = c /\ Len(workspace'.items) = n
          /\ \A i \in 1..n :
               workspace'.items[i] = IF i = c THEN [workspace.items[i] EXCEPT !.draft = draft]
                                     ELSE workspace.items[i]
      BY <1>1, <2>1, <3>1, ReplaceCurrentResult
    <3>3. /\ ledger' = [ledger EXCEPT ![c].revised = TRUE]
          /\ touched' = touched /\ ~IsReplaced' /\ ~IsReplaced
      BY <1>7 DEF EndRevise, IsReplaced
    <3> QED
      BY <3>1, <3>2, <3>3
  <2>3. ASSUME NEW i \in 1..n
        PROVE  /\ workspace'.items[i].draft = IF i = c THEN draft ELSE workspace.items[i].draft
               /\ workspace'.items[i].status = workspace.items[i].status
               /\ ledger'[i].writes = ledger[i].writes
               /\ i # c => ledger'[i] = ledger[i]
    <3>1. workspace.items[i] \in ItemType /\ ledger[i] \in LedgerType
      BY <1>1
    <3>2. /\ ledger'[i].writes = ledger[i].writes
          /\ i # c => ledger'[i] = ledger[i]
      BY <1>1, <2>2, <3>1 DEF LedgerType
    <3>3. CASE i = c
      <4>1. workspace'.items[i] = [workspace.items[i] EXCEPT !.draft = draft]
        BY <2>2, <3>3
      <4>2. workspace'.items[i].draft = draft /\ workspace'.items[i].status = workspace.items[i].status
        BY <2>1, <3>1, <4>1 DEF ItemType
      <4> QED
        BY <3>2, <3>3, <4>2
    <3>4. CASE i # c
      BY <2>2, <3>2, <3>4
    <3> QED
      BY <3>3, <3>4
  <2>4. StaleNeverWritten'
    BY <2>1, <2>2, <2>3 DEF StaleNeverWritten, IsStale
  <2>5. LedgerInv'
    BY <2>1, <2>2, <2>3 DEF LedgerInv
  <2> QED
    BY <2>4, <2>5
<1>8. CASE ReplaceSource
  <2>1. /\ HasPendingPatch(workspace) /\ c \in 1..n /\ workspace.items[c].status = "pending"
        /\ workspace.items[c].draft.error # "STALE_DRAFT"
    BY <1>8, CurrentFacts DEF ReplaceSource, HandlerInv, CurrentPatch
  <2>2. /\ workspace' = workspace /\ touched' = touched /\ ~IsReplaced
        /\ ledger' = [ledger EXCEPT ![c].writes = @ + 1]
    BY <1>8 DEF ReplaceSource, IsReplaced
  <2>3. IsReplaced'
    <3>1. apply \in ApplyType /\ apply' = [apply EXCEPT !.step = "replaced"]
      BY <1>8 DEF ReplaceSource, TypeOK
    <3> QED
      BY <1>8, <3>1 DEF ReplaceSource, IsReplaced, ApplyType
  <2>4. ASSUME NEW i \in 1..n
        PROVE  /\ ledger'[i].writes = IF i = c THEN ledger[i].writes + 1 ELSE ledger[i].writes
               /\ i # c => ledger'[i] = ledger[i]
    <3>1. ledger[i] \in LedgerType
      BY <1>1
    <3> QED
      BY <1>1, <2>2, <3>1 DEF LedgerType
  <2> QED
    BY <1>1, <1>2, <2>1, <2>2, <2>3, <2>4 DEF LedgerInv, StaleNeverWritten, IsStale
<1>9. CASE RecordApply
  <2>1. /\ workspace'.cursor = c + 1 /\ Len(workspace'.items) = n /\ c \in 1..n
        /\ \A i \in 1..n :
             /\ workspace'.items[i].status = IF i = c THEN "applied" ELSE workspace.items[i].status
             /\ workspace'.items[i].draft.path = workspace.items[i].draft.path
             /\ i <= c => workspace'.items[i].draft = workspace.items[i].draft
    BY <1>9, RecordApplyResult
  <2>2. UNCHANGED <<ledger, touched>> /\ ~IsReplaced' /\ IsReplaced
    BY <1>9 DEF RecordApply, IsReplaced
  <2>3. workspace.items[c].draft.error # "STALE_DRAFT"
    BY <1>9 DEF RecordApply, HandlerInv, CurrentPatch
  <2>4. \A i \in 1..n : i > c => workspace.items[i].status = "pending"
    BY <1>1 DEF Splits, IsPending
  <2>5. StaleNeverWritten'
    <3> SUFFICES ASSUME NEW i \in 1..n, workspace'.items[i].draft.error = "STALE_DRAFT"
                 PROVE  /\ ledger[i].writes = 0 /\ ~ledger[i].revised
                        /\ workspace'.items[i].status # "applied"
      BY <2>1, <2>2 DEF StaleNeverWritten, IsStale
    <3>1. CASE i < c
      BY <2>1, <3>1, <1>1 DEF StaleNeverWritten, IsStale
    <3>2. CASE i = c
      BY <2>1, <2>3, <3>2
    <3>3. CASE i > c
      BY <1>1, <2>1, <2>4, <3>3 DEF LedgerInv
    <3> QED
      BY <1>1, <3>1, <3>2, <3>3
  <2>6. LedgerInv'
    BY <1>1, <2>1, <2>2, SMTT(60) DEF LedgerInv
  <2> QED
    BY <2>5, <2>6
<1>10. CASE Interrupt /\ IsReplaced
  <2>1. /\ UNCHANGED <<workspace, ledger>> /\ ~IsReplaced'
        /\ touched' = touched \cup {apply.draft.path}
        /\ apply.draft = workspace.items[c].draft
    BY <1>10 DEF Interrupt, IsReplaced, HandlerInv, CurrentPatch
  <2> QED
    BY <1>1, <1>10, <2>1 DEF LedgerInv, StaleNeverWritten, IsStale
<1>11. \/ workspace'.items = <<>>
       \/ /\ UNCHANGED <<workspace, ledger>>
          /\ touched \subseteq touched'
          /\ IsReplaced' <=> IsReplaced
       \/ CommitProposal \/ Discard
       \/ EndRevise /\ ReplaceAllowed(CurrentPatch(workspace).draft)
       \/ ReplaceSource \/ RecordApply
       \/ Interrupt /\ IsReplaced
  <2>1. CASE BeginAudit \/ EndAudit \/ Abort
    BY <2>1 DEF BeginAudit, EndAudit, Abort, IdleWorkspace, IsReplaced
  <2>2. CASE ProposeSome \/ BeginRevise \/ ReviseSome \/ RejectApply \/ UNCHANGED vars
    BY <2>2 DEF ProposeSome, Propose, BeginRevise, ReviseSome, Revise, RejectApply, vars, IsReplaced
  <2>3. CASE EndRevise /\ ~ReplaceAllowed(CurrentPatch(workspace).draft)
    BY <2>3 DEF EndRevise, IsReplaced
  <2>4. CASE StageApply
    <3>1. apply'.step = "staged" /\ phase # "apply"
      BY <2>4 DEF StageApply
    <3> QED
      BY <2>4, <3>1 DEF StageApply, IsReplaced
  <2>5. CASE CompareSource
    <3>1. apply'.step = "compared"
      BY <2>5 DEF CompareSource, TypeOK, ApplyType
    <3> QED
      BY <2>5, <3>1 DEF CompareSource, IsReplaced
  <2>6. CASE ExternalEditSome
    <3>1. /\ apply' = apply \/ (phase = "apply" /\ apply' = [apply EXCEPT !.raced = TRUE])
          /\ UNCHANGED <<workspace, ledger, phase>> /\ touched \subseteq touched'
      BY <2>6 DEF ExternalEditSome, ExternalEdit
    <3>2. phase = "apply" => apply'.step = apply.step
      BY <3>1 DEF TypeOK, ApplyType
    <3> QED
      BY <3>1, <3>2 DEF IsReplaced
  <2>7. CASE Interrupt /\ ~IsReplaced
    BY <2>7 DEF Interrupt, IsReplaced
  <2> QED
    BY <2>1, <2>2, <2>3, <2>4, <2>5, <2>6, <2>7 DEF Next
<1> QED
  BY <1>3, <1>4, <1>5, <1>6, <1>7, <1>8, <1>9, <1>10, <1>11

-----------------------------------------------------------------------------
(* Every step keeps pending patches and the session's draft applicable. *)

Disturbed(path) == path \in touched \/ (IsReplaced /\ apply.draft.path = path)

(* PendingDraftsApply, item by item. *)
LEMMA PendingItem ==
  PendingDraftsApply <=>
    \A i \in 1..Len(workspace.items) :
      /\ workspace.items[i].status = "pending"
      /\ workspace.items[i].draft.error # "STALE_DRAFT"
      /\ ~Disturbed(workspace.items[i].draft.path)
      => ApplyChecks(source[workspace.items[i].draft.path], workspace.items[i].draft)
BY DEF PendingDraftsApply, Bound, IsPending, IsStale, Undisturbed, Disturbed, IsReplaced

(* The session's draft fits the file as long as nobody else writes it.     *)
LEMMA DraftAppliesStep ==
  ASSUME TypeOK, HandlerInv, DraftApplies, [Next]_vars
  PROVE  DraftApplies'
<1>1. CASE draft' = NoDraft
  BY <1>1 DEF DraftApplies
<1>2. CASE ProposeSome
  BY <1>2, ProposeResult DEF DraftApplies, ProposeSome, Propose
<1>3. CASE ReviseSome
  BY <1>3, ReviseResult DEF DraftApplies, ReviseSome, Revise
<1>4. CASE ExternalEditSome
  <2>1. PICK path \in Path, file \in EditedFile : ExternalEdit(path, file)
    BY <1>4 DEF ExternalEditSome
  <2>2. /\ draft' = draft /\ touched' = touched \cup {path}
        /\ source' = [source EXCEPT ![path] = file] /\ source \in [Path -> File]
    BY <2>1 DEF ExternalEdit, TypeOK
  <2>3. \A p \in Path : p # path => source'[p] = source[p]
    BY <2>2
  <2>4. draft # NoDraft => draft.path \in Path
    BY DEF TypeOK, DraftType
  <2> QED
    BY <2>2, <2>3, <2>4 DEF DraftApplies
<1>5. CASE UNCHANGED <<draft, source, touched>>
  BY <1>5 DEF DraftApplies
<1>6. draft' = NoDraft \/ ProposeSome \/ ReviseSome \/ ExternalEditSome
      \/ UNCHANGED <<draft, source, touched>>
  BY DEF Next, vars, HandlerInv, BeginAudit, CommitProposal, EndAudit, Discard, Abort, BeginRevise,
         EndRevise, StageApply, CompareSource, RejectApply, ReplaceSource, RecordApply, Interrupt
<1> QED
  BY <1>1, <1>2, <1>3, <1>4, <1>5, <1>6

(* A pending patch fits its file: either the file did not change, or the   *)
(* application that changed it bound the patch again or marked it stale.   *)
LEMMA BindingStep ==
  ASSUME TypeOK, CursorSplitsQueue, HandlerInv, DraftApplies, PendingDraftsApply, [Next]_vars
  PROVE  PendingDraftsApply'
<1> DEFINE n == Len(workspace.items)
           c == workspace.cursor
           Applies(i) == ApplyChecks(source[workspace.items[i].draft.path], workspace.items[i].draft)
<1>1. /\ Splits(workspace) /\ n \in Nat /\ c \in Nat /\ workspace.items \in Seq(ItemType)
      /\ source \in [Path -> File]
  BY QueueFacts, WorkspaceFields DEF TypeOK
<1>2. ASSUME NEW i \in 1..n
      PROVE  /\ workspace.items[i] \in ItemType
             /\ workspace.items[i].draft.path \in Path
             /\ /\ workspace.items[i].status = "pending"
                /\ workspace.items[i].draft.error # "STALE_DRAFT"
                /\ ~Disturbed(workspace.items[i].draft.path)
                => Applies(i)
  <2>1. workspace.items[i] \in ItemType /\ workspace.items[i].draft \in DraftType
    <3>1. workspace.items[i] \in ItemType
      BY <1>1
    <3> QED
      BY <3>1, ItemUpdate
  <2> QED
    BY <2>1, PendingItem DEF DraftType
<1> SUFFICES ASSUME NEW i \in 1..Len(workspace'.items),
                    workspace'.items[i].status = "pending",
                    workspace'.items[i].draft.error # "STALE_DRAFT",
                    workspace'.items[i].draft.path \notin touched',
                    ~(IsReplaced' /\ apply'.draft.path = workspace'.items[i].draft.path)
             PROVE  ApplyChecks(source'[workspace'.items[i].draft.path], workspace'.items[i].draft)
  BY DEF PendingDraftsApply, Bound, IsPending, IsStale, Undisturbed, IsReplaced
<1> DEFINE path == workspace'.items[i].draft.path
<1>3. CASE workspace'.items = <<>>
  BY <1>3
<1>4. CASE UNCHANGED <<source, workspace>> /\ \A p : Disturbed(p) => Disturbed(p)'
  BY <1>2, <1>4 DEF Disturbed
<1>5. CASE CommitProposal
  <2> DEFINE item == [status |-> "pending", draft |-> draft]
  <2>1. /\ draft \in DraftType /\ c = 1 /\ draft # NoDraft
        /\ source' = source /\ touched' = touched /\ ~IsReplaced
    BY <1>5 DEF CommitProposal, TypeOK, HandlerInv, IsReplaced
  <2>2. workspace'.items = Append(workspace.items, item) /\ Len(workspace'.items) = n + 1
    BY <1>1, <1>5, <2>1, AddPatchResult DEF CommitProposal
  <2>3. item.draft = draft
    OBVIOUS
  <2> HIDE DEF item
  <2>4. workspace'.items[i] = IF i <= n THEN workspace.items[i] ELSE item
    BY <1>1, <2>2
  <2>5. CASE i <= n
    BY <1>1, <1>2, <2>1, <2>2, <2>4, <2>5 DEF Disturbed
  <2>6. CASE ~(i <= n)
    BY <2>1, <2>3, <2>4, <2>6 DEF Disturbed, DraftApplies
  <2> QED
    BY <2>5, <2>6
<1>6. CASE Discard
  <2>1. /\ Len(workspace'.items) = n /\ c \in 1..n
        /\ workspace'.items[i] = IF i = c THEN [workspace.items[i] EXCEPT !.status = "discarded"]
                                 ELSE workspace.items[i]
    BY <1>1, <1>6, MarkCurrentResult DEF Discard, HasPendingPatch
  <2>2. i # c
    <3> SUFFICES ASSUME i = c PROVE FALSE
      OBVIOUS
    <3>1. workspace'.items[i] = [workspace.items[i] EXCEPT !.status = "discarded"]
      BY <2>1
    <3> QED
      BY <1>2, <2>1, <3>1, ItemUpdate
  <2>3. UNCHANGED <<source, touched, phase, apply>>
    BY <1>6 DEF Discard
  <2> QED
    BY <1>2, <2>1, <2>2, <2>3 DEF Disturbed, IsReplaced
<1>7. CASE EndRevise /\ ReplaceAllowed(CurrentPatch(workspace).draft)
  <2>1. /\ draft \in DraftType /\ draft # NoDraft /\ HasPendingPatch(workspace)
        /\ workspace' = ReplaceCurrentPatch(workspace, draft) /\ c \in 1..n
        /\ UNCHANGED <<source, touched, apply>> /\ ~IsReplaced
    BY <1>7 DEF EndRevise, ReplaceAllowed, TypeOK, HandlerInv, HasPendingPatch, IsReplaced
  <2>2. /\ Len(workspace'.items) = n
        /\ workspace'.items[i] = IF i = c THEN [workspace.items[i] EXCEPT !.draft = draft]
                                 ELSE workspace.items[i]
    BY <1>1, <2>1, ReplaceCurrentResult
  <2>3. CASE i = c
    <3>1. workspace'.items[i] = [workspace.items[i] EXCEPT !.draft = draft]
      BY <2>2, <2>3
    <3>2. workspace'.items[i].draft = draft
      BY <1>2, <2>1, <2>2, <3>1 DEF ItemType
    <3> QED
      BY <2>1, <3>2 DEF Disturbed, DraftApplies
  <2>4. CASE i # c
    BY <1>2, <2>1, <2>2, <2>4 DEF Disturbed
  <2> QED
    BY <2>3, <2>4
<1>8. CASE ReplaceSource
  <2>1. /\ phase = "apply" /\ apply.step = "compared" /\ phase' = "apply" /\ ~IsReplaced
        /\ UNCHANGED <<workspace, touched>>
        /\ source' = [source EXCEPT ![apply.draft.path] = FinalBytes(apply.read, apply.draft)]
        /\ apply' = [apply EXCEPT !.step = "replaced"]
    BY <1>8 DEF ReplaceSource, IsReplaced
  <2>2. apply'.draft = apply.draft /\ apply'.step = "replaced"
    BY <2>1 DEF TypeOK, ApplyType
  <2>3. path # apply.draft.path /\ path \notin touched
    BY <2>1, <2>2 DEF Disturbed, IsReplaced
  <2>4. source'[path] = source[path]
    BY <1>1, <1>2, <2>1, <2>3
  <2> QED
    BY <1>2, <2>1, <2>3, <2>4 DEF Disturbed
<1>9. CASE RecordApply
  <2>1. /\ Splits(workspace') /\ workspace'.cursor = c + 1 /\ Len(workspace'.items) = n
        /\ workspace'.items[i].status = IF i = c THEN "applied" ELSE workspace.items[i].status
        /\ path = workspace.items[i].draft.path
        /\ path # apply.draft.path => workspace'.items[i].draft = workspace.items[i].draft
        /\ i > c /\ workspace.items[i].draft.path = apply.draft.path =>
             \/ workspace'.items[i].draft.error = "STALE_DRAFT"
             \/ ApplyChecks(source[apply.draft.path], workspace'.items[i].draft)
    BY <1>9, RecordApplyResult
  <2>2. i > c
    BY <1>1, <2>1 DEF Splits, IsPending
  <2>3. UNCHANGED <<source, touched>> /\ IsReplaced
    BY <1>9 DEF RecordApply, IsReplaced
  <2>4. CASE path = apply.draft.path
    BY <2>1, <2>2, <2>3, <2>4
  <2>5. CASE path # apply.draft.path
    BY <1>1, <1>2, <2>1, <2>2, <2>3, <2>5 DEF Disturbed
  <2> QED
    BY <2>4, <2>5
<1>10. CASE ExternalEditSome
  <2>1. PICK p \in Path, file \in EditedFile : ExternalEdit(p, file)
    BY <1>10 DEF ExternalEditSome
  <2>2. /\ UNCHANGED <<workspace, phase>> /\ touched' = touched \cup {p}
        /\ source' = [source EXCEPT ![p] = file]
        /\ apply' = apply \/ (phase = "apply" /\ apply' = [apply EXCEPT !.raced = TRUE])
    BY <2>1 DEF ExternalEdit
  <2>3. phase = "apply" => apply'.step = apply.step /\ apply'.draft = apply.draft
    BY <2>2 DEF TypeOK, ApplyType
  <2>4. ~Disturbed(path) /\ path # p
    BY <2>2, <2>3 DEF Disturbed, IsReplaced
  <2>5. source'[path] = source[path]
    BY <1>1, <1>2, <2>2, <2>4
  <2> QED
    BY <1>2, <2>2, <2>4, <2>5 DEF Disturbed
<1>11. \/ workspace'.items = <<>>
       \/ UNCHANGED <<source, workspace>> /\ \A p : Disturbed(p) => Disturbed(p)'
       \/ CommitProposal \/ Discard
       \/ EndRevise /\ ReplaceAllowed(CurrentPatch(workspace).draft)
       \/ ReplaceSource \/ RecordApply \/ ExternalEditSome
  <2>1. CASE BeginAudit \/ EndAudit \/ Abort
    BY <2>1 DEF BeginAudit, EndAudit, Abort, IdleWorkspace, Disturbed, IsReplaced
  <2>2. CASE ProposeSome \/ BeginRevise \/ ReviseSome \/ RejectApply \/ UNCHANGED vars
    BY <2>2 DEF ProposeSome, Propose, BeginRevise, ReviseSome, Revise, RejectApply, vars,
                Disturbed, IsReplaced
  <2>3. CASE EndRevise /\ ~ReplaceAllowed(CurrentPatch(workspace).draft)
    BY <2>3 DEF EndRevise, Disturbed, IsReplaced
  <2>4. CASE StageApply \/ CompareSource
    <3>1. ~IsReplaced /\ UNCHANGED <<source, workspace, touched>>
      BY <2>4 DEF StageApply, CompareSource, IsReplaced
    <3> QED
      BY <3>1 DEF Disturbed
  <2>5. CASE Interrupt
    BY <2>5 DEF Interrupt, Disturbed, IsReplaced
  <2> QED
    BY <2>1, <2>2, <2>3, <2>4, <2>5 DEF Next
<1> QED
  BY <1>3, <1>4, <1>5, <1>6, <1>7, <1>8, <1>9, <1>10, <1>11

-----------------------------------------------------------------------------
(* Every step keeps the targets of pending patches on their evidence. *)

(* While the agent proposes, only an edit changes a file, and is recorded. *)
LEMMA ScanStep ==
  ASSUME TypeOK, ScanInv, [Next]_vars
  PROVE  ScanInv'
<1>1. CASE phase' # "audit"
  BY <1>1 DEF ScanInv
<1>2. CASE BeginAudit
  BY <1>2 DEF BeginAudit, ScanInv
<1>3. CASE ExternalEditSome
  <2>1. PICK path \in Path, file \in EditedFile : ExternalEdit(path, file)
    BY <1>3 DEF ExternalEditSome
  <2>2. /\ phase' = phase /\ scanned' = scanned /\ touched' = touched \cup {path}
        /\ source' = [source EXCEPT ![path] = file] /\ source \in [Path -> File]
    BY <2>1 DEF ExternalEdit, TypeOK
  <2>3. \A p \in Path : p # path => source'[p] = source[p]
    BY <2>2
  <2> QED
    BY <2>2, <2>3 DEF ScanInv
<1>4. CASE UNCHANGED <<phase, source, scanned, touched>>
  BY <1>4 DEF ScanInv
<1>5. phase' # "audit" \/ BeginAudit \/ ExternalEditSome
      \/ UNCHANGED <<phase, source, scanned, touched>>
  BY DEF Next, vars, ProposeSome, Propose, CommitProposal, EndAudit, Discard, Abort, BeginRevise,
         ReviseSome, Revise, EndRevise, StageApply, CompareSource, RejectApply, ReplaceSource,
         RecordApply, Interrupt
<1> QED
  BY <1>1, <1>2, <1>3, <1>4, <1>5

(* TargetTracksEvidence, item by item. *)
LEMMA EvidenceItem ==
  TargetTracksEvidence <=>
    \A i \in 1..Len(workspace.items) :
      /\ workspace.items[i].status = "pending"
      /\ workspace.items[i].draft.error # "STALE_DRAFT"
      /\ ~Disturbed(workspace.items[i].draft.path)
      /\ workspace.items[i].draft.target # NoTarget
      => BytesAt(source[workspace.items[i].draft.path], workspace.items[i].draft.target)
           = ledger[i].evidence
BY DEF TargetTracksEvidence, Bound, IsPending, IsStale, Undisturbed, Disturbed, IsReplaced

(* A replacement that nobody raced finds in the file what it had read, and *)
(* with it the evidence of the patches it is about to move.                *)
LEMMA ReplacedStep ==
  ASSUME TypeOK, HandlerInv, ReplacedInv, TargetTracksEvidence, [Next]_vars
  PROVE  ReplacedInv'
<1>1. CASE phase' # "apply"
  BY <1>1 DEF ReplacedInv
<1>2. CASE StageApply
  <2>1. apply'.raced = FALSE /\ apply'.step = "staged"
    BY <1>2 DEF StageApply
  <2> QED
    BY <2>1 DEF ReplacedInv, IsReplaced
<1>3. CASE CompareSource
  <2>1. /\ phase = "apply" /\ apply \in ApplyType /\ touched' = touched
        /\ apply' = [apply EXCEPT !.step = "compared"]
    BY <1>3 DEF CompareSource, TypeOK
  <2>2. apply'.draft = apply.draft /\ apply'.raced = apply.raced /\ apply'.step = "compared"
    BY <2>1 DEF ApplyType
  <2> QED
    BY <2>1, <2>2 DEF ReplacedInv, IsReplaced
<1>4. CASE ReplaceSource
  <2> DEFINE path  == apply.draft.path
             bytes == FinalBytes(apply.read, apply.draft)
  <2>1. /\ phase = "apply" /\ apply.step = "compared" /\ apply \in ApplyType
        /\ UNCHANGED <<workspace, touched>> /\ ~IsReplaced
        /\ source \in [Path -> File] /\ source' = [source EXCEPT ![path] = bytes]
        /\ apply' = [apply EXCEPT !.step = "replaced"]
        /\ ledger' = [ledger EXCEPT ![workspace.cursor].writes = @ + 1]
    BY <1>4 DEF ReplaceSource, TypeOK, IsReplaced
  <2>2. /\ apply'.draft = apply.draft /\ apply'.raced = apply.raced /\ apply'.read = apply.read
        /\ path \in Path
    BY <2>1 DEF ApplyType, DraftType
  <2>3. source'[path] = bytes
    <3> HIDE DEF bytes, path
    <3> QED
      BY <2>1, <2>2
  <2>4. path \notin touched => source[path] = apply.read
    BY <2>1 DEF HandlerInv, ReplacedInv
  <2>5. \A i \in 1..Len(workspace.items) : ledger'[i].evidence = ledger[i].evidence
    BY <2>1 DEF TypeOK, LedgerType
  <2>6. ASSUME path \notin touched, NEW i \in 1..Len(workspace.items),
               workspace.items[i].status = "pending",
               workspace.items[i].draft.error # "STALE_DRAFT",
               workspace.items[i].draft.path = path,
               workspace.items[i].draft.target # NoTarget
        PROVE  BytesAt(apply.read, workspace.items[i].draft.target) = ledger[i].evidence
    <3>1. ~Disturbed(path)
      BY <2>1, <2>6 DEF Disturbed
    <3>2. BytesAt(source[path], workspace.items[i].draft.target) = ledger[i].evidence
      BY <2>6, <3>1, EvidenceItem
    <3> QED
      BY <2>4, <2>6, <3>2
  <2>7. ReplacedInv => (apply.raced => path \in touched)
    BY <2>1 DEF ReplacedInv
  <2> HIDE DEF bytes
  <2> QED
    BY <2>1, <2>2, <2>3, <2>5, <2>6, <2>7 DEF ReplacedInv, bytes
<1>5. CASE ExternalEditSome
  <2>1. PICK path \in Path, file \in EditedFile : ExternalEdit(path, file)
    BY <1>5 DEF ExternalEditSome
  <2>2. /\ UNCHANGED <<workspace, ledger, phase>> /\ touched' = touched \cup {path}
        /\ source' = [source EXCEPT ![path] = file] /\ source \in [Path -> File]
    BY <2>1 DEF ExternalEdit, TypeOK
  <2> SUFFICES ASSUME phase = "apply" PROVE ReplacedInv'
    BY <2>2 DEF ReplacedInv
  <2>3. apply \in ApplyType /\ apply.draft.path \in Path
    BY DEF TypeOK, ApplyType, DraftType
  <2>4. /\ apply'.draft = apply.draft /\ apply'.read = apply.read /\ apply'.step = apply.step
        /\ apply'.raced => apply.raced \/ apply.draft.path = path
    <3>1. CASE apply' = apply
      BY <3>1
    <3>2. CASE apply' # apply
      <4>1. apply' = [apply EXCEPT !.raced = TRUE] /\ apply.draft.path = path
        BY <2>1, <3>2 DEF ExternalEdit
      <4> QED
        BY <2>3, <4>1 DEF ApplyType
    <3> QED
      BY <3>1, <3>2
  <2>5. apply.draft.path # path => source'[apply.draft.path] = source[apply.draft.path]
    BY <2>2, <2>3
  <2> QED
    BY <2>2, <2>4, <2>5 DEF ReplacedInv, IsReplaced
<1>6. CASE UNCHANGED vars
  BY <1>6 DEF vars, ReplacedInv, IsReplaced
<1>7. phase' # "apply" \/ StageApply \/ CompareSource \/ ReplaceSource \/ ExternalEditSome
      \/ UNCHANGED vars
  BY DEF Next, BeginAudit, ProposeSome, Propose, CommitProposal, EndAudit, Discard, Abort,
         BeginRevise, ReviseSome, Revise, EndRevise, RejectApply, RecordApply, Interrupt
<1> QED
  BY <1>1, <1>2, <1>3, <1>4, <1>5, <1>6, <1>7

(* A target is on its evidence when the patch joins the queue, and every   *)
(* application that moves the bytes moves the target with them.            *)
LEMMA EvidenceStep ==
  ASSUME TypeOK, CursorSplitsQueue, HandlerInv, DraftApplies, ScanInv, ReplacedInv,
         TargetTracksEvidence, [Next]_vars
  PROVE  TargetTracksEvidence'
<1> DEFINE n == Len(workspace.items)
           c == workspace.cursor
           Tracks(i) == BytesAt(source[workspace.items[i].draft.path],
                                workspace.items[i].draft.target) = ledger[i].evidence
<1>1. /\ Splits(workspace) /\ n \in Nat /\ c \in Nat /\ workspace.items \in Seq(ItemType)
      /\ source \in [Path -> File] /\ ledger \in Seq(LedgerType) /\ Len(ledger) = n
  BY QueueFacts, WorkspaceFields DEF TypeOK
<1>2. ASSUME NEW i \in 1..n
      PROVE  /\ workspace.items[i] \in ItemType
             /\ workspace.items[i].draft \in DraftType
             /\ workspace.items[i].draft.path \in Path
             /\ /\ workspace.items[i].status = "pending"
                /\ workspace.items[i].draft.error # "STALE_DRAFT"
                /\ ~Disturbed(workspace.items[i].draft.path)
                /\ workspace.items[i].draft.target # NoTarget
                => Tracks(i)
  <2>1. workspace.items[i] \in ItemType /\ workspace.items[i].draft \in DraftType
    <3>1. workspace.items[i] \in ItemType
      BY <1>1
    <3> QED
      BY <3>1, ItemUpdate
  <2> QED
    BY <2>1, EvidenceItem DEF DraftType
<1> SUFFICES ASSUME NEW i \in 1..Len(workspace'.items),
                    workspace'.items[i].status = "pending",
                    workspace'.items[i].draft.error # "STALE_DRAFT",
                    workspace'.items[i].draft.path \notin touched',
                    ~(IsReplaced' /\ apply'.draft.path = workspace'.items[i].draft.path),
                    workspace'.items[i].draft.target # NoTarget
             PROVE  BytesAt(source'[workspace'.items[i].draft.path],
                            workspace'.items[i].draft.target) = ledger'[i].evidence
  BY DEF TargetTracksEvidence, Bound, IsPending, IsStale, Undisturbed, IsReplaced
<1> DEFINE path == workspace'.items[i].draft.path
<1>3. CASE workspace'.items = <<>>
  BY <1>3
<1>4. CASE UNCHANGED <<source, workspace, ledger>> /\ \A p : Disturbed(p) => Disturbed(p)'
  BY <1>2, <1>4 DEF Disturbed
<1>5. CASE CommitProposal
  <2> DEFINE item  == [status |-> "pending", draft |-> draft]
             entry == [origin |-> draft.match_region, evidence |-> Evidence(draft),
                       writes |-> 0, revised |-> FALSE]
  <2>1. /\ draft \in DraftType /\ c = 1 /\ draft # NoDraft /\ phase = "audit"
        /\ source' = source /\ touched' = touched /\ ~IsReplaced
        /\ ledger' = Append(ledger, entry)
    BY <1>5 DEF CommitProposal, TypeOK, HandlerInv, IsReplaced
  <2>2. workspace'.items = Append(workspace.items, item) /\ Len(workspace'.items) = n + 1
    BY <1>1, <1>5, <2>1, AddPatchResult DEF CommitProposal
  <2>3. item.draft = draft /\ entry.evidence = Evidence(draft)
    OBVIOUS
  <2> HIDE DEF item, entry
  <2>4. /\ workspace'.items[i] = IF i <= n THEN workspace.items[i] ELSE item
        /\ ledger'[i] = IF i <= n THEN ledger[i] ELSE entry
    BY <1>1, <2>1, <2>2
  <2>5. CASE i <= n
    BY <1>1, <1>2, <2>1, <2>2, <2>4, <2>5 DEF Disturbed
  <2>6. CASE ~(i <= n)
    <3>1. /\ workspace'.items[i].draft = draft /\ ledger'[i].evidence = Evidence(draft)
          /\ draft.path \notin touched /\ draft.target # NoTarget /\ draft.path \in Path
      BY <2>1, <2>3, <2>4, <2>6 DEF DraftType
    <3>2. source[draft.path] = scanned[draft.path] /\ source[draft.path] # Unreadable
      BY <2>1, <3>1 DEF ScanInv, DraftApplies, ApplyChecks
    <3>3. Evidence(draft) = BytesAt(source[draft.path], draft.target)
      BY <3>1, <3>2 DEF Evidence
    <3> QED
      BY <2>1, <3>1, <3>3
  <2> QED
    BY <2>5, <2>6
<1>6. CASE Discard
  <2>1. /\ Len(workspace'.items) = n /\ c \in 1..n
        /\ workspace'.items[i] = IF i = c THEN [workspace.items[i] EXCEPT !.status = "discarded"]
                                 ELSE workspace.items[i]
    BY <1>1, <1>6, MarkCurrentResult DEF Discard, HasPendingPatch
  <2>2. i # c
    <3> SUFFICES ASSUME i = c PROVE FALSE
      OBVIOUS
    <3>1. workspace'.items[i] = [workspace.items[i] EXCEPT !.status = "discarded"]
      BY <2>1
    <3> QED
      BY <1>2, <2>1, <3>1, ItemUpdate
  <2>3. UNCHANGED <<source, touched, phase, apply, ledger>>
    BY <1>6 DEF Discard
  <2> QED
    BY <1>2, <2>1, <2>2, <2>3 DEF Disturbed, IsReplaced
<1>7. CASE EndRevise /\ ReplaceAllowed(CurrentPatch(workspace).draft)
  <2>1. /\ draft \in DraftType /\ HasPendingPatch(workspace)
        /\ workspace' = ReplaceCurrentPatch(workspace, draft) /\ c \in 1..n
        /\ workspace.items[c].status = "pending"
        /\ workspace.items[c].draft.error # "STALE_DRAFT"
        /\ draft.path = workspace.items[c].draft.path
        /\ draft.target = workspace.items[c].draft.target
        /\ ledger' = [ledger EXCEPT ![c].revised = TRUE]
        /\ UNCHANGED <<source, touched, apply>> /\ ~IsReplaced
    BY <1>7 DEF EndRevise, ReplaceAllowed, TypeOK, HandlerInv, HasPendingPatch, IsReplaced,
                CurrentPatch, IsPending
  <2>2. /\ Len(workspace'.items) = n
        /\ workspace'.items[i] = IF i = c THEN [workspace.items[i] EXCEPT !.draft = draft]
                                 ELSE workspace.items[i]
    BY <1>1, <2>1, ReplaceCurrentResult
  <2>3. ledger'[i].evidence = ledger[i].evidence
    BY <1>1, <2>1, <2>2 DEF LedgerType
  <2>4. CASE i = c
    <3>1. workspace'.items[i] = [workspace.items[i] EXCEPT !.draft = draft]
      BY <2>2, <2>4
    <3>2. workspace'.items[i].draft = draft
      BY <1>2, <2>1, <2>2, <3>1 DEF ItemType
    <3>3. i \in 1..n /\ ~Disturbed(workspace.items[i].draft.path)
      BY <2>1, <2>4, <3>2 DEF Disturbed
    <3> QED
      BY <1>2, <2>1, <2>3, <2>4, <3>2, <3>3
  <2>5. CASE i # c
    BY <1>2, <2>1, <2>2, <2>3, <2>5 DEF Disturbed
  <2> QED
    BY <2>4, <2>5
<1>8. CASE ReplaceSource
  <2>1. /\ phase = "apply" /\ apply.step = "compared" /\ phase' = "apply" /\ ~IsReplaced
        /\ UNCHANGED <<workspace, touched>>
        /\ source' = [source EXCEPT ![apply.draft.path] = FinalBytes(apply.read, apply.draft)]
        /\ apply' = [apply EXCEPT !.step = "replaced"]
        /\ ledger' = [ledger EXCEPT ![c].writes = @ + 1]
    BY <1>8 DEF ReplaceSource, IsReplaced
  <2>2. apply'.draft = apply.draft /\ apply'.step = "replaced"
    BY <2>1 DEF TypeOK, ApplyType
  <2>3. path # apply.draft.path /\ path \notin touched
    BY <2>1, <2>2 DEF Disturbed, IsReplaced
  <2>4. source'[path] = source[path]
    BY <1>1, <1>2, <2>1, <2>3
  <2>5. ledger'[i].evidence = ledger[i].evidence
    BY <1>1, <2>1 DEF LedgerType
  <2> QED
    BY <1>2, <2>1, <2>3, <2>4, <2>5 DEF Disturbed
<1>9. CASE RecordApply
  <2>1. /\ Splits(workspace') /\ workspace'.cursor = c + 1 /\ Len(workspace'.items) = n
        /\ workspace'.items[i].status = IF i = c THEN "applied" ELSE workspace.items[i].status
        /\ path = workspace.items[i].draft.path
        /\ path # apply.draft.path => workspace'.items[i].draft = workspace.items[i].draft
        /\ i > c /\ workspace.items[i].draft.path = apply.draft.path =>
             \/ workspace'.items[i].draft.error = "STALE_DRAFT"
             \/ workspace'.items[i].draft
                  = RebaseDraft(source[apply.draft.path], workspace.items[i].draft,
                                apply.draft.match_region, ChangedRegion(apply.read, apply.draft))
    BY <1>9, RecordApplyResult
  <2>2. i > c /\ workspace.items[i].status = "pending"
    BY <1>1, <2>1, SMTT(30) DEF Splits, IsPending
  <2>3. /\ UNCHANGED <<source, touched, ledger>> /\ IsReplaced /\ phase = "apply"
        /\ apply.draft \in DraftType /\ apply.read \in Seq(Byte)
        /\ ApplyChecks(apply.read, apply.draft)
    BY <1>9 DEF RecordApply, IsReplaced, TypeOK, ApplyType, HandlerInv
  <2>4. CASE path = apply.draft.path
    <3> DEFINE old == workspace.items[i].draft
               new == workspace'.items[i].draft
    <3>1. source[path] = FinalBytes(apply.read, apply.draft)
      BY <2>1, <2>3, <2>4 DEF ReplacedInv
    <3>2. /\ new = RebaseDraft(FinalBytes(apply.read, apply.draft), old,
                               apply.draft.match_region, ChangedRegion(apply.read, apply.draft))
          /\ old \in DraftType /\ new.error # "STALE_DRAFT" /\ new.target # NoTarget
      BY <1>2, <2>1, <2>2, <2>4, <3>1
    <3> HIDE DEF new
    <3>3. /\ old.error # "STALE_DRAFT" /\ old.target # NoTarget
          /\ BytesAt(FinalBytes(apply.read, apply.draft), new.target)
               = BytesAt(apply.read, old.target)
      BY <2>3, <3>2, RebaseKeepsEvidence
    <3>4. BytesAt(apply.read, old.target) = ledger[i].evidence
      BY <2>1, <2>2, <2>3, <2>4, <3>3 DEF ReplacedInv
    <3> QED
      BY <2>3, <3>1, <3>3, <3>4 DEF new
  <2>5. CASE path # apply.draft.path
    BY <1>1, <1>2, <2>1, <2>2, <2>3, <2>5 DEF Disturbed
  <2> QED
    BY <2>4, <2>5
<1>10. CASE ExternalEditSome
  <2>1. PICK p \in Path, file \in EditedFile : ExternalEdit(p, file)
    BY <1>10 DEF ExternalEditSome
  <2>2. /\ UNCHANGED <<workspace, phase, ledger>> /\ touched' = touched \cup {p}
        /\ source' = [source EXCEPT ![p] = file]
        /\ apply' = apply \/ (phase = "apply" /\ apply' = [apply EXCEPT !.raced = TRUE])
    BY <2>1 DEF ExternalEdit
  <2>3. phase = "apply" => apply'.step = apply.step /\ apply'.draft = apply.draft
    BY <2>2 DEF TypeOK, ApplyType
  <2>4. ~Disturbed(path) /\ path # p
    BY <2>2, <2>3 DEF Disturbed, IsReplaced
  <2>5. source'[path] = source[path]
    BY <1>1, <1>2, <2>2, <2>4
  <2> QED
    BY <1>2, <2>2, <2>4, <2>5 DEF Disturbed
<1>11. \/ workspace'.items = <<>>
       \/ UNCHANGED <<source, workspace, ledger>> /\ \A p : Disturbed(p) => Disturbed(p)'
       \/ CommitProposal \/ Discard
       \/ EndRevise /\ ReplaceAllowed(CurrentPatch(workspace).draft)
       \/ ReplaceSource \/ RecordApply \/ ExternalEditSome
  <2>1. CASE BeginAudit \/ EndAudit \/ Abort
    BY <2>1 DEF BeginAudit, EndAudit, Abort, IdleWorkspace, Disturbed, IsReplaced
  <2>2. CASE ProposeSome \/ BeginRevise \/ ReviseSome \/ RejectApply \/ UNCHANGED vars
    BY <2>2 DEF ProposeSome, Propose, BeginRevise, ReviseSome, Revise, RejectApply, vars,
                Disturbed, IsReplaced
  <2>3. CASE EndRevise /\ ~ReplaceAllowed(CurrentPatch(workspace).draft)
    BY <2>3 DEF EndRevise, Disturbed, IsReplaced
  <2>4. CASE StageApply \/ CompareSource
    <3>1. ~IsReplaced /\ UNCHANGED <<source, workspace, ledger, touched>>
      BY <2>4 DEF StageApply, CompareSource, IsReplaced
    <3> QED
      BY <3>1 DEF Disturbed
  <2>5. CASE Interrupt
    BY <2>5 DEF Interrupt, Disturbed, IsReplaced
  <2> QED
    BY <2>1, <2>2, <2>3, <2>4, <2>5 DEF Next
<1> QED
  BY <1>3, <1>4, <1>5, <1>6, <1>7, <1>8, <1>9, <1>10, <1>11

-----------------------------------------------------------------------------
(* Sequences laid out piece by piece. *)

(* Later pieces end later. *)
LEMMA PlacesMonotone ==
  ASSUME NEW S, NEW now, NEW pieces, NEW at, LaidOut(S, now, pieces, at),
         NEW j \in 0..Len(pieces), NEW k \in 0..Len(pieces), j <= k
  PROVE  at[j] <= at[k]
<1> DEFINE n == Len(pieces)
           Good == {m \in Nat : j + m <= n => at[j] <= at[j + m]}
<1>1. n \in Nat /\ \A i \in 0..n : at[i] \in Nat
  <2>1. at \in [0..n -> Nat]
    BY DEF LaidOut
  <2> QED
    BY <2>1
<1>2. 0 \in Good
  <2>1. j + 0 = j /\ at[j] \in Nat
    BY <1>1
  <2> QED
    BY <2>1
<1>3. ASSUME NEW m \in Nat, m \in Good PROVE m + 1 \in Good
  <2> SUFFICES ASSUME j + (m + 1) <= n PROVE at[j] <= at[j + (m + 1)]
    OBVIOUS
  <2>1. j + m \in 0..n /\ j + (m + 1) \in 1..n /\ j + (m + 1) - 1 = j + m
    BY <1>1
  <2>2. at[j + (m + 1)] = at[j + m] + Len(pieces[j + (m + 1)])
    BY <2>1 DEF LaidOut
  <2>3. Len(pieces[j + (m + 1)]) \in Nat
    BY <2>1
  <2>4. at[j] <= at[j + m]
    BY <1>3, <2>1
  <2> QED
    BY <1>1, <2>1, <2>2, <2>3, <2>4
<1>4. k - j \in Good
  <2> HIDE DEF Good
  <2>1. Nat \subseteq Good
    BY <1>2, <1>3, InductiveSet
  <2> QED
    BY <2>1
<1>5. j + (k - j) = k
  BY <1>1
<1> QED
  BY <1>1, <1>4, <1>5

(* Pieces of one element end one after the other. *)
LEMMA PlacesOfElements ==
  ASSUME NEW S, NEW now, NEW pieces, NEW at, LaidOut(S, now, pieces, at),
         \A k \in 1..Len(pieces) : Len(pieces[k]) = 1
  PROVE  \A k \in 0..Len(pieces) : at[k] = k
<1> DEFINE n == Len(pieces)
           Good == {m \in Nat : m <= n => at[m] = m}
<1>1. n \in Nat
  BY DEF LaidOut
<1>2. 0 \in Good
  BY DEF LaidOut
<1>3. ASSUME NEW m \in Nat, m \in Good PROVE m + 1 \in Good
  <2> SUFFICES ASSUME m + 1 <= n PROVE at[m + 1] = m + 1
    OBVIOUS
  <2>1. m + 1 \in 1..n /\ m + 1 - 1 = m /\ m <= n
    BY <1>1
  <2>2. at[m + 1] = at[m] + Len(pieces[m + 1])
    BY <2>1 DEF LaidOut
  <2> QED
    BY <1>3, <2>1, <2>2
<1>4. Nat \subseteq Good
  <2> HIDE DEF Good
  <2> QED
    BY <1>2, <1>3, InductiveSet
<1> QED
  BY <1>4

(* A prefix of a sequence and what follows it. *)
LEMMA PrefixGrows ==
  ASSUME NEW S, NEW now \in Seq(S), NEW n \in Nat, NEW piece \in Seq(S), NEW m,
         m = n + Len(piece), m <= Len(now),
         \A j \in 1..Len(piece) : now[n + j] = piece[j]
  PROVE  /\ SubSeq(now, 1, m) = SubSeq(now, 1, n) \o piece
         /\ n = 0 => SubSeq(now, 1, m) = piece
<1> DEFINE a == SubSeq(now, 1, n)
           b == SubSeq(now, 1, m)
           c == a \o piece
<1>1. Len(piece) \in Nat /\ Len(now) \in Nat /\ n \in 0..Len(now) /\ m \in 0..Len(now)
  OBVIOUS
<1>2. /\ a \in Seq(S) /\ Len(a) = n /\ \A j \in 1..n : a[j] = now[j]
      /\ b \in Seq(S) /\ Len(b) = m /\ \A j \in 1..m : b[j] = now[j]
  BY <1>1, SubSeqType
<1>3. /\ c \in Seq(S) /\ Len(c) = m
      /\ \A j \in 1..n : c[j] = a[j]
      /\ \A j \in 1..Len(piece) : c[n + j] = piece[j]
  <2> HIDE DEF a
  <2> QED
    BY <1>2, ConcatParts
<1> HIDE DEF a, b, c
<1>4. ASSUME NEW j \in 1..m PROVE b[j] = c[j]
  <2>1. CASE j <= n
    BY <1>1, <1>2, <1>3, <2>1
  <2>2. CASE ~(j <= n)
    <3>1. j - n \in 1..Len(piece) /\ n + (j - n) = j
      BY <1>1, <2>2
    <3>2. now[n + (j - n)] = piece[j - n] /\ c[n + (j - n)] = piece[j - n]
      BY <1>3, <3>1
    <3> QED
      BY <1>2, <3>1, <3>2
  <2> QED
    BY <2>1, <2>2
<1>5. b = c
  BY <1>2, <1>3, <1>4, SeqEqual
<1>6. ASSUME n = 0 PROVE b = piece
  <2>1. \A j \in 1..m : b[j] = piece[j]
    BY <1>1, <1>2, <1>6
  <2> QED
    BY <1>1, <1>2, <1>6, <2>1, SeqEqual
<1> QED
  BY <1>5, <1>6 DEF a, b, c

(* The concatenation of the pieces is the sequence. *)
LEMMA PiecesInOrder ==
  ASSUME NEW S, NEW now, NEW pieces, NEW at, LaidOut(S, now, pieces, at), pieces # <<>>
  PROVE  SeqExt!FlattenSeq(pieces) = now
<1> DEFINE n == Len(pieces)
           body(f) == [i \in 1..n |-> IF i = 1 THEN pieces[i] ELSE f[i - 1] \o pieces[i]]
           flatten == CHOOSE f : f = body(f)
           prefix == [i \in 1..n |-> SubSeq(now, 1, at[i])]
<1>1. /\ n \in Nat \ {0} /\ Len(now) \in Nat /\ at[0] = 0 /\ at[n] = Len(now)
      /\ \A i \in 0..n : at[i] \in 0..Len(now)
  <2>1. n \in Nat \ {0} /\ Len(now) \in Nat
    BY DEF LaidOut
  <2>2. at[0] = 0 /\ at[n] = Len(now) /\ \A i \in 0..n : at[i] \in Nat
    <3>1. at[0] = 0 /\ at[n] = Len(now) /\ at \in [0..n -> Nat]
      BY DEF LaidOut
    <3> QED
      BY <3>1
  <2>3. ASSUME NEW i \in 0..n PROVE at[i] <= at[n]
    BY <2>1, PlacesMonotone
  <2> QED
    BY <2>1, <2>2, <2>3
<1>2. ASSUME NEW i \in 1..n
      PROVE  prefix[i] = IF i = 1 THEN pieces[i] ELSE prefix[i - 1] \o pieces[i]
  <2>1. /\ i - 1 \in 0..n /\ i \in 0..n /\ pieces[i] \in Seq(S)
        /\ at[i] = at[i - 1] + Len(pieces[i])
        /\ \A j \in 1..Len(pieces[i]) : now[at[i - 1] + j] = pieces[i][j]
    <3>1. i - 1 \in 0..n /\ i \in 0..n
      BY <1>1
    <3> QED
      BY <3>1 DEF LaidOut
  <2>2. now \in Seq(S)
    BY DEF LaidOut
  <2>3. at[i - 1] \in Nat /\ at[i] <= Len(now) /\ (i = 1 => at[i - 1] = 0)
    BY <1>1, <2>1
  <2>4. /\ SubSeq(now, 1, at[i]) = SubSeq(now, 1, at[i - 1]) \o pieces[i]
        /\ at[i - 1] = 0 => SubSeq(now, 1, at[i]) = pieces[i]
    <3> DEFINE a == at[i - 1]
               b == at[i]
               piece == pieces[i]
    <3>1. /\ a \in Nat /\ piece \in Seq(S) /\ b = a + Len(piece) /\ b <= Len(now)
          /\ \A j \in 1..Len(piece) : now[a + j] = piece[j]
      BY <2>1, <2>3
    <3> HIDE DEF a, b, piece
    <3>2. /\ SubSeq(now, 1, b) = SubSeq(now, 1, a) \o piece
          /\ a = 0 => SubSeq(now, 1, b) = piece
      BY <2>2, <3>1, PrefixGrows, SMTT(60)
    <3> QED
      BY <3>2 DEF a, b, piece
  <2>5. prefix[i] = SubSeq(now, 1, at[i])
    OBVIOUS
  <2>6. CASE i = 1
    BY <2>3, <2>4, <2>5, <2>6
  <2>7. CASE i # 1
    <3>1. i - 1 \in 1..n
      BY <1>1, <2>7
    <3>2. prefix[i - 1] = SubSeq(now, 1, at[i - 1])
      BY <3>1
    <3> HIDE DEF prefix
    <3> QED
      BY <2>4, <2>5, <2>7, <3>2
  <2> QED
    BY <2>6, <2>7
<1> HIDE DEF prefix
<1>3. prefix = body(prefix)
  <2>1. prefix = [i \in 1..n |-> prefix[i]]
    BY Zenon DEF prefix
  <2> QED
    BY <1>2, <2>1
<1>4. flatten = body(flatten)
  BY <1>3, Zenon
<1> HIDE DEF flatten
<1>5. ASSUME NEW i \in 1..n
      PROVE  flatten[i] = IF i = 1 THEN pieces[i] ELSE flatten[i - 1] \o pieces[i]
  BY <1>4
<1> DEFINE Same == {m \in Nat : m + 1 <= n => flatten[m + 1] = prefix[m + 1]}
<1>6. 0 \in Same
  <2>1. 1 \in 1..n /\ 0 + 1 = 1
    BY <1>1
  <2>2. flatten[1] = prefix[1]
    BY <1>2, <1>5, <2>1
  <2> QED
    BY <2>1, <2>2
<1>7. ASSUME NEW m \in Nat, m \in Same PROVE m + 1 \in Same
  <2> SUFFICES ASSUME m + 1 + 1 <= n PROVE flatten[m + 1 + 1] = prefix[m + 1 + 1]
    OBVIOUS
  <2> DEFINE k == m + 1 + 1
  <2>1. k \in 1..n /\ k # 1 /\ k - 1 = m + 1 /\ m + 1 <= n
    BY <1>1
  <2>2. flatten[k - 1] = prefix[k - 1]
    BY <1>7, <2>1
  <2> HIDE DEF k
  <2>3. flatten[k] = prefix[k]
    BY <1>2, <1>5, <2>1, <2>2
  <2> QED
    BY <2>3 DEF k
<1>8. flatten[n] = prefix[n]
  <2> HIDE DEF Same
  <2>1. Nat \subseteq Same
    BY <1>6, <1>7, InductiveSet
  <2>2. n - 1 \in Same /\ n - 1 + 1 = n
    BY <1>1, <2>1
  <2> QED
    BY <2>2 DEF Same
<1>9. prefix[n] = now
  <2>1. SubSeq(now, 1, Len(now)) = now
    <3>1. now \in Seq(S)
      BY DEF LaidOut
    <3> QED
      BY <1>1, <3>1, SubSeqType, SeqEqual
  <2> QED
    BY <1>1, <2>1 DEF prefix
<1>10. SeqExt!FlattenSeq(pieces) = flatten[n]
  BY <1>1 DEF SeqExt!FlattenSeq, flatten
<1> QED
  BY <1>8, <1>9, <1>10

(* Pieces from..to of a sequence give way to one. *)
Regrouped(pieces, from, to, piece) ==
  [k \in 1..Len(pieces) |->
     IF k = from THEN piece ELSE IF from < k /\ k <= to THEN <<>> ELSE pieces[k]]

(* Where they end when a piece of a length is what is left of s + 1..e. *)
Moved(n, at, s, e, length) ==
  [k \in 0..n |-> IF k <= s THEN at[k] ELSE IF k >= e THEN at[k] + (length - (at[e] - at[s]))
                  ELSE at[s] + length]

(* Of a sequence of numbered pieces, those of a range are replaced by one. *)
PiecesReplaced(S, now, pieces, at, s, e, piece, new) ==
  /\ LaidOut(S, now, pieces, at) /\ piece \in Seq(S) /\ new \in Seq(S)
  /\ s \in 0..Len(pieces) /\ e \in 0..Len(pieces) /\ s < e
  /\ Len(new) = Len(now) + Len(piece) - (at[e] - at[s])
  /\ \A i \in 1..at[s] : new[i] = now[i]
  /\ \A i \in 1..Len(piece) : new[at[s] + i] = piece[i]
  /\ \A i \in (at[e] + 1)..Len(now) : new[i + Len(piece) - (at[e] - at[s])] = now[i]

(* Those before and after the range are laid out as they were, moved by as *)
(* much as it grew.                                                        *)
LEMMA ReplacedPieces ==
  ASSUME NEW S, NEW now, NEW pieces, NEW at, NEW s, NEW e, NEW piece, NEW new,
         PiecesReplaced(S, now, pieces, at, s, e, piece, new)
  PROVE  LaidOut(S, new, Regrouped(pieces, s + 1, e, piece),
                 Moved(Len(pieces), at, s, e, Len(piece)))
<1> DEFINE n == Len(pieces)
           g == Len(piece) - (at[e] - at[s])
           moved == Moved(Len(pieces), at, s, e, Len(piece))
           then == Regrouped(pieces, s + 1, e, piece)
<1>1. /\ n \in Nat /\ Len(now) \in Nat /\ Len(piece) \in Nat /\ Len(new) \in Nat
      /\ \A k \in 0..n : at[k] \in Nat
      /\ at[0] = 0 /\ at[n] = Len(now) /\ s \in 0..n /\ e \in 0..n /\ s < e
  <2>1. at \in [0..n -> Nat]
    BY DEF LaidOut, PiecesReplaced
  <2>2. at[0] = 0 /\ at[n] = Len(now)
    BY DEF LaidOut, PiecesReplaced
  <2>3. /\ n \in Nat /\ Len(now) \in Nat /\ Len(piece) \in Nat /\ Len(new) \in Nat
        /\ s \in 0..n /\ e \in 0..n /\ s < e
    BY DEF LaidOut, PiecesReplaced
  <2> HIDE DEF n
  <2> QED
    BY <2>1, <2>2, <2>3
<1>2. \A j, k \in 0..n : j <= k => at[j] <= at[k]
  BY PlacesMonotone DEF PiecesReplaced
<1>3. \A k \in 1..n : /\ pieces[k] \in Seq(S) /\ Len(pieces[k]) \in Nat
                      /\ at[k] = at[k - 1] + Len(pieces[k])
                      /\ \A j \in 1..Len(pieces[k]) : now[at[k - 1] + j] = pieces[k][j]
  BY DEF LaidOut, PiecesReplaced
<1>4. /\ Len(new) = Len(now) + g
      /\ \A i \in 1..at[s] : new[i] = now[i]
      /\ \A i \in 1..Len(piece) : new[at[s] + i] = piece[i]
      /\ \A i \in (at[e] + 1)..Len(now) : new[i + g] = now[i]
  <2>1. \A i \in (at[e] + 1)..Len(now) : i + Len(piece) - (at[e] - at[s]) = i + g
    BY <1>1
  <2> QED
    BY <1>1, <2>1 DEF PiecesReplaced
<1>5. g \in Int /\ at[s] + Len(piece) = at[e] + g /\ at[s] \in Nat /\ at[e] \in Nat
      /\ at[s] <= at[e]
  BY <1>1, <1>2
<1>6. \A k \in 0..n : moved[k] = IF k <= s THEN at[k] ELSE IF k >= e THEN at[k] + g
                                 ELSE at[s] + Len(piece)
  BY DEF Moved
<1>7. Len(then) = n /\ \A k \in 1..n :
        then[k] = IF k = s + 1 THEN piece ELSE IF s + 1 < k /\ k <= e THEN <<>> ELSE pieces[k]
  BY <1>1 DEF Regrouped
<1> HIDE DEF n, g
<1>8. moved \in [0..n -> Nat]
  <2>1. ASSUME NEW k \in 0..n PROVE moved[k] \in Nat
    <3> HIDE DEF moved
    <3>1. at[k] \in Nat /\ (k >= e => at[e] <= at[k])
      BY <1>1, <1>2
    <3>2. CASE k <= s
      BY <1>6, <3>1, <3>2
    <3>3. CASE k >= e
      <4>1. moved[k] = at[k] + g
        BY <1>1, <1>6, <3>3
      <4>2. at[k] + g >= at[s] + Len(piece)
        BY <1>5, <3>1, <3>3
      <4> QED
        BY <1>1, <1>5, <3>1, <4>1, <4>2, SMTT(60)
    <3>4. CASE ~(k <= s) /\ ~(k >= e)
      BY <1>1, <1>6, <1>5, <3>4, SMTT(60)
    <3> QED
      BY <3>2, <3>3, <3>4
  <2>2. moved = [k \in 0..n |-> moved[k]]
    BY DEF n, Moved
  <2> HIDE DEF moved
  <2> QED
    BY <2>1, <2>2
<1> HIDE DEF moved, then
<1>9. moved[0] = 0 /\ moved[n] = Len(new)
  <2>1. 0 \in 0..n /\ n \in 0..n /\ 0 <= s /\ ~(n <= s) /\ n >= e
    BY <1>1
  <2>2. moved[0] = at[0] /\ moved[n] = at[n] + g
    BY <1>6, <2>1
  <2> QED
    BY <1>1, <1>4, <2>2
<1>10. ASSUME NEW k \in 1..n
       PROVE  /\ moved[k] = moved[k - 1] + Len(then[k])
              /\ \A j \in 1..Len(then[k]) : new[moved[k - 1] + j] = then[k][j]
  <2> DEFINE p == pieces[k]
             b == at[k]
             a == at[k - 1]
  <2>1. /\ k - 1 \in 0..n /\ k \in 0..n /\ b \in Nat /\ a \in Nat /\ Len(p) \in Nat
        /\ b = a + Len(p) /\ \A j \in 1..Len(p) : now[a + j] = p[j]
        /\ k <= s => b <= at[s]
        /\ e < k => at[e] <= a
        /\ b <= Len(now)
    <3>1. k - 1 \in 0..n /\ k \in 0..n /\ n \in 0..n /\ (e < k => e <= k - 1)
      BY <1>1
    <3>2. b <= at[n] /\ (k <= s => b <= at[s]) /\ (e < k => at[e] <= a)
      BY <1>1, <1>2, <3>1
    <3> QED
      BY <1>1, <1>3, <3>1, <3>2
  <2>2. /\ moved[k] = IF k <= s THEN b ELSE IF k >= e THEN b + g ELSE at[s] + Len(piece)
        /\ moved[k - 1] = IF k - 1 <= s THEN a ELSE IF k - 1 >= e THEN a + g
                          ELSE at[s] + Len(piece)
        /\ then[k] = IF k = s + 1 THEN piece ELSE IF s + 1 < k /\ k <= e THEN <<>> ELSE p
    BY <1>6, <1>7, <2>1
  <2>3. k = s + 1 => a = at[s]
    BY <1>1
  <2>4. k = e => b = at[e]
    OBVIOUS
  <2> HIDE DEF p, a, b
  <2>5. CASE k <= s
    <3>1. then[k] = p /\ moved[k] = b /\ moved[k - 1] = a
      BY <1>1, <2>2, <2>5
    <3>2. \A j \in 1..Len(p) : a + j \in 1..at[s]
      BY <1>5, <2>1, <2>5
    <3>3. \A j \in 1..Len(p) : new[a + j] = p[j]
      BY <1>4, <2>1, <3>2
    <3> QED
      BY <2>1, <3>1, <3>3
  <2>6. CASE k = s + 1
    <3>1. then[k] = piece /\ moved[k - 1] = at[s] /\ moved[k] = at[s] + Len(piece)
      BY <1>1, <1>5, <2>2, <2>3, <2>4, <2>6
    <3> QED
      BY <1>4, <3>1
  <2>7. CASE s + 1 < k /\ k <= e
    <3>1. then[k] = <<>> /\ moved[k - 1] = at[s] + Len(piece)
      BY <1>1, <2>2, <2>7
    <3>2. moved[k] = at[s] + Len(piece)
      BY <1>1, <1>5, <2>2, <2>4, <2>7
    <3>3. Len(<<>>) = 0 /\ at[s] + Len(piece) = at[s] + Len(piece) + 0
      BY <1>1, <1>5
    <3>4. \A j \in 1..0 : FALSE
      OBVIOUS
    <3> QED
      BY <3>1, <3>2, <3>3, <3>4
  <2>8. CASE e < k
    <3>1. then[k] = p /\ moved[k] = b + g /\ moved[k - 1] = a + g
      BY <1>1, <2>2, <2>8
    <3>2. ASSUME NEW j \in 1..Len(p) PROVE new[a + g + j] = p[j]
      <4>1. /\ a \in Nat /\ Len(p) \in Nat /\ b = a + Len(p) /\ at[e] <= a /\ b <= Len(now)
            /\ at[e] \in Nat /\ Len(now) \in Nat
        BY <1>1, <1>5, <2>1, <2>8
      <4>2. a + j \in (at[e] + 1)..Len(now)
        BY <4>1
      <4>3. a + j + g = a + g + j
        BY <1>5, <2>1
      <4>4. new[a + j + g] = now[a + j]
        BY <1>4, <4>2
      <4> QED
        BY <2>1, <4>4, <4>3
    <3>3. b + g = a + g + Len(p)
      BY <1>5, <2>1
    <3> QED
      BY <3>1, <3>2, <3>3
  <2> QED
    BY <1>1, <2>5, <2>6, <2>7, <2>8
<1>11. LaidOut(S, new, then, moved)
  <2>1. moved \in [0..Len(then) -> Nat] /\ moved[0] = 0 /\ moved[Len(then)] = Len(new)
    BY <1>7, <1>8, <1>9
  <2>2. new \in Seq(S) /\ piece \in Seq(S)
    BY DEF PiecesReplaced
  <2>3. then \in Seq(Seq(S))
    <3>1. ASSUME NEW k \in 1..n PROVE then[k] \in Seq(S)
      <4>1. pieces[k] \in Seq(S) /\ <<>> \in Seq(S)
        BY <1>3
      <4> QED
        BY <1>7, <2>2, <4>1
    <3>2. then = [k \in 1..n |-> then[k]]
      BY DEF then, Regrouped, n
    <3> QED
      BY <1>1, <3>1, <3>2
  <2> QED
    BY <1>7, <1>10, <2>1, <2>2, <2>3 DEF LaidOut
<1> QED
  BY <1>11 DEF then, moved, n

-----------------------------------------------------------------------------
(* Where the patches of a file are. *)

(* What is drafted from a file that is not empty replaces something of it. *)
LEMMA MatchIsNotEmpty ==
  ASSUME NEW raw \in Seq(Byte), raw # <<>>, NEW old \in Seq(Byte), LocatesUnique(raw, old)
  PROVE  MatchRegion(raw, old).start_offset < MatchRegion(raw, old).end_offset
<1> DEFINE text   == Normalize(raw)
           string == Normalize(old)
           found  == Occurrences(text, string)
           start  == FirstOf(found)
           end    == start + Len(string)
<1>1. Len(text) = Characters(raw) /\ Len(text) \in Nat /\ Len(string) \in Nat
  BY NormalizeType
<1>2. found \subseteq Nat /\ found # {} /\ \A p \in found : p = start \/ p < end
  <2>1. found \subseteq Nat
    BY <1>1 DEF Occurrences
  <2>2. found # {} /\ \A p \in found : p = start \/ p < start + Len(string)
    BY Zenon DEF LocatesUnique, CountIsOne
  <2> QED
    BY <2>1, <2>2
<1>3. start \in found /\ \A p \in found : start <= p
  <2> HIDE DEF found
  <2> QED
    BY <1>2, FirstOfIsLeast
<1>4. Len(text) > 0
  <2>1. 1 \in UnitStarts(raw)
    BY DEF UnitStarts
  <2>2. UnitStarts(raw) \subseteq 1..Len(raw)
    BY DEF UnitStarts
  <2>3. IsFiniteSet(UnitStarts(raw)) /\ Cardinality(UnitStarts(raw)) \in Nat
    BY <2>2, PositionsCount
  <2>4. Cardinality(UnitStarts(raw)) # 0
    BY <2>1, <2>3, FS_EmptySet
  <2> QED
    BY <1>1, <2>3, <2>4 DEF Characters
<1> HIDE DEF start
<1>5. Len(string) > 0
  <2> SUFFICES ASSUME Len(string) = 0 PROVE FALSE
    BY <1>1
  <2>1. string = <<>>
    <3>1. string \in Seq(Byte)
      BY NormalizeType
    <3> HIDE DEF string
    <3> QED
      BY <3>1
  <2>2. \A p \in {0, 1} : SubSeq(text, p + 1, p + 0) = <<>>
    <3>1. text \in Seq(Byte)
      BY NormalizeType
    <3> HIDE DEF text
    <3> QED
      BY <3>1, SubSeqType
  <2>3. {0, 1} \subseteq found
    BY <1>1, <1>4, <2>1, <2>2 DEF Occurrences
  <2> QED
    BY <1>1, <1>2, <1>3, <2>3
<1>6. start \in 0..Characters(raw) /\ end \in 0..Characters(raw) /\ start < end
  <2>1. start \in 0..(Len(text) - Len(string))
    BY <1>3 DEF Occurrences
  <2> HIDE DEF text, string
  <2> QED
    BY <1>1, <1>5, <2>1
<1> DEFINE a == ByteOffset(raw, start)
           b == ByteOffset(raw, end)
<1>7. a \in Nat /\ b \in Nat /\ a <= b
  BY <1>6, OffsetRange, OffsetMonotone
<1>8. a # b
  <2>1. CharacterAt(raw, a) = start /\ CharacterAt(raw, b) = end
    BY <1>6, OffsetOfCharacter
  <2> QED
    BY <1>6, <2>1
<1>9. MatchRegion(raw, old) = Region(raw, a, b)
  BY DEF MatchRegion, RegionInOriginal, start
<1> HIDE DEF a, b
<1> QED
  BY <1>7, <1>8, <1>9 DEF Region

(* A draft that is bound again is before what was replaced, and stays, or  *)
(* behind it, and moves by as much as it grew.                             *)
LEMMA RebasedPlace ==
  ASSUME NEW raw \in Seq(Byte), NEW d \in DraftType, ApplyChecks(raw, d),
         NEW e \in DraftType, NEW r,
         r = RebaseDraft(FinalBytes(raw, d), e, d.match_region, ChangedRegion(raw, d)),
         r.error # "STALE_DRAFT"
  PROVE  LET from == d.match_region
             g == Len(Replacement(raw, d)) - (from.end_offset - from.start_offset)
         IN  /\ e.error # "STALE_DRAFT"
             /\ \/ /\ e.match_region.end_offset <= from.start_offset
                   /\ r.match_region.start_offset = e.match_region.start_offset
                   /\ r.match_region.end_offset = e.match_region.end_offset
                \/ /\ e.match_region.start_offset >= from.end_offset
                   /\ r.match_region.start_offset = e.match_region.start_offset + g
                   /\ r.match_region.end_offset = e.match_region.end_offset + g
<1> DEFINE from == d.match_region
           to == ChangedRegion(raw, d)
           new == FinalBytes(raw, d)
           at == e.match_region
           match == MatchRegion(new, e.old)
           target == RebasedTarget(new, e.target, from, to)
           g == Len(Replacement(raw, d)) - (from.end_offset - from.start_offset)
<1>1. CanRebase(new, e, from, to)
  <2> SUFFICES ASSUME ~CanRebase(new, e, from, to) PROVE FALSE
    OBVIOUS
  <2>1. r = [e EXCEPT !.error = "STALE_DRAFT"]
    BY DEF RebaseDraft
  <2> QED
    BY <2>1 DEF DraftType
<1>2. r = [e EXCEPT !.match_region = match, !.target = target]
  BY <1>1 DEF RebaseDraft
<1> HIDE DEF match, target
<1>3. r.match_region = match /\ r.error = e.error
  BY <1>2 DEF DraftType
<1>4. IsApart(at, from) /\ match = RebaseRegion(new, at, from, to)
  BY <1>1 DEF CanRebase, CanRebaseRegion, match
<1>5. /\ from.start_offset \in Nat /\ from.end_offset \in Nat
      /\ at.start_offset \in Nat /\ at.end_offset \in Nat
  BY DEF DraftType, RegionType
<1>6. ByteDelta(from, to) = g /\ g \in Int
  <2>1. d.old \in Seq(Byte) /\ d.new \in Seq(Byte)
    BY Constants DEF DraftType
  <2>2. /\ Replacement(raw, d) \in Seq(Byte)
        /\ to.start_offset = from.start_offset
        /\ to.end_offset = from.start_offset + Len(Replacement(raw, d))
    BY <2>1, ApplicationFacts
  <2>3. Len(Replacement(raw, d)) \in Nat
    BY <2>2
  <2> HIDE DEF from, to
  <2> QED
    BY <1>5, <2>2, <2>3 DEF ByteDelta, from
<1> DEFINE by == Shift(at, from, to)
<1>7. /\ match.start_offset = at.start_offset + by
      /\ match.end_offset = at.end_offset + by
  BY <1>4 DEF RebaseRegion, Region
<1>8. by = IF at.end_offset <= from.start_offset THEN 0 ELSE g
  BY <1>6 DEF Shift
<1>9. at.end_offset <= from.start_offset \/ at.start_offset >= from.end_offset
  BY <1>4 DEF IsApart
<1> HIDE DEF from, to, at, by, g, new
<1>10. \/ /\ at.end_offset <= from.start_offset
          /\ match.start_offset = at.start_offset /\ match.end_offset = at.end_offset
       \/ /\ at.start_offset >= from.end_offset
          /\ match.start_offset = at.start_offset + g /\ match.end_offset = at.end_offset + g
  BY <1>5, <1>7, <1>8, <1>9
<1> QED
  BY <1>3, <1>10 DEF from, at, g

(* A piece of a file depends on the applied patch that covers it.          *)
LEMMA SamePiece ==
  ASSUME NEW path, NEW k, NEW ending, NEW ending2, scanned'[path] = scanned[path],
         Covering(path, k)' = Covering(path, k),
         \A i \in Covering(path, k) : /\ ledger'[i].origin = ledger[i].origin
                                      /\ workspace'.items[i].draft.new = workspace.items[i].draft.new
                                      /\ ending2[i] = ending[i]
  PROVE  Piece(path, ending2, k)' = Piece(path, ending, k)
<1>1. CASE Covering(path, k) = {}
  BY <1>1 DEF Piece
<1>2. CASE Covering(path, k) # {}
  <2>1. PatchAt(path, k) \in Covering(path, k)
    BY <1>2 DEF PatchAt
  <2>2. PatchAt(path, k)' = PatchAt(path, k)
    BY DEF PatchAt
  <2> QED
    BY <1>2, <2>1, <2>2 DEF Piece
<1> QED
  BY <1>1, <1>2

(* Without an application the pieces of a file stay what they are.         *)
LEMMA SamePieces ==
  ASSUME NEW path, NEW ending, scanned'[path] = scanned[path],
         AppliedOn(path)' = AppliedOn(path),
         \A i \in AppliedOn(path) : /\ ledger'[i].origin = ledger[i].origin
                                    /\ workspace'.items[i].draft.new = workspace.items[i].draft.new
  PROVE  Pieces(path, ending)' = Pieces(path, ending)
<1>1. ASSUME NEW k PROVE Piece(path, ending, k)' = Piece(path, ending, k)
  <2>1. Covering(path, k)' = Covering(path, k) /\ Covering(path, k) \subseteq AppliedOn(path)
    BY DEF Covering
  <2> QED
    BY <2>1, SamePiece
<1> QED
  BY <1>1 DEF Pieces

(* A step that applies nothing to a file and opens nothing leaves its      *)
(* patches in their places.                                                *)
LEMMA PlacesKept ==
  ASSUME NEW path, Placed(path),
         scanned'[path] = scanned[path], RecordedFile(path)' = RecordedFile(path),
         AppliedOn(path)' = AppliedOn(path),
         Len(workspace'.items) = Len(workspace.items),
         \A i \in 1..Len(workspace.items) :
           /\ ledger'[i].origin = ledger[i].origin
           /\ workspace'.items[i].draft.path = workspace.items[i].draft.path
           /\ i \in AppliedOn(path) =>
                workspace'.items[i].draft.new = workspace.items[i].draft.new
           /\ workspace.items[i].draft.path = path /\ IsOpen(i)' =>
                /\ IsOpen(i)
                /\ workspace'.items[i].draft.match_region = workspace.items[i].draft.match_region
  PROVE  Placed(path)'
<1>1. PICK ending \in [AppliedOn(path) -> LineEnding], at \in [0..Len(scanned[path]) -> Nat] :
        /\ LaidOut(Byte, RecordedFile(path), Pieces(path, ending), at)
        /\ IsPlaced(path, at)
  BY DEF Placed
<1>2. \A i \in AppliedOn(path) : i \in 1..Len(workspace.items)
  BY DEF AppliedOn
<1>3. Pieces(path, ending)' = Pieces(path, ending)
  BY <1>2, SamePieces
<1>4. LaidOut(Byte, RecordedFile(path), Pieces(path, ending), at)'
  BY <1>1, <1>3 DEF LaidOut
<1>5. IsPlaced(path, at)'
  BY <1>1, <1>2, ZenonT(60) DEF IsPlaced
<1> QED
  BY <1>1, <1>4, <1>5 DEF Placed

(* A file nothing was applied to is laid out byte by byte.                 *)
LEMMA ByteByByte ==
  ASSUME NEW raw \in Seq(Byte), NEW pieces, pieces = [k \in 1..Len(raw) |-> <<raw[k]>>]
  PROVE  /\ \A k \in 1..Len(pieces) : Len(pieces[k]) = 1
         /\ Len(pieces) = Len(raw)
         /\ LaidOut(Byte, raw, pieces, [k \in 0..Len(raw) |-> k])
<1> DEFINE n == Len(raw)
           at == [k \in 0..n |-> k]
<1>1. n \in Nat
  OBVIOUS
<1>2. /\ \A k \in 1..n : <<raw[k]>> \in Seq(Byte) /\ Len(<<raw[k]>>) = 1 /\ <<raw[k]>>[1] = raw[k]
  BY <1>1
<1>3. pieces \in Seq(Seq(Byte)) /\ Len(pieces) = n /\ \A k \in 1..n : pieces[k] = <<raw[k]>>
  BY <1>1, <1>2
<1>4. at \in [0..n -> Nat] /\ \A k \in 0..n : at[k] = k
  BY <1>1
<1> HIDE DEF at, n
<1>5. ASSUME NEW k \in 1..n
      PROVE  /\ at[k] = at[k - 1] + Len(pieces[k])
             /\ \A j \in 1..Len(pieces[k]) : raw[at[k - 1] + j] = pieces[k][j]
  <2>1. k \in 0..n /\ k - 1 \in 0..n /\ k - 1 + 1 = k
    BY <1>1
  <2>2. at[k] = k /\ at[k - 1] = k - 1 /\ Len(pieces[k]) = 1 /\ pieces[k][1] = raw[k]
    BY <1>2, <1>3, <1>4, <2>1
  <2>3. \A j \in 1..1 : j = 1
    OBVIOUS
  <2> QED
    BY <2>1, <2>2, <2>3
<1>6. at[0] = 0 /\ at[n] = n
  BY <1>1, <1>4
<1>7. LaidOut(Byte, raw, pieces, at)
  BY <1>1, <1>3, <1>4, <1>5, <1>6 DEF LaidOut, n
<1>8. \A k \in 1..Len(pieces) : Len(pieces[k]) = 1
  BY <1>2, <1>3
<1> QED
  BY <1>3, <1>7, <1>8 DEF at, n

(* A file with a region of it replaced. *)
IsSpliced(raw, region, bytes, new) ==
  /\ raw \in Seq(Byte) /\ bytes \in Seq(Byte) /\ new = Splice(raw, region, bytes)
  /\ region.start_offset \in Nat /\ region.end_offset \in 0..Len(raw)
  /\ region.start_offset <= region.end_offset

(* Where its bytes come from. *)
LEMMA SplicedParts ==
  ASSUME NEW raw, NEW bytes, NEW region, NEW new, IsSpliced(raw, region, bytes, new)
  PROVE  /\ \A k \in 1..region.start_offset : new[k] = raw[k]
         /\ \A k \in 1..Len(bytes) : new[region.start_offset + k] = bytes[k]
         /\ \A k \in (region.end_offset + 1)..Len(raw) :
              new[k + (Len(bytes) - (region.end_offset - region.start_offset))] = raw[k]
BY SpliceParts, SMTT(60) DEF IsSpliced

(* An application replaces the pieces of its region by one.                *)
LEMMA AppliedPieces ==
  ASSUME NEW read \in Seq(Byte), NEW d \in DraftType, ApplyChecks(read, d),
         NEW pieces, NEW at, LaidOut(Byte, read, pieces, at), NEW n, n = Len(pieces),
         NEW s \in 0..n, NEW e \in 0..n, s < e,
         d.match_region.start_offset = at[s], d.match_region.end_offset = at[e],
         NEW bytes, bytes = Replacement(read, d), NEW g, g = Len(bytes) - (at[e] - at[s])
  PROVE  /\ g \in Int
         /\ LaidOut(Byte, FinalBytes(read, d), Regrouped(pieces, s + 1, e, bytes),
                    Moved(n, at, s, e, Len(bytes)))
<1> DEFINE region == d.match_region
           new == FinalBytes(read, d)
<1>1. d.old \in Seq(Byte) /\ d.new \in Seq(Byte)
  BY Constants DEF DraftType
<1>2. /\ region \in RegionType /\ region.start_offset <= region.end_offset
      /\ region.end_offset <= Len(read) /\ bytes \in Seq(Byte) /\ new \in Seq(Byte)
      /\ Len(new) = region.start_offset + Len(bytes) + (Len(read) - region.end_offset)
  BY <1>1, ApplicationFacts
<1>3. region.start_offset = at[s] /\ region.end_offset = at[e] /\ new = Splice(read, region, bytes)
  BY DEF FinalBytes
<1> HIDE DEF region, new
<1>4. /\ region.start_offset \in Nat /\ region.end_offset \in 0..Len(read)
      /\ Len(bytes) \in Nat /\ Len(read) \in Nat
  BY <1>2 DEF RegionType
<1> DEFINE by == Len(bytes) - (region.end_offset - region.start_offset)
<1>5. /\ \A k \in 1..region.start_offset : new[k] = read[k]
      /\ \A k \in 1..Len(bytes) : new[region.start_offset + k] = bytes[k]
      /\ \A k \in (region.end_offset + 1)..Len(read) : new[k + by] = read[k]
  <2>1. IsSpliced(read, region, bytes, new)
    BY <1>2, <1>3, <1>4 DEF IsSpliced
  <2> QED
    BY <2>1, SplicedParts
<1>6. \A k \in Int : k + by = k + Len(bytes) - (at[e] - at[s])
  BY <1>3, <1>4
<1>7. \A k \in (at[e] + 1)..Len(read) : new[k + Len(bytes) - (at[e] - at[s])] = read[k]
  <2>1. ASSUME NEW k \in (at[e] + 1)..Len(read)
        PROVE  new[k + Len(bytes) - (at[e] - at[s])] = read[k]
    <3>1. k \in Int /\ k \in (region.end_offset + 1)..Len(read)
      BY <1>3, <1>4
    <3>2. new[k + by] = read[k]
      BY <1>5, <3>1
    <3> QED
      BY <1>6, <3>1, <3>2
  <2> QED
    BY <2>1
<1>8. Len(new) = Len(read) + Len(bytes) - (at[e] - at[s]) /\ g \in Int
  <2> DEFINE a == at[s]
             b == at[e]
             r == Len(read)
             l == Len(bytes)
  <2>1. /\ a \in Nat /\ b \in Nat /\ l \in Nat /\ r \in Nat /\ g = l - (b - a)
        /\ Len(new) = a + l + (r - b)
    BY <1>2, <1>3, <1>4
  <2> HIDE DEF a, b, r, l
  <2>2. Len(new) = r + l - (b - a) /\ g \in Int
    BY <2>1, SMTT(60)
  <2> QED
    BY <2>2 DEF a, b, r, l
<1>9. PiecesReplaced(Byte, read, pieces, at, s, e, bytes, new)
  BY <1>2, <1>3, <1>5, <1>7, <1>8 DEF PiecesReplaced
<1>10. LaidOut(Byte, new, Regrouped(pieces, s + 1, e, bytes),
               Moved(Len(pieces), at, s, e, Len(bytes)))
  BY <1>9, ReplacedPieces
<1> QED
  BY <1>8, <1>10 DEF new

(* What is applied replaces the pieces of its region by one, and moves     *)
(* what is open of the same file.                                          *)
LEMMA AppliedPlaces ==
  ASSUME TypeOK, CursorSplitsQueue, HandlerInv, ReplacedInv, RecordApply,
         NEW path \in Path, path = apply.draft.path, Settled(path)', Placed(path)
  PROVE  Placed(path)'
<1> DEFINE n == Len(workspace.items)
           c == workspace.cursor
           raw == scanned[path]
           N == Len(raw)
           origin(i) == ledger[i].origin
           bytes == Replacement(apply.read, apply.draft)
<1>1. Splits(workspace) /\ n \in Nat
  BY QueueFacts, WorkspaceFields DEF Splits
<1>2. /\ c \in 1..n /\ Len(workspace'.items) = n /\ n \in Nat
      /\ \A i \in 1..n :
           /\ workspace'.items[i].status = IF i = c THEN "applied" ELSE workspace.items[i].status
           /\ workspace'.items[i].draft.path = workspace.items[i].draft.path
  BY <1>1, RecordApplyResult
<1>3. \A i \in 1..n : i <= c => workspace'.items[i].draft = workspace.items[i].draft
  BY <1>1, RecordApplyResult
<1>4. \A i \in 1..n :
        i > c /\ workspace.items[i].draft.path = path =>
          \/ workspace'.items[i].draft.error = "STALE_DRAFT"
          \/ workspace'.items[i].draft =
               RebaseDraft(source[path], workspace.items[i].draft, apply.draft.match_region,
                           ChangedRegion(apply.read, apply.draft))
  BY <1>1, RecordApplyResult
<1>5. /\ UNCHANGED <<source, scanned, ledger, touched>> /\ phase' = "prompt" /\ IsReplaced
      /\ apply.draft = workspace.items[c].draft /\ apply.draft \in DraftType
      /\ workspace.items[c].draft.error # "STALE_DRAFT" /\ workspace.items[c].status = "pending"
      /\ apply.read \in Seq(Byte) /\ ApplyChecks(apply.read, apply.draft)
  BY SMTT(60) DEF RecordApply, IsReplaced, HandlerInv, CurrentPatch, HasPendingPatch, IsPending, TypeOK,
         ApplyType
<1>6. source[path] = FinalBytes(apply.read, apply.draft) /\ path \notin touched
  BY <1>5, Zenon DEF Settled, ReplacedInv, RecordApply
<1>7. \A i \in 1..n : /\ workspace.items[i] \in ItemType
                      /\ workspace.items[i].draft \in DraftType
                      /\ workspace.items[i].status = "pending" => i >= c
  <2>1. Splits(workspace)
    BY QueueFacts
  <2>2. workspace.items \in Seq(ItemType)
    BY <2>1, WorkspaceFields DEF Splits
  <2>3. \A i \in 1..n : workspace.items[i] \in ItemType
    BY <2>2
  <2> QED
    BY <2>1, <2>3, ItemUpdate DEF Splits, IsPending
<1>8. /\ AppliedOn(path)' = AppliedOn(path) \cup {c} /\ c \notin AppliedOn(path)
      /\ AppliedOn(path) \subseteq 1..n
  BY <1>2, <1>5 DEF AppliedOn
<1>9. IsOpen(c) /\ workspace.items[c].draft.path = path
  BY <1>5, <1>8 DEF IsOpen, Settled
<1>10. PICK ending \in [AppliedOn(path) -> LineEnding], at \in [0..N -> Nat] :
         /\ LaidOut(Byte, RecordedFile(path), Pieces(path, ending), at)
         /\ IsPlaced(path, at)
  BY SMTT(60) DEF Placed
<1>11. RecordedFile(path) = apply.read
  BY <1>5 DEF RecordedFile
<1> DEFINE s == origin(c).start_offset
           e == origin(c).end_offset
           g == Len(bytes) - (at[e] - at[s])
           pieces == Pieces(path, ending)
<1>12. PICK moved : moved = Moved(N, at, s, e, Len(bytes))
  OBVIOUS
<1>13. PICK ending2 : ending2 = [i \in AppliedOn(path) \cup {c} |->
                                   IF i = c THEN DetectNewline(apply.read) ELSE ending[i]]
  BY Zenon
<1>14. raw \in Seq(Byte) /\ N \in Nat /\ Len(pieces) = N
  <2>1. raw \in File /\ raw # Unreadable
    BY <1>5, Zenon DEF TypeOK, Settled
  <2>2. raw \in Seq(Byte)
    BY <2>1 DEF File
  <2>3. N \in Nat
    BY <2>2
  <2> QED
    BY <2>2, <2>3 DEF Pieces
<1>15. \A i \in 1..n : origin(i).start_offset \in Nat /\ origin(i).end_offset \in Nat
  <2>1. \A i \in 1..n : ledger[i] \in LedgerType
    BY DEF TypeOK
  <2> QED
    BY <2>1 DEF LedgerType, RegionType
<1>16. /\ s \in 0..N /\ e \in 0..N /\ s < e
       /\ apply.draft.match_region.start_offset = at[s]
       /\ apply.draft.match_region.end_offset = at[e]
       /\ \A j \in AppliedOn(path) : IsApart(origin(c), origin(j))
  <2> DEFINE match == workspace.items[c].draft.match_region
  <2>1. /\ s < e /\ e <= N /\ match.start_offset = at[s] /\ match.end_offset = at[e]
        /\ \A j \in AppliedOn(path) \ {c} : IsApart(origin(c), origin(j))
    BY <1>2, <1>9, <1>10 DEF IsPlaced
  <2>2. s \in Nat /\ e \in Nat
    BY <1>2, <1>15, SMTT(60)
  <2>3. apply.draft.match_region = match
    BY <1>5, SMTT(60)
  <2> HIDE DEF s, e, match
  <2> QED
    BY <1>8, <1>14, <2>1, <2>2, <2>3
<1>17. g \in Int /\ LaidOut(Byte, source[path], Regrouped(pieces, s + 1, e, bytes), moved)
  <2>1. /\ LaidOut(Byte, apply.read, pieces, at) /\ N = Len(pieces)
        /\ bytes = Replacement(apply.read, apply.draft) /\ g = Len(bytes) - (at[e] - at[s])
    BY <1>10, <1>11, <1>14, SMTT(60)
  <2> HIDE DEF pieces, s, e, bytes, g, N
  <2>2. /\ g \in Int
        /\ LaidOut(Byte, FinalBytes(apply.read, apply.draft), Regrouped(pieces, s + 1, e, bytes),
                   Moved(N, at, s, e, Len(bytes)))
    BY <1>5, <1>16, <2>1, AppliedPieces, ZenonT(60)
  <2> QED
    BY <1>6, <1>12, <2>2 DEF bytes, g, s, e, N
<1>18. /\ ledger' = ledger /\ scanned'[path] = raw /\ c \in 1..n /\ c \in Int
       /\ \A i \in 1..n : i <= c => workspace'.items[i].draft = workspace.items[i].draft
  <2>1. ledger' = ledger /\ scanned'[path] = raw
    BY <1>5
  <2>2. c \in Int /\ c \in 1..n
    BY <1>2
  <2> HIDE DEF c, n, raw
  <2> QED
    BY <1>3, <2>1, <2>2
<1>19. RecordedFile(path)' = source[path]
  BY <1>5 DEF RecordedFile, IsReplaced
<1>20. ASSUME NEW k
       PROVE  /\ Covering(path, k)' = IF s < k /\ k <= e THEN Covering(path, k) \cup {c}
                                      ELSE Covering(path, k)
              /\ Covering(path, k) \subseteq AppliedOn(path)
  <2>1. ledger' = ledger
    BY <1>5
  <2> QED
    BY <1>8, <2>1, SMTT(60) DEF Covering
<1>21. ASSUME NEW k \in 1..N, s < k, k <= e PROVE Covering(path, k) = {}
  <2> SUFFICES ASSUME NEW j \in Covering(path, k) PROVE FALSE
    OBVIOUS
  <2>1. /\ j \in AppliedOn(path) /\ j \in 1..n
        /\ origin(j).start_offset < k /\ k <= origin(j).end_offset
    BY <1>8 DEF Covering
  <2>2. IsApart(origin(c), origin(j))
    BY <1>16, <2>1
  <2>3. origin(j).start_offset \in Nat /\ origin(j).end_offset \in Nat /\ k \in Nat
    BY <1>15, <2>1
  <2> HIDE DEF N
  <2>4. s \in Nat /\ e \in Nat
    BY <1>14, <1>16
  <2>5. e <= origin(j).start_offset \/ s >= origin(j).end_offset
    BY <2>2 DEF IsApart
  <2> HIDE DEF s, e, origin
  <2> QED
    BY <1>21, <2>1, <2>3, <2>4, <2>5
<1>22. ASSUME NEW k \in 1..N
       PROVE  Piece(path, ending2, k)' =
                IF k = s + 1 THEN bytes ELSE IF s + 1 < k /\ k <= e THEN <<>> ELSE pieces[k]
  <2>1. CASE s < k /\ k <= e
    <3>1. Covering(path, k)' = {c}
      BY <1>20, <1>21, <2>1
    <3>2. PatchAt(path, k)' = c
      BY <3>1 DEF PatchAt
    <3>3. ledger'[c] = ledger[c] /\ workspace'.items[c].draft = apply.draft
      <4> HIDE DEF n, c
      <4>1. c <= c
        BY <1>18
      <4>2. workspace'.items[c].draft = workspace.items[c].draft
        BY <1>18, <4>1
      <4> QED
        BY <1>5, <1>18, <4>2
    <3>4. ending2[c] = DetectNewline(apply.read)
      BY <1>13
    <3>5. bytes = RestoreNewlines(Normalize(workspace'.items[c].draft.new), ending2[c])
      BY <3>3, <3>4 DEF Replacement
    <3>6. Piece(path, ending2, k)' = IF k = s + 1 THEN bytes ELSE <<>>
      BY <3>1, <3>2, <3>3, <3>5 DEF Piece
    <3>7. s \in Nat /\ k \in Nat
      BY <1>14, <1>16
    <3> HIDE DEF s, e, bytes
    <3> QED
      BY <2>1, <3>6, <3>7
  <2>2. CASE ~(s < k /\ k <= e)
    <3>1. Covering(path, k)' = Covering(path, k) /\ Covering(path, k) \subseteq AppliedOn(path)
      BY <1>20, <2>2
    <3>2. \A i \in AppliedOn(path) :
            /\ ledger'[i] = ledger[i] /\ ending2[i] = ending[i]
            /\ workspace'.items[i].draft = workspace.items[i].draft
      <4>1. \A i \in AppliedOn(path) : i \in 1..n /\ i # c /\ workspace.items[i].status = "applied"
        BY <1>8 DEF AppliedOn
      <4>2. \A i \in AppliedOn(path) : i <= c
        <5>1. \A i \in 1..n : IsPending(workspace.items[i]) <=> i >= c
          BY QueueFacts DEF Splits
        <5> QED
          BY <1>18, <4>1, <5>1 DEF IsPending
      <4>3. \A i \in AppliedOn(path) : ending2[i] = ending[i]
        BY <1>13, <4>1
      <4> QED
        BY <1>18, <4>1, <4>2, <4>3
    <3>3. Piece(path, ending2, k)' = Piece(path, ending, k)
      BY <1>18, <3>1, <3>2, SamePiece
    <3>4. Piece(path, ending, k) = pieces[k]
      BY DEF Pieces
    <3>5. ~(k = s + 1) /\ ~(s + 1 < k /\ k <= e)
      <4>1. s \in Nat /\ k \in Nat /\ e \in Nat /\ s < e
        BY <1>14, <1>16
      <4> HIDE DEF s, e
      <4> QED
        BY <2>2, <4>1
    <3> QED
      BY <3>3, <3>4, <3>5
  <2> QED
    BY <2>1, <2>2
<1>23. Pieces(path, ending2)' = Regrouped(pieces, s + 1, e, bytes)
  <2>1. scanned'[path] = raw
    BY <1>5
  <2>2. Pieces(path, ending2)' = [k \in 1..N |-> Piece(path, ending2, k)']
    BY <2>1 DEF Pieces
  <2> HIDE DEF pieces, bytes, s, e
  <2> QED
    BY <1>14, <1>22, <2>2, SMTT(60) DEF Regrouped
<1>24. at[s + 1] = at[s] + 1 /\ at[e] = at[e - 1] + 1 /\ s + 1 \in 1..N /\ e - 1 \in 0..N
  <2>1. s + 1 \in 1..N /\ e \in 1..N /\ e - 1 \in 0..N /\ s + 1 <= e /\ s < s + 1
        /\ s < e /\ e <= e /\ s \in Nat /\ e \in Nat
    <3> HIDE DEF s, e, N
    <3> QED
      BY <1>14, <1>16, SMTT(60)
  <2>2. ASSUME NEW k \in 1..N, s < k, k <= e PROVE at[k] = at[k - 1] + 1
    <3>1. pieces[k] = <<raw[k]>>
      BY <1>21, <2>2 DEF Pieces, Piece
    <3>2. Len(pieces[k]) = 1
      BY <3>1
    <3>3. at[k] = at[k - 1] + Len(pieces[k])
      BY <1>10, <1>14 DEF LaidOut
    <3> QED
      BY <3>2, <3>3
  <2> HIDE DEF s, e, N
  <2>3. at[e] = at[e - 1] + 1
    BY <2>1, <2>2
  <2> DEFINE k == s + 1
  <2>4. k \in 1..N /\ s < k /\ k <= e /\ k - 1 = s
    BY <2>1
  <2> HIDE DEF k
  <2>5. at[k] = at[k - 1] + 1
    BY <2>2, <2>4
  <2> QED
    BY <2>1, <2>3, <2>4, <2>5 DEF k
<1>25. /\ \A k \in 0..N : at[k] \in Nat
       /\ \A j, k \in 0..N : j <= k => at[j] <= at[k]
  BY <1>10, <1>14, PlacesMonotone
<1>26. \A k \in 0..N : /\ k <= s => moved[k] = at[k]
                       /\ k >= e => moved[k] = at[k] + g
  <2>1. s \in Nat /\ e \in Nat /\ s < e /\ N \in Nat
    BY <1>14, <1>16
  <2> HIDE DEF s, e, N
  <2> QED
    BY <1>12, <2>1 DEF Moved, g
<1>27. ASSUME NEW i \in 1..n, workspace.items[i].draft.path = path, IsOpen(i)'
       PROVE  /\ i # c /\ IsOpen(i) /\ IsApart(origin(i), origin(c))
              /\ workspace'.items[i].draft.match_region.start_offset = moved[origin(i).start_offset]
              /\ workspace'.items[i].draft.match_region.end_offset = moved[origin(i).end_offset]
  <2> DEFINE old == workspace.items[i].draft
             new == workspace'.items[i].draft
             from == apply.draft.match_region
             a == origin(i).start_offset
             b == origin(i).end_offset
  <2>1. /\ i # c /\ workspace.items[i].status = "pending" /\ new.error # "STALE_DRAFT"
        /\ ~ledger[i].revised
    BY <1>2, <1>18, <1>27 DEF IsOpen
  <2>2. i > c
    <3>1. i >= c /\ i \in Int
      BY <1>7, <2>1
    <3> HIDE DEF c
    <3> QED
      BY <1>18, <2>1, <3>1
  <2>3. new = RebaseDraft(source[path], old, from, ChangedRegion(apply.read, apply.draft))
    BY <1>4, <1>27, <2>1, <2>2
  <2>4. old \in DraftType
    BY <1>7
  <2>5. /\ old.error # "STALE_DRAFT"
        /\ \/ /\ old.match_region.end_offset <= from.start_offset
              /\ new.match_region.start_offset = old.match_region.start_offset
              /\ new.match_region.end_offset = old.match_region.end_offset
           \/ /\ old.match_region.start_offset >= from.end_offset
              /\ new.match_region.start_offset =
                   old.match_region.start_offset + (Len(bytes) - (from.end_offset - from.start_offset))
              /\ new.match_region.end_offset =
                   old.match_region.end_offset + (Len(bytes) - (from.end_offset - from.start_offset))
    <3> DEFINE read == apply.read
               d == apply.draft
    <3>1. /\ read \in Seq(Byte) /\ d \in DraftType /\ ApplyChecks(read, d)
          /\ new = RebaseDraft(FinalBytes(read, d), old, d.match_region, ChangedRegion(read, d))
      BY <1>5, <1>6, <2>3, Zenon
    <3> HIDE DEF read, d, old, new
    <3>2. LET g1 == Len(Replacement(read, d)) - (d.match_region.end_offset - d.match_region.start_offset)
          IN  /\ old.error # "STALE_DRAFT"
              /\ \/ /\ old.match_region.end_offset <= d.match_region.start_offset
                    /\ new.match_region.start_offset = old.match_region.start_offset
                    /\ new.match_region.end_offset = old.match_region.end_offset
                 \/ /\ old.match_region.start_offset >= d.match_region.end_offset
                    /\ new.match_region.start_offset = old.match_region.start_offset + g1
                    /\ new.match_region.end_offset = old.match_region.end_offset + g1
      BY <2>1, <2>4, <3>1, RebasedPlace
    <3> QED
      BY <3>2, SMTT(60) DEF read, d
  <2>6. IsOpen(i)
    BY <2>1, <2>5 DEF IsOpen
  <2>7. /\ a < b /\ b <= N /\ old.match_region.start_offset = at[a]
        /\ old.match_region.end_offset = at[b] /\ a \in Nat /\ b \in Nat
    BY <1>10, <1>15, <1>27, <2>6 DEF IsPlaced
  <2>8. from.start_offset = at[s] /\ from.end_offset = at[e] /\ s \in 0..N /\ e \in 0..N /\ s < e
    BY <1>16
  <2>9. a \in 0..N /\ b \in 0..N
    <3> HIDE DEF a, b, N
    <3> QED
      BY <1>14, <2>7
  <2>10. /\ at[a] \in Nat /\ at[b] \in Nat /\ at[s] \in Nat /\ at[e] \in Nat
         /\ ~(b <= s) => at[s + 1] <= at[b]
         /\ ~(a >= e) => at[a] <= at[e - 1]
    <3> HIDE DEF a, b, s, e, N
    <3>1. (~(b <= s) => s + 1 <= b) /\ (~(a >= e) => a <= e - 1) /\ s + 1 \in 0..N
      BY <1>14, <1>24, <2>7, <2>8, <2>9
    <3> QED
      BY <1>24, <1>25, <2>8, <2>9, <3>1
  <2>11. \/ /\ b <= s
            /\ new.match_region.start_offset = at[a] /\ new.match_region.end_offset = at[b]
         \/ /\ a >= e
            /\ new.match_region.start_offset = at[a] + g
            /\ new.match_region.end_offset = at[b] + g
    <3>1. g = Len(bytes) - (from.end_offset - from.start_offset)
      BY <2>8
    <3>2. at[e - 1] \in Nat
      BY <1>24, <1>25
    <3> HIDE DEF a, b, s, e, g, old, new, from
    <3>3. at[b] <= at[s] => b <= s
      BY <1>24, <2>10
    <3>4. at[a] >= at[e] => a >= e
      BY <1>24, <2>10, <3>2
    <3> QED
      BY <2>5, <2>7, <2>8, <3>1, <3>3, <3>4
  <2>12. /\ new.match_region.start_offset = moved[a] /\ new.match_region.end_offset = moved[b]
         /\ b <= s \/ a >= e
    <3> HIDE DEF a, b, s, e, g, new, N
    <3>1. (b <= s => a <= s) /\ (a >= e => b >= e)
      BY <1>14, <2>7, <2>8
    <3> QED
      BY <1>26, <2>9, <2>11, <3>1
  <2>13. IsApart(origin(i), origin(c))
    BY <2>12 DEF IsApart
  <2> QED
    BY <2>1, <2>6, <2>12, <2>13
<1>28. IsPlaced(path, moved)'
  <2> SUFFICES ASSUME NEW i \in 1..n, workspace.items[i].draft.path = path
               PROVE  /\ origin(i).start_offset < origin(i).end_offset
                      /\ origin(i).end_offset <= N
                      /\ IsOpen(i)' =>
                           /\ workspace'.items[i].draft.match_region.start_offset =
                                moved[origin(i).start_offset]
                           /\ workspace'.items[i].draft.match_region.end_offset =
                                moved[origin(i).end_offset]
                      /\ i \in AppliedOn(path)' \/ IsOpen(i)' =>
                           \A j \in AppliedOn(path)' \ {i} : IsApart(origin(i), origin(j))
    BY <1>2, <1>18 DEF IsPlaced
  <2>1. /\ origin(i).start_offset < origin(i).end_offset /\ origin(i).end_offset <= N
        /\ i \in AppliedOn(path) \/ IsOpen(i) =>
             \A j \in AppliedOn(path) \ {i} : IsApart(origin(i), origin(j))
    BY <1>10 DEF IsPlaced
  <2>2. ASSUME i \in AppliedOn(path)' \/ IsOpen(i)', NEW j \in AppliedOn(path)', j # i
        PROVE  IsApart(origin(i), origin(j))
    <3>1. CASE i = c
      BY <1>8, <1>16, <2>2, <3>1
    <3>2. CASE i # c /\ j = c
      <4>1. CASE i \in AppliedOn(path)
        <5>1. IsApart(origin(c), origin(i))
          BY <1>16, <4>1
        <5>2. /\ origin(i).start_offset \in Nat /\ origin(i).end_offset \in Nat
              /\ origin(c).start_offset \in Nat /\ origin(c).end_offset \in Nat
          BY <1>15, <1>18
        <5>3. IsApart(origin(i), origin(c))
          <6> HIDE DEF origin
          <6> QED
            BY <5>1, <5>2 DEF IsApart
        <5> QED
          BY <3>2, <5>3
      <4>2. CASE IsOpen(i)'
        BY <1>27, <3>2, <4>2
      <4> QED
        BY <1>8, <2>2, <3>2, <4>1, <4>2
    <3>3. CASE i # c /\ j # c
      <4>1. j \in AppliedOn(path) \ {i}
        BY <1>8, <2>2, <3>3
      <4>2. i \in AppliedOn(path) \/ IsOpen(i)
        BY <1>8, <1>27, <2>2, <3>3
      <4> QED
        BY <2>1, <4>1, <4>2
    <3> QED
      BY <3>1, <3>2, <3>3
  <2> QED
    BY <1>27, <2>1, <2>2
<1>29. ending2 \in [AppliedOn(path)' -> LineEnding]
  <2>1. DetectNewline(apply.read) \in LineEnding
    BY DEF DetectNewline, LineEnding
  <2>2. ending2 = [i \in AppliedOn(path)' |-> ending2[i]]
        /\ \A i \in AppliedOn(path)' : ending2[i] = IF i = c THEN DetectNewline(apply.read)
                                                   ELSE ending[i]
    BY <1>8, <1>13
  <2>3. \A i \in AppliedOn(path)' : ending2[i] \in LineEnding
    BY <1>8, <2>1, <2>2, Zenon
  <2> QED
    BY <2>2, <2>3
<1>30. moved \in [0..Len(scanned[path])' -> Nat]
  <2>1. Len(Regrouped(pieces, s + 1, e, bytes)) = N
    BY <1>14 DEF Regrouped
  <2> QED
    BY <1>17, <1>18, <2>1, Zenon DEF LaidOut
<1>31. LaidOut(Byte, RecordedFile(path), Pieces(path, ending2), moved)'
  <2> DEFINE new == source[path]
             groups == Regrouped(pieces, s + 1, e, bytes)
  <2>1. LaidOut(Byte, new, groups, moved)
    BY <1>17
  <2>2. RecordedFile(path)' = new /\ Pieces(path, ending2)' = groups
    BY <1>19, <1>23
  <2> HIDE DEF new, groups
  <2> QED
    BY <2>1, <2>2 DEF LaidOut
<1> QED
  BY <1>28, <1>29, <1>30, <1>31 DEF Placed

(* A scan starts with every file in its place. *)
LEMMA PlacesAtScan ==
  ASSUME TypeOK, BeginAudit, NEW path \in Path, Settled(path)'
  PROVE  Placed(path)'
<1>1. /\ workspace'.items = <<>> /\ scanned' = source /\ phase' = "audit"
      /\ source' = source /\ source[path] \in File /\ source[path] \notin {Unreadable, <<>>}
  BY DEF BeginAudit, IdleWorkspace, Settled, TypeOK
<1>2. source[path] \in Seq(Byte)
  BY <1>1 DEF File
<1>3. AppliedOn(path)' = {} /\ RecordedFile(path)' = source[path]
  BY <1>1 DEF AppliedOn, RecordedFile, IsReplaced
<1>4. PICK ending : ending \in [{} -> LineEnding]
  <2>1. [i \in {} |-> <<LF>>] \in [{} -> LineEnding]
    OBVIOUS
  <2> QED
    BY <2>1
<1>5. PICK raw : raw = source[path]
  OBVIOUS
<1>6. PICK at : at = [k \in 0..Len(raw) |-> k]
  OBVIOUS
<1>7. Pieces(path, ending)' = [k \in 1..Len(raw) |-> <<raw[k]>>]
  <2>1. \A k : Covering(path, k)' = {}
    BY <1>3 DEF Covering
  <2>2. scanned'[path] = raw
    BY <1>1, <1>5
  <2> QED
    BY <2>1, <2>2 DEF Pieces, Piece
<1>8. LaidOut(Byte, raw, Pieces(path, ending)', at)
  BY <1>2, <1>5, <1>6, <1>7, ByteByByte
<1>9. LaidOut(Byte, RecordedFile(path), Pieces(path, ending), at)'
  BY <1>3, <1>5, <1>8 DEF LaidOut
<1>10. IsPlaced(path, at)'
  BY <1>1 DEF IsPlaced
<1>11. at \in [0..Len(scanned[path])' -> Nat]
  BY <1>1, <1>2, <1>5, <1>6
<1> QED
  BY <1>3, <1>4, <1>9, <1>10, <1>11 DEF Placed

(* A proposed patch is where it was found in the scanned file.             *)
LEMMA PlacesOfProposal ==
  ASSUME TypeOK, CursorSplitsQueue, HandlerInv, DraftApplies, ScanInv, CommitProposal,
         NEW path \in Path, Settled(path)', Placed(path)
  PROVE  Placed(path)'
<1> DEFINE n == Len(workspace.items)
           raw == scanned[path]
           N == Len(raw)
           item == [status |-> "pending", draft |-> draft]
           entry == [origin |-> draft.match_region, evidence |-> Evidence(draft),
                     writes |-> 0, revised |-> FALSE]
<1>1. /\ Splits(workspace) /\ n \in Nat /\ workspace.items \in Seq(ItemType)
      /\ ledger \in Seq(LedgerType) /\ Len(ledger) = n
  BY QueueFacts, WorkspaceFields DEF TypeOK, Splits
<1>2. /\ draft \in DraftType /\ workspace.cursor = 1 /\ draft # NoDraft /\ phase = "audit"
      /\ UNCHANGED <<source, touched, scanned, apply, phase>>
      /\ ledger' = Append(ledger, entry)
  BY DEF CommitProposal, TypeOK, HandlerInv
<1>3. workspace'.items = Append(workspace.items, item) /\ Len(workspace'.items) = n + 1
  BY <1>1, <1>2, AddPatchResult DEF CommitProposal
<1>4. item.draft = draft /\ item.status = "pending" /\ entry.origin = draft.match_region
  OBVIOUS
<1> HIDE DEF item, entry
<1>5. \A i \in 1..(n + 1) :
        /\ workspace'.items[i] = IF i <= n THEN workspace.items[i] ELSE item
        /\ ledger'[i] = IF i <= n THEN ledger[i] ELSE entry
  BY <1>1, <1>2, <1>3
<1>6. \A i \in 1..n : workspace.items[i].status = "pending"
  BY <1>1, <1>2 DEF Splits, IsPending
<1>7. AppliedOn(path) = {} /\ AppliedOn(path)' = {}
  <2>1. \A i \in 1..(n + 1) : workspace'.items[i].status = "pending"
    BY <1>1, <1>4, <1>5, <1>6
  <2> QED
    BY <1>3, <1>6, <2>1 DEF AppliedOn
<1>8. raw \in Seq(Byte) /\ raw # <<>> /\ N \in Nat /\ path \notin touched
  <2>1. raw \in File /\ raw \notin {Unreadable, <<>>} /\ path \notin touched
    BY <1>2 DEF TypeOK, Settled
  <2> QED
    BY <2>1 DEF File
<1>9. PICK ending \in [AppliedOn(path) -> LineEnding], at \in [0..N -> Nat] :
        /\ LaidOut(Byte, RecordedFile(path), Pieces(path, ending), at)
        /\ IsPlaced(path, at)
  BY DEF Placed
<1>10. /\ RecordedFile(path)' = RecordedFile(path)
       /\ Pieces(path, ending)' = Pieces(path, ending)
       /\ Pieces(path, ending) = [k \in 1..N |-> <<raw[k]>>]
  <2>1. \A k : Covering(path, k)' = {} /\ Covering(path, k) = {}
    BY <1>7 DEF Covering
  <2> QED
    BY <1>2, <2>1 DEF Pieces, Piece, RecordedFile, IsReplaced
<1>11. \A k \in 0..N : at[k] = k
  <2>1. /\ \A k \in 1..Len(Pieces(path, ending)) : Len(Pieces(path, ending)[k]) = 1
        /\ Len(Pieces(path, ending)) = N
    BY <1>8, <1>10, ByteByByte
  <2> QED
    BY <1>9, <2>1, PlacesOfElements
<1>12. LaidOut(Byte, RecordedFile(path), Pieces(path, ending), at)'
  <2> DEFINE pieces == Pieces(path, ending)
             now == RecordedFile(path)
  <2>1. LaidOut(Byte, now, pieces, at) /\ now' = now /\ pieces' = pieces
    BY <1>9, <1>10
  <2> HIDE DEF pieces, now
  <2>2. LaidOut(Byte, now, pieces, at)'
    BY <2>1 DEF LaidOut
  <2> QED
    BY <2>2 DEF pieces, now
<1>13. ASSUME draft.path = path
       PROVE  /\ draft.match_region.start_offset < draft.match_region.end_offset
              /\ draft.match_region.end_offset <= N
              /\ draft.match_region.start_offset \in Nat /\ draft.match_region.end_offset \in Nat
  <2>1. source[path] = raw /\ ApplyChecks(raw, draft)
    BY <1>2, <1>8, <1>13 DEF ScanInv, DraftApplies
  <2>2. LocatesUnique(raw, draft.old) /\ MatchRegion(raw, draft.old) = draft.match_region
    BY <2>1 DEF ApplyChecks
  <2>3. draft.old \in Seq(Byte) /\ draft.match_region \in RegionType
    BY <1>2, Constants DEF DraftType
  <2> HIDE DEF raw
  <2>4. MatchRegion(raw, draft.old).start_offset < MatchRegion(raw, draft.old).end_offset
    BY <1>8, <2>2, <2>3, MatchIsNotEmpty
  <2>5. MatchRegion(raw, draft.old).end_offset <= Len(raw)
    BY <1>8, <2>2, <2>3, MatchRegionType
  <2> QED
    BY <2>2, <2>3, <2>4, <2>5 DEF RegionType
<1>14. IsPlaced(path, at)'
  <2> SUFFICES ASSUME NEW i \in 1..(n + 1), workspace'.items[i].draft.path = path
               PROVE  /\ ledger'[i].origin.start_offset < ledger'[i].origin.end_offset
                      /\ ledger'[i].origin.end_offset <= N
                      /\ IsOpen(i)' =>
                           /\ workspace'.items[i].draft.match_region.start_offset =
                                at[ledger'[i].origin.start_offset]
                           /\ workspace'.items[i].draft.match_region.end_offset =
                                at[ledger'[i].origin.end_offset]
    BY <1>2, <1>3, <1>7 DEF IsPlaced
  <2>1. CASE i <= n
    <3>1. i \in 1..n /\ workspace'.items[i] = workspace.items[i] /\ ledger'[i] = ledger[i]
      BY <1>1, <1>5, <2>1
    <3> QED
      BY <1>9, <3>1 DEF IsPlaced, IsOpen
  <2>2. CASE ~(i <= n)
    <3>1. workspace'.items[i].draft = draft /\ ledger'[i].origin = draft.match_region
      BY <1>4, <1>5, <2>2
    <3>2. /\ draft.match_region.start_offset \in 0..N /\ draft.match_region.end_offset \in 0..N
          /\ draft.match_region.start_offset < draft.match_region.end_offset
          /\ draft.match_region.end_offset <= N
      <4> HIDE DEF N
      <4> QED
        BY <1>8, <1>13, <3>1
    <3> QED
      BY <1>11, <3>1, <3>2
  <2> QED
    BY <2>1, <2>2
<1> QED
  BY <1>2, <1>7, <1>9, <1>12, <1>14 DEF Placed

(* Every step leaves the patches of a settled file in their places.        *)
LEMMA PlacesStep ==
  ASSUME TypeOK, CursorSplitsQueue, HandlerInv, DraftApplies, ScanInv, ReplacedInv, PlacesInv,
         [Next]_vars
  PROVE  PlacesInv'
<1> SUFFICES ASSUME NEW path \in Path, Settled(path)' PROVE Placed(path)'
  BY DEF PlacesInv
<1> DEFINE n == Len(workspace.items)
           c == workspace.cursor
<1>1. /\ Splits(workspace) /\ n \in Nat /\ c \in Nat /\ ledger \in Seq(LedgerType)
      /\ Len(ledger) = n
  BY QueueFacts, WorkspaceFields DEF TypeOK
<1>2. ASSUME NEW i \in 1..n
      PROVE  workspace.items[i] \in ItemType /\ ledger[i] \in LedgerType
  BY <1>1, WorkspaceFields DEF Splits
<1>3. Settled(path) => Placed(path)
  BY DEF PlacesInv
<1>4. CASE workspace'.items = <<>> /\ phase' # "audit"
  BY <1>4 DEF Settled
<1>5. CASE BeginAudit
  BY <1>5, PlacesAtScan
<1>6. CASE /\ UNCHANGED <<scanned, workspace, ledger>> /\ touched \subseteq touched'
           /\ phase' = "audit" => phase = "audit"
           /\ path \notin touched' => RecordedFile(path)' = RecordedFile(path)
  <2>1. AppliedOn(path)' = AppliedOn(path)
    BY <1>6 DEF AppliedOn
  <2>2. Settled(path)
    BY <1>6, <2>1 DEF Settled
  <2>3. \A i \in 1..n : IsOpen(i)' => IsOpen(i)
    BY <1>6 DEF IsOpen
  <2>4. RecordedFile(path)' = RecordedFile(path)
    BY <1>6 DEF Settled
  <2> QED
    BY <1>3, <1>6, <2>1, <2>2, <2>3, <2>4, PlacesKept
<1>7. CASE ReplaceSource
  <2>1. /\ phase = "apply" /\ apply.step = "compared" /\ phase' = "apply" /\ ~IsReplaced
        /\ UNCHANGED <<scanned, workspace, touched>>
        /\ source' = [source EXCEPT ![apply.draft.path] = FinalBytes(apply.read, apply.draft)]
        /\ apply' = [apply EXCEPT !.step = "replaced"]
        /\ ledger' = [ledger EXCEPT ![c].writes = @ + 1] /\ apply \in ApplyType
    BY <1>7 DEF ReplaceSource, IsReplaced, TypeOK
  <2>2. /\ apply'.draft = apply.draft /\ apply'.step = "replaced" /\ apply'.read = apply.read
        /\ IsReplaced'
    BY <2>1 DEF ApplyType, IsReplaced
  <2>3. \A i \in 1..n : ledger'[i].origin = ledger[i].origin /\ ledger'[i].revised = ledger[i].revised
    BY <1>1, <2>1 DEF LedgerType
  <2>4. AppliedOn(path)' = AppliedOn(path) /\ AppliedOn(path) \subseteq 1..n
    BY <2>1 DEF AppliedOn
  <2>5. path \notin touched /\ Settled(path)
    BY <2>1, <2>3, <2>4 DEF Settled
  <2>6. \A i \in 1..n : IsOpen(i)' => IsOpen(i)
    BY <2>1, <2>3 DEF IsOpen
  <2>7. RecordedFile(path)' = RecordedFile(path)
    <3>1. RecordedFile(path) = source[path]
      BY <2>1 DEF RecordedFile
    <3>2. CASE apply.draft.path = path
      <4>1. source[path] = apply.read
        BY <2>1, <2>5, <3>2 DEF HandlerInv, ReplacedInv
      <4> QED
        BY <2>2, <3>1, <3>2, <4>1 DEF RecordedFile
    <3>3. CASE apply.draft.path # path
      <4>1. source'[path] = source[path]
        BY <2>1, <3>3 DEF TypeOK
      <4> QED
        BY <2>2, <3>1, <3>3, <4>1 DEF RecordedFile
    <3> QED
      BY <3>2, <3>3
  <2> QED
    BY <1>3, <2>1, <2>3, <2>4, <2>5, <2>6, <2>7, PlacesKept
<1>8. CASE Discard
  <2>1. /\ Len(workspace'.items) = n /\ c \in 1..n /\ workspace.items[c].status = "pending"
        /\ \A i \in 1..n :
             workspace'.items[i] = IF i = c THEN [workspace.items[i] EXCEPT !.status = "discarded"]
                                   ELSE workspace.items[i]
    BY <1>1, <1>8, MarkCurrentResult DEF Discard, HasPendingPatch, IsPending
  <2>2. UNCHANGED <<source, scanned, phase, apply, ledger, touched>> /\ phase = "prompt"
    BY <1>8 DEF Discard
  <2>3. \A i \in 1..n : /\ workspace'.items[i].draft = workspace.items[i].draft
                        /\ workspace'.items[i].status = IF i = c THEN "discarded"
                                                        ELSE workspace.items[i].status
    <3> SUFFICES ASSUME NEW i \in 1..n
                 PROVE  /\ workspace'.items[i].draft = workspace.items[i].draft
                        /\ workspace'.items[i].status = IF i = c THEN "discarded"
                                                        ELSE workspace.items[i].status
      OBVIOUS
    <3>1. CASE i = c
      <4>1. workspace'.items[i] = [workspace.items[i] EXCEPT !.status = "discarded"]
        BY <2>1, <3>1
      <4> QED
        BY <1>2, <3>1, <4>1, ItemUpdate
    <3>2. CASE i # c
      BY <2>1, <3>2
    <3> QED
      BY <3>1, <3>2
  <2>4. AppliedOn(path)' = AppliedOn(path) /\ AppliedOn(path) \subseteq 1..n
    BY <2>1, <2>3 DEF AppliedOn
  <2>5. Settled(path)
    <3>1. workspace.items # <<>>
      BY <2>1
    <3> QED
      BY <2>2, <2>4, <3>1 DEF Settled
  <2>6. \A i \in 1..n : IsOpen(i)' => IsOpen(i)
    BY <2>2, <2>3 DEF IsOpen
  <2>7. RecordedFile(path)' = RecordedFile(path)
    BY <2>2 DEF RecordedFile, IsReplaced
  <2> QED
    BY <1>3, <2>1, <2>2, <2>3, <2>4, <2>5, <2>6, <2>7, PlacesKept
<1>9. CASE EndRevise /\ ReplaceAllowed(CurrentPatch(workspace).draft)
  <2>1. /\ draft \in DraftType /\ HasPendingPatch(workspace)
        /\ workspace' = ReplaceCurrentPatch(workspace, draft) /\ c \in 1..n
        /\ workspace.items[c].status = "pending"
        /\ draft.path = workspace.items[c].draft.path
        /\ ledger' = [ledger EXCEPT ![c].revised = TRUE]
        /\ UNCHANGED <<source, scanned, touched, apply>> /\ ~IsReplaced /\ phase' = "prompt"
    BY <1>9 DEF EndRevise, ReplaceAllowed, TypeOK, HandlerInv, HasPendingPatch, IsReplaced,
                CurrentPatch, IsPending
  <2>2. /\ Len(workspace'.items) = n
        /\ \A i \in 1..n :
             workspace'.items[i] = IF i = c THEN [workspace.items[i] EXCEPT !.draft = draft]
                                   ELSE workspace.items[i]
    BY <1>1, <2>1, ReplaceCurrentResult
  <2>3. \A i \in 1..n :
          /\ workspace'.items[i].draft = IF i = c THEN draft ELSE workspace.items[i].draft
          /\ workspace'.items[i].status = workspace.items[i].status
    <3> SUFFICES ASSUME NEW i \in 1..n
                 PROVE  /\ workspace'.items[i].draft = IF i = c THEN draft
                                                       ELSE workspace.items[i].draft
                        /\ workspace'.items[i].status = workspace.items[i].status
      OBVIOUS
    <3>1. CASE i = c
      <4>1. workspace'.items[i] = [workspace.items[i] EXCEPT !.draft = draft]
        BY <2>2, <3>1
      <4> QED
        BY <1>2, <2>1, <3>1, <4>1, ItemUpdate
    <3>2. CASE i # c
      BY <2>2, <3>2
    <3> QED
      BY <3>1, <3>2
  <2>4. \A i \in 1..n : /\ ledger'[i].origin = ledger[i].origin
                        /\ i = c => ledger'[i].revised
                        /\ i # c => ledger'[i].revised = ledger[i].revised
    <3> SUFFICES ASSUME NEW i \in 1..n
                 PROVE  /\ ledger'[i].origin = ledger[i].origin
                        /\ i = c => ledger'[i].revised
                        /\ i # c => ledger'[i].revised = ledger[i].revised
      OBVIOUS
    <3>1. CASE i = c
      <4> DEFINE new == [ledger[i] EXCEPT !.revised = TRUE]
      <4>1. ledger' = [ledger EXCEPT ![i] = new] /\ i \in DOMAIN ledger
        BY <1>1, <2>1, <3>1
      <4>2. ledger'[i] = new
        <5> HIDE DEF new
        <5> QED
          BY <4>1
      <4> QED
        BY <1>2, <3>1, <4>2 DEF LedgerType
    <3>2. CASE i # c
      <4>1. ledger'[i] = ledger[i]
        BY <1>1, <2>1, <3>2
      <4> QED
        BY <3>2, <4>1
    <3> QED
      BY <3>1, <3>2
  <2>5. /\ \A i \in 1..n : workspace'.items[i].draft.path = workspace.items[i].draft.path
        /\ AppliedOn(path)' = AppliedOn(path) /\ AppliedOn(path) \subseteq 1..n
        /\ c \notin AppliedOn(path)
    <3>1. \A i \in 1..n : workspace'.items[i].draft.path = workspace.items[i].draft.path
      BY <2>1, <2>3
    <3> QED
      BY <2>1, <2>2, <2>3, <3>1 DEF AppliedOn
  <2>6. Settled(path)
    <3>1. workspace.items # <<>>
      BY <2>1
    <3> QED
      BY <2>1, <2>4, <2>5, <3>1 DEF Settled
  <2>7. \A i \in 1..n : IsOpen(i)' => IsOpen(i) /\ i # c
    BY <2>3, <2>4 DEF IsOpen
  <2>8. RecordedFile(path)' = RecordedFile(path)
    BY <2>1 DEF RecordedFile, IsReplaced
  <2> QED
    BY <1>3, <2>1, <2>2, <2>3, <2>4, <2>5, <2>6, <2>7, <2>8, PlacesKept
<1>10. CASE CommitProposal
  <2>1. Settled(path)
    <3>1. /\ phase = "audit" /\ UNCHANGED <<scanned, touched>> /\ c = 1
      BY <1>10 DEF CommitProposal, HandlerInv
    <3>2. AppliedOn(path) = {}
      BY <1>1, <3>1 DEF Splits, IsPending, AppliedOn
    <3> QED
      BY <3>1, <3>2 DEF Settled
  <2> QED
    BY <1>3, <1>10, <2>1, PlacesOfProposal
<1>11. CASE RecordApply
  <2>1. /\ c \in 1..n /\ Len(workspace'.items) = n
        /\ \A i \in 1..n :
             /\ workspace'.items[i].status = IF i = c THEN "applied" ELSE workspace.items[i].status
             /\ workspace'.items[i].draft.path = workspace.items[i].draft.path
    BY <1>1, <1>11, RecordApplyResult
  <2>2. \A i \in 1..n : workspace.items[i].draft.path # apply.draft.path =>
                          workspace'.items[i].draft = workspace.items[i].draft
    BY <1>1, <1>11, RecordApplyResult
  <2>3. /\ UNCHANGED <<source, scanned, ledger, touched>> /\ phase' = "prompt" /\ IsReplaced
        /\ apply.draft = workspace.items[c].draft /\ workspace.items[c].status = "pending"
    BY <1>11 DEF RecordApply, IsReplaced, HandlerInv, CurrentPatch, HasPendingPatch, IsPending
  <2>4. AppliedOn(path) \subseteq AppliedOn(path)' /\ AppliedOn(path) \subseteq 1..n
    BY <2>1, <2>3 DEF AppliedOn
  <2>5. Settled(path)
    <3>1. workspace.items # <<>>
      BY <2>1
    <3> QED
      BY <2>3, <2>4, <3>1 DEF Settled
  <2>6. CASE path = apply.draft.path
    BY <1>3, <1>11, <2>5, <2>6, AppliedPlaces
  <2>7. CASE path # apply.draft.path
    <3>1. AppliedOn(path)' = AppliedOn(path)
      BY <2>1, <2>3, <2>7 DEF AppliedOn
    <3>2. \A i \in AppliedOn(path) : workspace'.items[i].draft = workspace.items[i].draft
      BY <2>2, <2>4, <2>7 DEF AppliedOn
    <3>3. \A i \in 1..n : workspace.items[i].draft.path = path /\ IsOpen(i)' =>
            IsOpen(i) /\ workspace'.items[i].draft = workspace.items[i].draft
      BY <2>1, <2>2, <2>3, <2>7 DEF IsOpen
    <3>4. RecordedFile(path)' = RecordedFile(path)
      BY <2>3, <2>7 DEF RecordedFile, IsReplaced
    <3> QED
      BY <1>3, <2>1, <2>3, <2>4, <2>5, <3>1, <3>2, <3>3, <3>4, PlacesKept
  <2> QED
    BY <2>6, <2>7
<1>12. \/ workspace'.items = <<>> /\ phase' # "audit"
       \/ BeginAudit
       \/ /\ UNCHANGED <<scanned, workspace, ledger>> /\ touched \subseteq touched'
          /\ phase' = "audit" => phase = "audit"
          /\ path \notin touched' => RecordedFile(path)' = RecordedFile(path)
       \/ EndRevise /\ ReplaceAllowed(CurrentPatch(workspace).draft)
       \/ ReplaceSource \/ Discard \/ CommitProposal \/ RecordApply
  <2>1. CASE EndAudit \/ Abort
    BY <2>1 DEF EndAudit, Abort, IdleWorkspace, RecordedFile, IsReplaced
  <2>2. CASE ProposeSome \/ BeginRevise \/ ReviseSome \/ UNCHANGED vars
    BY <2>2 DEF ProposeSome, Propose, BeginRevise, ReviseSome, Revise, vars, RecordedFile,
                IsReplaced
  <2>3. CASE EndRevise /\ ~ReplaceAllowed(CurrentPatch(workspace).draft)
    BY <2>3 DEF EndRevise, RecordedFile, IsReplaced
  <2>4. CASE StageApply \/ CompareSource \/ RejectApply
    <3>1. /\ UNCHANGED <<source, scanned, workspace, ledger, touched>> /\ ~IsReplaced
          /\ ~IsReplaced' /\ phase' # "audit"
      <4>1. CASE StageApply
        BY <4>1 DEF StageApply, IsReplaced
      <4>2. CASE CompareSource
        BY <4>2 DEF CompareSource, IsReplaced, TypeOK, ApplyType
      <4>3. CASE RejectApply
        BY <4>3 DEF RejectApply, IsReplaced
      <4> QED
        BY <2>4, <4>1, <4>2, <4>3
    <3> QED
      BY <3>1 DEF RecordedFile
  <2>5. CASE Interrupt
    BY <2>5 DEF Interrupt, RecordedFile, IsReplaced
  <2>6. CASE ExternalEditSome
    <3>1. PICK p \in Path, file \in EditedFile : ExternalEdit(p, file)
      BY <2>6 DEF ExternalEditSome
    <3>2. /\ UNCHANGED <<workspace, scanned, phase, ledger>> /\ touched' = touched \cup {p}
          /\ source' = [source EXCEPT ![p] = file]
          /\ apply' = apply \/ (phase = "apply" /\ apply' = [apply EXCEPT !.raced = TRUE])
      BY <3>1 DEF ExternalEdit
    <3>3. phase = "apply" => apply'.step = apply.step /\ apply'.draft = apply.draft
                             /\ apply'.read = apply.read
      BY <3>2 DEF TypeOK, ApplyType
    <3>4. path # p => source'[path] = source[path]
      BY <3>2 DEF TypeOK
    <3> QED
      BY <3>2, <3>3, <3>4 DEF RecordedFile, IsReplaced
  <2> QED
    BY <2>1, <2>2, <2>3, <2>4, <2>5, <2>6 DEF Next
<1> QED
  BY <1>4, <1>5, <1>6, <1>7, <1>8, <1>9, <1>10, <1>11, <1>12

(* Files whose patches are in their places hold what applying all of them  *)
(* at once leaves.                                                         *)
LEMMA PlacedIsAllAtOnce ==
  ASSUME TypeOK, PlacesInv
  PROVE  OneByOneIsAllAtOnce
<1> SUFFICES ASSUME NEW path \in Path, workspace.items # <<>>,
                    scanned[path] \notin {Unreadable, <<>>}, path \notin touched,
                    ~(phase = "apply" /\ apply.step = "replaced"),
                    \A i \in AppliedOn(path) : ~ledger[i].revised
             PROVE  /\ \A i, j \in AppliedOn(path) : i # j => IsApart(ledger[i].origin, ledger[j].origin)
                    /\ \E ending \in [AppliedOn(path) -> LineEnding] :
                         source[path] = AllAtOnce(path, ending)
  BY DEF OneByOneIsAllAtOnce
<1>1. Placed(path) /\ RecordedFile(path) = source[path]
  BY DEF PlacesInv, Settled, RecordedFile, IsReplaced
<1>2. PICK ending \in [AppliedOn(path) -> LineEnding], at \in [0..Len(scanned[path]) -> Nat] :
        /\ LaidOut(Byte, source[path], Pieces(path, ending), at)
        /\ IsPlaced(path, at)
  BY <1>1 DEF Placed
<1>3. ASSUME NEW i \in AppliedOn(path), NEW j \in AppliedOn(path), i # j
      PROVE  IsApart(ledger[i].origin, ledger[j].origin)
  BY <1>2, <1>3 DEF IsPlaced, AppliedOn
<1>4. Pieces(path, ending) # <<>>
  <2>1. scanned[path] \in Seq(Byte) /\ scanned[path] # <<>>
    BY DEF TypeOK, File
  <2>2. Len(scanned[path]) \in Nat /\ Len(scanned[path]) # 0
    BY <2>1
  <2>3. Len(Pieces(path, ending)) = Len(scanned[path])
    BY <2>2 DEF Pieces
  <2>4. Len(<<>>) = 0
    OBVIOUS
  <2> QED
    BY <2>2, <2>3, <2>4
<1>5. source[path] = AllAtOnce(path, ending)
  <2>1. SeqExt!FlattenSeq(Pieces(path, ending)) = source[path]
    BY <1>2, <1>4, PiecesInOrder
  <2> QED
    BY <2>1 DEF AllAtOnce, Pieces
<1> QED
  BY <1>2, <1>3, <1>5

-----------------------------------------------------------------------------
(* The theorems. *)

(* The invariant holds at the start.                                       *)
LEMMA InitInv == Init => IInv
<1> SUFFICES ASSUME Init PROVE IInv
  OBVIOUS
<1>1. workspace = IdleWorkspace /\ workspace.items = <<>> /\ Len(workspace.items) = 0
  BY DEF Init, IdleWorkspace
<1>2. Splits(workspace)
  BY <1>1, IdleSplits
<1>3. TypeOK
  BY <1>1, <1>2, Constants DEF Init, TypeOK, Splits
<1>4. CursorSplitsQueue /\ LedgerInv /\ StaleNeverWritten /\ PendingDraftsApply
  BY <1>1, <1>2 DEF Splits, CursorSplitsQueue, LedgerInv, StaleNeverWritten, PendingDraftsApply,
                    Bound
<1>5. HandlerInv /\ DraftApplies /\ ScanInv /\ ReplacedInv
  BY DEF Init, HandlerInv, DraftApplies, ScanInv, ReplacedInv
<1>6. TargetTracksEvidence
  BY <1>1 DEF TargetTracksEvidence, Bound
<1>7. PlacesInv
  BY <1>1 DEF Init, PlacesInv, Settled
<1> QED
  BY <1>3, <1>4, <1>5, <1>6, <1>7 DEF IInv

(* Every step keeps the invariant.                                         *)
LEMMA StepInv == IInv /\ [Next]_vars => IInv'
<1> SUFFICES ASSUME IInv, [Next]_vars PROVE IInv'
  OBVIOUS
<1> USE DEF IInv
<1>1. TypeOK' /\ CursorSplitsQueue'
  BY TypeStep
<1>2. HandlerInv'
  BY HandlerStep
<1>3. LedgerInv' /\ StaleNeverWritten'
  BY LedgerStep
<1>4. DraftApplies' /\ PendingDraftsApply'
  BY DraftAppliesStep, BindingStep
<1>5. ScanInv' /\ ReplacedInv' /\ TargetTracksEvidence'
  BY ScanStep, ReplacedStep, EvidenceStep
<1>6. PlacesInv'
  BY PlacesStep
<1> QED
  BY <1>1, <1>2, <1>3, <1>4, <1>5, <1>6

(* The inductive invariant holds of every state of every execution.        *)
THEOREM Invariance == Spec => []IInv
BY InitInv, StepInv, PTL DEF Spec

(* Every variable keeps its type: in particular every region that drafting *)
(* and rebasing compute is a region, and every file that an application    *)
(* writes is a sequence of bytes.                                          *)
THEOREM TypeCorrect == Spec => []TypeOK
<1>1. IInv => TypeOK
  BY DEF IInv
<1> QED
  BY <1>1, Invariance, PTL

(* What the user is asked about is the first undecided patch and nothing   *)
(* undecided is behind it, whatever is applied, discarded, revised or      *)
(* interrupted (ReviewWorkspace.advance_after_terminal_patch).             *)
THEOREM CursorSplitsTheQueue == Spec => []CursorSplitsQueue
<1>1. IInv => CursorSplitsQueue
  BY DEF IInv
<1> QED
  BY <1>1, Invariance, PTL

(* A draft that lost its binding never reaches its file and is never       *)
(* revised, whatever edits and interrupts happen (handle_review_action,    *)
(* patch_revise).                                                          *)
THEOREM StaleDraftsAreNeverWritten == Spec => []StaleNeverWritten
<1>1. IInv => StaleNeverWritten
  BY DEF IInv
<1> QED
  BY <1>1, Invariance, PTL

(* A pending patch that is not stale passes the checks of apply_patch as   *)
(* long as nobody else changed its file since the scan (rebase_draft).     *)
THEOREM PendingDraftsAreApplicable == Spec => []PendingDraftsApply
<1>1. IInv => PendingDraftsApply
  BY DEF IInv
<1> QED
  BY <1>1, Invariance, PTL

(* The target of a pending patch that is not stale covers the bytes that   *)
(* the scanner reported, however many applications to the same file moved  *)
(* them (rebase_region, rebase_draft).                                     *)
THEOREM TargetsStayOnTheirEvidence == Spec => []TargetTracksEvidence
<1>1. IInv => TargetTracksEvidence
  BY DEF IInv
<1> QED
  BY <1>1, Invariance, PTL

(* Patches applied one after the other, each bound again behind the ones   *)
(* before, never overlap, and leave the bytes that replacing all of their  *)
(* regions of the scanned file at once leaves, the lines of each ended as  *)
(* the file was when it was applied (apply_patch, rebase_draft).           *)
THEOREM OneByOneEqualsAllAtOnce == Spec => []OneByOneIsAllAtOnce
<1>1. IInv => OneByOneIsAllAtOnce
  BY PlacedIsAllAtOnce DEF IInv
<1> QED
  BY <1>1, Invariance, PTL

(* A patch is recorded applied only if the engine wrote it, and in files   *)
(* that nobody disturbed it was written once if it is recorded applied and *)
(* never otherwise (apply_patch, mark_current_patch_applied).              *)
THEOREM QueueTellsWhatWasWritten == Spec => []AppliedIffWritten
<1>1. IInv => AppliedIffWritten
  <2> SUFFICES ASSUME IInv, NEW i \in 1..Len(workspace.items)
               PROVE  /\ workspace.items[i].status = "applied" => ledger[i].writes > 0
                      /\ Undisturbed(i) =>
                           ledger[i].writes = IF workspace.items[i].status = "applied" THEN 1 ELSE 0
    BY DEF AppliedIffWritten
  <2>1. workspace.items[i].status = "applied" => ledger[i].writes > 0
    BY DEF IInv, LedgerInv
  <2>2. ASSUME Undisturbed(i), IsReplaced, i = workspace.cursor PROVE FALSE
    BY <2>2 DEF IInv, HandlerInv, IsReplaced, Undisturbed, CurrentPatch
  <2>3. Undisturbed(i) => workspace.items[i].draft.path \notin touched
    BY DEF Undisturbed
  <2> QED
    BY <2>1, <2>2, <2>3 DEF IInv, LedgerInv
<1> QED
  BY <1>1, Invariance, PTL

(* What others wrote before the final comparison of apply_patch is not     *)
(* overwritten by it.                                                      *)
THEOREM EditsSeenSurvive == Spec => SeenEditSurvives
<1>1. IInv /\ [Next]_vars =>
        [IsReplaceStep /\ ~apply.raced => source[apply.draft.path] = apply.read]_vars
  BY DEF IInv, HandlerInv, IsReplaceStep
<1> QED
  BY <1>1, Invariance, PTL DEF SeenEditSurvives, Spec

(* What a step that replaces a file does.                                  *)
LEMMA ReplaceIsReviewed ==
  ASSUME IInv, [Next]_vars, IsReplaceStep, ~apply.raced
  PROVE  ReplacedAsReviewed
<1> DEFINE d   == CurrentPatch(workspace).draft
           was == source[d.path]
           now == source'[d.path]
<1>1. /\ phase = "apply" /\ apply.step = "compared" /\ apply'.step = "replaced"
      /\ TypeOK /\ HandlerInv /\ apply \in ApplyType
  BY DEF IsReplaceStep, IInv, TypeOK
<1>2. ReplaceSource
  <2>1. CASE ExternalEditSome
    <3>1. apply' = apply \/ apply' = [apply EXCEPT !.raced = TRUE]
      BY <2>1 DEF ExternalEditSome, ExternalEdit
    <3>2. apply'.step = apply.step
      BY <1>1, <3>1 DEF ApplyType
    <3> QED
      BY <1>1, <3>2
  <2>2. CASE ~ExternalEditSome
    BY <1>1, <2>2
       DEF IsReplaceStep, Next, vars, BeginAudit, ProposeSome, Propose, CommitProposal,
           EndAudit, Discard, Abort, BeginRevise, ReviseSome, Revise, EndRevise, StageApply,
           CompareSource, RejectApply, RecordApply, Interrupt
  <2> QED
    BY <2>1, <2>2
<1>3. /\ d = apply.draft /\ d \in DraftType /\ d.path \in Path
      /\ apply.read \in Seq(Byte) /\ ApplyChecks(apply.read, d)
      /\ was = apply.read
  BY <1>1 DEF HandlerInv, ApplyType, DraftType
<1>4. d.old \in Seq(Byte) /\ d.new \in Seq(Byte)
  BY <1>3, Constants DEF DraftType
<1>5. now = FinalBytes(was, d)
  <2>1. source' = [source EXCEPT ![apply.draft.path] = FinalBytes(apply.read, apply.draft)]
    BY <1>2 DEF ReplaceSource
  <2>2. source \in [Path -> File]
    BY <1>1 DEF TypeOK
  <2> HIDE DEF d
  <2> QED
    BY <1>3, <2>1, <2>2
<1>6. Normalize(BytesAt(was, d.match_region)) = Normalize(d.old)
  <2>1. LocatesUnique(was, d.old) /\ d.match_region = MatchRegion(was, d.old)
    BY <1>3 DEF ApplyChecks
  <2>2. was \in Seq(Byte)
    BY <1>3
  <2> HIDE DEF was, d
  <2> QED
    BY <1>4, <2>1, <2>2, MatchedText
<1>7. Normalize(Replacement(was, d)) = Normalize(d.new)
  <2>1. was \in Seq(Byte)
    BY <1>3
  <2> HIDE DEF was, d
  <2> QED
    BY <1>4, <2>1, WrittenText
<1>8. was \in Seq(Byte) /\ ApplyChecks(was, d)
  BY <1>3
<1> HIDE DEF was, now, d
<1> DEFINE before == SubSeq(was, 1, d.match_region.start_offset)
           after  == SubSeq(was, d.match_region.end_offset + 1, Len(was))
           inserted == SubSeq(now, Len(before) + 1, Len(now) - Len(after))
<1>9. /\ SubSeq(now, 1, Len(before)) = before
      /\ SubSeq(now, Len(now) - Len(after) + 1, Len(now)) = after
      /\ inserted = Replacement(was, d)
  BY <1>4, <1>5, <1>8, OnlyTheRegion
<1>10. Normalize(inserted) = Normalize(d.new)
  <2> HIDE DEF inserted
  <2> QED
    BY <1>7, <1>9
<1> QED
  BY <1>6, <1>9, <1>10, Zenon DEF ReplacedAsReviewed, was, now, d

(* An application that nobody raced changes the match region and nothing   *)
(* else, and what was and what is in it, read as text, are old_string and  *)
(* new_string (apply_patch, restore_newlines, region_in_original).         *)
THEOREM OnlyTheReviewedTextIsReplaced == Spec => ReplacesOnlyTheReviewedText
<1>1. IInv /\ [Next]_vars => [IsReplaceStep /\ ~apply.raced => ReplacedAsReviewed]_vars
  BY ReplaceIsReviewed
<1> QED
  BY <1>1, Invariance, PTL DEF ReplacesOnlyTheReviewedText, Spec
=============================================================================
