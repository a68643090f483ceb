----------------------------- MODULE SourceText -----------------------------
(***************************************************************************)
(* Source files as the patch engine sees them: raw bytes, the text that is *)
(* left when every line ending is normalised to LF, positions in either,   *)
(* and half-open regions (core/finding.py, core/patching/search_replace.py)*)
(*                                                                         *)
(* A file is a sequence of bytes.  Only the two bytes of a line ending are *)
(* told apart; any other value is one single-byte character.               *)
(***************************************************************************)
EXTENDS Integers, Sequences, FiniteSets

CONSTANTS
  Byte,    \* what a file is made of
  CR, LF   \* the bytes of a line ending

ASSUME LineEndingAssumption == {CR, LF} \subseteq Byte /\ CR # LF

(* The positions of the bytes that begin a character of the normalised     *)
(* text: every byte but the LF that completes a CRLF.                      *)
UnitStarts(raw) ==
  {i \in 1..Len(raw) : ~(raw[i] = LF /\ i > 1 /\ raw[i - 1] = CR)}

Characters(raw) == Cardinality(UnitStarts(raw))

(* The character that the byte at position i belongs to.                   *)
CharacterAt(raw, i) == Cardinality({j \in UnitStarts(raw) : j <= i})

(* The byte offset of index n of the normalised text: the number of bytes  *)
(* of its first n characters.                                              *)
ByteOffset(raw, n) == Cardinality({i \in 1..Len(raw) : CharacterAt(raw, i) <= n})

(* CRLF and CR become LF. *)
Normalize(raw) ==
  [k \in 1..Characters(raw) |->
     LET byte == raw[ByteOffset(raw, k - 1) + 1] IN IF byte = CR THEN LF ELSE byte]

LineEnding == {<<LF>>, <<CR>>, <<CR, LF>>}

(* The line ending that a file is taken to use. *)
DetectNewline(raw) ==
  LET has(b) == \E i \in 1..Len(raw) : raw[i] = b
      crlf   == \E i \in 2..Len(raw) : raw[i - 1] = CR /\ raw[i] = LF
  IN  IF crlf THEN <<CR, LF>> ELSE IF has(CR) /\ ~has(LF) THEN <<CR>> ELSE <<LF>>

(* Every LF of a normalised text written as the given line ending, which   *)
(* is one byte long or two: starts(k) is where character k begins.         *)
RestoreNewlines(text, newline) ==
  LET longer    == Len(newline) - 1
      starts(k) == k + longer * Cardinality({j \in 1..(k - 1) : text[j] = LF})
      which(i)  == Cardinality({k \in 1..Len(text) : starts(k) <= i})
  IN  [i \in 1..(starts(Len(text) + 1) - 1) |->
         IF text[which(i)] # LF THEN text[which(i)]
         ELSE IF i = starts(which(i)) THEN newline[1] ELSE newline[Len(newline)]]

(* Line and column, from 1, of the point that follows a prefix of a file.  *)
PositionAfter(prefix) ==
  LET text     == Normalize(prefix)
      newlines == {k \in 1..Len(text) : text[k] = LF}
      lastLine == {k \in 1..Len(text) : newlines \cap k..Len(text) = {}}
  IN  [line |-> Cardinality(newlines) + 1, column |-> Cardinality(lastLine) + 1]

Position == [line : Nat, column : Nat]
RegionType == [start_offset : Nat, end_offset : Nat, from : Position, to : Position]

Region(raw, start, end) ==
  [start_offset |-> start, end_offset |-> end,
   from |-> PositionAfter(SubSeq(raw, 1, start)),
   to   |-> PositionAfter(SubSeq(raw, 1, end))]

InRange(raw, start, end) == 0 <= start /\ start <= end /\ end <= Len(raw)

BytesAt(raw, region) == SubSeq(raw, region.start_offset + 1, region.end_offset)

(* Half-open intersection; an empty region is a point.                     *)
Intersects(r, s) ==
  IF r.start_offset = r.end_offset
    THEN s.start_offset <= r.start_offset /\ r.start_offset < s.end_offset
  ELSE IF s.start_offset = s.end_offset
    THEN r.start_offset <= s.start_offset /\ s.start_offset < r.end_offset
  ELSE r.start_offset < s.end_offset /\ s.start_offset < r.end_offset

(* The indexes of a text at which a string occurs. *)
Occurrences(text, string) ==
  {p \in 0..(Len(text) - Len(string)) : SubSeq(text, p + 1, p + Len(string)) = string}

FirstOf(indexes) == CHOOSE p \in indexes : \A q \in indexes : p <= q

(* The engine counts occurrences with str.count, from the left and without *)
(* overlap: the count is one when every other occurrence overlaps the first*)
CountIsOne(text, string) ==
  LET found == Occurrences(text, string)
  IN  /\ found # {}
      /\ \A p \in found : p = FirstOf(found) \/ p < FirstOf(found) + Len(string)

(* The region, in the bytes of the file, of the characters from index p to *)
(* index q of its normalised text.                                         *)
RegionInOriginal(raw, p, q) == Region(raw, ByteOffset(raw, p), ByteOffset(raw, q))

(* The bytes of a file with one region of it replaced. *)
Splice(raw, region, bytes) ==
  SubSeq(raw, 1, region.start_offset) \o bytes
    \o SubSeq(raw, region.end_offset + 1, Len(raw))
=============================================================================
