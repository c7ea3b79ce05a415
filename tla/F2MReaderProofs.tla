-------------------------- MODULE F2MReaderProofs ---------------------------
(***************************************************************************)
(* Proofs about F2MReader, for files of any length, buffers of any size    *)
(* and any record length.                                                  *)
(*                                                                         *)
(* TypeOK holds of every file.  The rest is about the files the comment in *)
(* f2m.c presumes.  ReadInv says of such a file, at each of the places     *)
(* write_member can be in, what the two buffers hold and what their spans  *)
(* are: before read_line the active one holds a chunk and its span ends    *)
(* where the last line passed on does (LastLineIn), before add_line the    *)
(* two spans together are the next line (LineIn), and the lines that begin *)
(* before it are the records so far (RecordsUpTo).                         *)
(***************************************************************************)
EXTENDS F2MReader, FiniteSetTheorems, SequenceTheorems, WellFoundedInduction, TLAPS

\* Arithmetic of size_t: what is in range is unchanged.
LEMMA Wraps ==
  /\ \A x \in Int : x % SizeT \in 0..SizeT - 1
  /\ \A x \in 0..SizeT - 1 : x % SizeT = x
BY ReaderAssumption, SMT

\* A set of naturals that is not empty has a least member, and Min is that.
LEMMA MinIsLeast ==
  ASSUME NEW S \in SUBSET Nat, S # {}
  PROVE  Min(S) \in S /\ \A y \in S : Min(S) <= y
<1>1. IsWellFoundedOn(OpToRel(<, Nat), Nat)
  BY NatLessThanWellFounded
<1>2. PICK k \in S : \A j \in S : ~ (<<j, k>> \in OpToRel(<, Nat))
  BY <1>1, WFMin
<1>3. ASSUME NEW j \in S PROVE k <= j
  <2>1. k \in Nat /\ j \in Nat
    OBVIOUS
  <2>2. ~ (j < k)
    BY <1>2, <2>1 DEF OpToRel
  <2> QED
    BY <2>1, <2>2
<1>4. \E x \in S : \A y \in S : x <= y
  BY <1>3
<1> QED
  BY <1>4 DEF Min

\* The file read is a sequence of bytes that are newlines or not.
LEMMA FileType == Init => file \in Seq({"nl", "ch"})
BY ReaderAssumption DEF Init

\* How much read() returns, and that it is in the buffer then.
LEMMA ReadTypes ==
  ASSUME NEW b \in Buffers, NEW pos \in 0..Len(file), Len(file) \in Nat
  PROVE  /\ Available(pos) \in 0..REC_LEN
         /\ pos + Available(pos) \in 0..Len(file)
         /\ Filled(b, pos) \in Buffers
<1>1. Available(pos) \in 0..REC_LEN /\ pos + Available(pos) \in 0..Len(file)
  BY ReaderAssumption DEF Available
<1>2. ASSUME NEW i \in 1..REC_LEN
      PROVE  (IF i <= Available(pos) THEN pos + i ELSE b.data[i]) \in 0..Len(file)
  BY <1>1, ReaderAssumption DEF Buffers
<1> QED
  BY <1>1, <1>2 DEF Filled, Buffers

\* Whatever a buffer holds, scan_buffer returns an offset in it or -1.
LEMMA ScanRange ==
  ASSUME NEW b \in Buffers
  PROVE  scan_buffer(b) \in -1..REC_LEN - 1
<1> DEFINE newlines == {i \in b.offset..(b.data_length - 1) : IsNewline(Byte(b, i))}
<1>1. b.offset \in Nat /\ b.data_length \in 0..REC_LEN
  BY ReaderAssumption DEF Buffers
<1>2. CASE newlines = {}
  BY <1>2, ReaderAssumption DEF scan_buffer
<1>3. CASE newlines # {}
  <2>1. newlines \in SUBSET Nat
    BY <1>1
  <2>2. Min(newlines) \in newlines
    BY <1>3, <2>1, MinIsLeast
  <2> QED
    BY <1>1, <1>3, <2>2, ReaderAssumption DEF scan_buffer
<1> QED
  BY <1>2, <1>3

\* get_record leaves buffers in which every field is in range.
LEMMA GetRecordTypes ==
  ASSUME TypeOK, NEW a \in Buffers, NEW pos \in 0..Len(file), file' = file, Len(file) \in Nat,
         get_record(a, pos)
  PROVE  TypeOK'
<1>1. inactive \in Buffers
  BY DEF TypeOK
<1> DEFINE next == [Filled(inactive, pos) EXCEPT !.offset = 0]
<1>2. next \in Buffers
  <2>1. Filled(inactive, pos) \in Buffers
    BY <1>1, ReadTypes
  <2>2. 0 \in 0..SizeT - 1
    BY ReaderAssumption
  <2> QED
    BY <2>1, <2>2 DEF Buffers
<1>3. a.offset \in 0..SizeT - 1 /\ a.data_length \in 0..REC_LEN /\ next.data_length \in 0..REC_LEN
  BY <1>2 DEF Buffers
<1>4. scan_buffer(a) \in -1..REC_LEN - 1 /\ scan_buffer(next) \in -1..REC_LEN - 1
  BY <1>2, ScanRange
<1>5. LineEnd(next) \in 0..SizeT - 1
  BY SMTT(20), <1>3, <1>4, ReaderAssumption DEF LineEnd
<1>6. scan_buffer(a) >= 0 => scan_buffer(a) - a.offset \in 0..SizeT - 1
  <2> DEFINE newlines == {i \in a.offset..(a.data_length - 1) : IsNewline(Byte(a, i))}
  <2>1. newlines \in SUBSET Nat
    BY <1>3
  <2>2. newlines # {} => Min(newlines) \in newlines
    BY <2>1, MinIsLeast
  <2>3. scan_buffer(a) = IF newlines = {} THEN -1 ELSE Min(newlines)
    BY DEF scan_buffer
  <2>4. ASSUME scan_buffer(a) >= 0 PROVE scan_buffer(a) \in newlines
    BY <2>2, <2>3, <2>4
  <2>5. ASSUME scan_buffer(a) >= 0 PROVE scan_buffer(a) >= a.offset
    BY <2>4, <2>5
  <2>6. REC_LEN \in Nat /\ SizeT \in Nat /\ REC_LEN < SizeT
    BY ReaderAssumption
  <2>7. ASSUME NEW s \in -1..REC_LEN - 1, NEW o \in 0..SizeT - 1, s >= o
        PROVE  s - o \in 0..SizeT - 1
    BY <2>6, <2>7
  <2>8. a.offset \in 0..SizeT - 1 /\ scan_buffer(a) \in -1..REC_LEN - 1
    BY <1>3, <1>4
  <2> QED
    BY <2>5, <2>7, <2>8, Zenon
<1>7. (a.data_length - a.offset) % SizeT \in 0..SizeT - 1
  <2>1. a.data_length - a.offset \in Int
    BY <1>3, ReaderAssumption
  <2> QED
    BY <2>1, Wraps
<1>8. 0 \in 0..SizeT - 1
  BY ReaderAssumption
<1>9. pos + Available(pos) \in 0..Len(file)
  BY <1>1, ReadTypes
<1>10. Buffers' = Buffers
  BY DEF Buffers
<1> HIDE DEF next
<1>11. CASE scan_buffer(a) >= 0
  <2>1. /\ active' = [a EXCEPT !.length = scan_buffer(a) - a.offset]
        /\ inactive' = [inactive EXCEPT !.offset = 0, !.length = 0]
        /\ consumed' = pos
        /\ pc' = "add_line"
    BY <1>11 DEF get_record
  <2>2. active' \in Buffers
    BY <1>6, <1>11, <2>1 DEF Buffers
  <2>3. inactive' \in Buffers
    BY <1>1, <1>8, <2>1 DEF Buffers
  <2> QED
    BY <1>10, <2>1, <2>2, <2>3 DEF TypeOK
<1>12. CASE ~ (scan_buffer(a) >= 0)
  <2>1. /\ active' = [a EXCEPT !.length = (a.data_length - a.offset) % SizeT]
        /\ inactive' = [next EXCEPT !.length = LineEnd(next)]
        /\ consumed' = pos + Available(pos)
        /\ pc' \in {"done", "add_line"}
    BY <1>12 DEF get_record, next
  <2>2. active' \in Buffers
    BY <1>7, <2>1 DEF Buffers
  <2>3. inactive' \in Buffers
    BY <1>2, <1>5, <2>1 DEF Buffers
  <2> QED
    BY <1>9, <1>10, <2>1, <2>2, <2>3 DEF TypeOK
<1> QED
  BY <1>11, <1>12

\* The types and that of the file, which TypeOK does not speak of.
ReaderTyped == TypeOK /\ file \in Seq({"nl", "ch"})

\* Types at the beginning.
LEMMA InitTyped == Init => ReaderTyped
<1> SUFFICES ASSUME Init PROVE ReaderTyped
  OBVIOUS
<1>1. file \in Seq({"nl", "ch"}) /\ Len(file) \in Nat
  BY FileType
<1>2. EmptyBuffer \in Buffers
  BY <1>1, ReaderAssumption DEF EmptyBuffer, Buffers
<1> QED
  BY <1>1, <1>2, ReaderAssumption DEF Init, TypeOK, ReaderTyped

\* No step breaks them.
LEMMA StepTyped == ReaderTyped /\ [Next]_vars => ReaderTyped'
<1> SUFFICES ASSUME ReaderTyped, [Next]_vars PROVE ReaderTyped'
  OBVIOUS
<1>1. TypeOK /\ file \in Seq({"nl", "ch"}) /\ Len(file) \in Nat
  BY DEF ReaderTyped
<1>2. file' = file
  BY DEF Next, vars, ReadFirstChunk, ReadNothing, ReadNext, add_line
<1>3. active \in Buffers /\ inactive \in Buffers /\ consumed \in 0..Len(file) /\ Buffers' = Buffers
  BY <1>1, <1>2 DEF TypeOK, Buffers
<1>4. CASE ReadFirstChunk
  <2>1. Filled(active, consumed) \in Buffers /\ consumed + Available(consumed) \in 0..Len(file)
    BY <1>1, <1>3, ReadTypes
  <2>2. get_record(Filled(active, consumed), consumed + Available(consumed))
    BY <1>4 DEF ReadFirstChunk
  <2> QED
    BY <1>1, <1>2, <2>1, <2>2, GetRecordTypes DEF ReaderTyped
<1>5. CASE ReadNothing
  BY <1>1, <1>2, <1>3, <1>5 DEF ReadNothing, TypeOK, ReaderTyped
<1>6. CASE ReadNext
  <2> DEFINE a == [active EXCEPT !.offset = (@ + active.length + 1) % SizeT]
  <2>1. active.offset + active.length + 1 \in Int
    BY SMTT(20), <1>3, ReaderAssumption DEF Buffers
  <2>2. a \in Buffers
    BY <1>3, <2>1, Wraps DEF Buffers
  <2>3. get_record(a, consumed)
    BY <1>6 DEF ReadNext
  <2> QED
    BY <1>1, <1>2, <1>3, <2>2, <2>3, GetRecordTypes DEF ReaderTyped
<1>7. CASE add_line
  <2>1. /\ active' \in {active, inactive}
        /\ inactive' \in {inactive, [inactive EXCEPT !.data = active.data, !.offset = 0, !.length = 0]}
        /\ consumed' = consumed /\ pc' = "read_line"
    BY <1>7 DEF add_line
  <2>2. [inactive EXCEPT !.data = active.data, !.offset = 0, !.length = 0] \in Buffers
    <3>1. 0 \in 0..SizeT - 1 /\ active.data \in [1..REC_LEN -> 0..Len(file)]
      BY <1>3, ReaderAssumption DEF Buffers
    <3> QED
      BY <1>3, <3>1 DEF Buffers
  <2> QED
    BY <1>1, <1>2, <1>3, <2>1, <2>2 DEF TypeOK, ReaderTyped
<1>8. CASE UNCHANGED vars
  BY <1>1, <1>8 DEF vars, TypeOK, Buffers, ReaderTyped
<1> QED
  BY <1>4, <1>5, <1>6, <1>7, <1>8 DEF Next

\* Whatever file is read, in chunks of whatever size: no more is read than there is room
\* for, and no offset or length leaves size_t (f2m.c:99-185).
THEOREM ReaderTypes == Spec => []TypeOK
<1>1. ReaderTyped => TypeOK
  BY DEF ReaderTyped
<1> QED
  BY <1>1, InitTyped, StepTyped, PTL DEF Spec

-----------------------------------------------------------------------------
(* What the buffers hold                                                   *)

\* The buffer b holds the bytes of the file that follow the first c.
Holds(b, c) ==
  /\ b.data_length = Available(c)
  /\ \A i \in 1..b.data_length : b.data[i] = c + i

\* A chunk of the file begins behind its first c bytes.
IsChunk(c) == c < Len(file) /\ \E k \in Nat : c = k * REC_LEN

\* None of the bytes from s to l is a newline.
NoNewline(s, l) == \A i \in s..l : i \notin NewlinesAt

\* After byte l a line ends: with a newline, or with the file.
EndsAt(l) == l + 1 \in NewlinesAt \/ l = Len(file)

\* The lines that begin before byte p are the records passed on so far.
RecordsUpTo(p) ==
  /\ lines \in Seq(Seq(Int))
  /\ Len(lines) = Cardinality({r \in LineStarts : r < p})
  /\ \A k \in 1..Len(lines) : lines[k] = Records[k]

SpanEnd(b) == b.offset + b.length

\* Before read_line: the active buffer holds the chunk behind byte c, and its span ends
\* where the line passed on last does.
LastLineIn(c, a, pos) ==
  /\ IsChunk(c) /\ Holds(a, c)
  /\ pos = c + a.data_length
  /\ SpanEnd(a) \in 1..a.data_length
  /\ EndsAt(c + SpanEnd(a))
  /\ RecordsUpTo(c + SpanEnd(a) + 2)

\* Before add_line: the spans of the two buffers are the line that begins in the active
\* one, in the chunk behind byte c or just after it.
LineIn(c, a, b, pos) ==
  /\ IsChunk(c) /\ Holds(a, c)
  /\ SpanEnd(a) \in 1..a.data_length
  /\ c + a.offset + 1 \in LineStarts
  /\ NoNewline(c + a.offset + 1, c + SpanEnd(a) + b.length)
  /\ EndsAt(c + SpanEnd(a) + b.length)
  /\ RecordsUpTo(c + a.offset + 1)
  /\ b.offset = 0
  /\ b.length <= b.data_length
  /\ b.length = 0 => pos = c + a.data_length
  /\ b.length # 0 =>
       /\ SpanEnd(a) = a.data_length
       /\ IsChunk(c + a.data_length) /\ Holds(b, c + a.data_length)
       /\ pos = c + a.data_length + b.data_length

\* Where write_member can be, and what it has then.
ReadInv ==
  PresumedText =>
    \/ /\ pc = "read_line" /\ BufferIsEmpty
       /\ consumed = 0 /\ lines = <<>>
    \/ pc = "read_line" /\ \E c \in 0..Len(file) : LastLineIn(c, active, consumed)
    \/ pc = "add_line" /\ \E c \in 0..Len(file) : LineIn(c, active, inactive, consumed)
    \/ pc = "done" /\ file = <<>> /\ lines = <<>>
    \/ pc = "done" /\ RecordsUpTo(Len(file) + 2)

-----------------------------------------------------------------------------
(* Lines of a file                                                         *)

\* Lines begin in the file or just after it; there are finitely many.
LEMMA StartsInFile ==
  ASSUME Len(file) \in Nat
  PROVE  /\ NewlinesAt \subseteq 1..Len(file)
         /\ LineStarts \subseteq 1..Len(file) + 1
         /\ 1 \in LineStarts
         /\ IsFiniteSet(LineStarts) /\ Cardinality(LineStarts) \in Nat
<1>1. NewlinesAt \subseteq 1..Len(file)
  BY DEF NewlinesAt
<1>2. LineStarts \subseteq 1..Len(file) + 1 /\ 1 \in LineStarts
  BY <1>1 DEF LineStarts
<1>3. IsFiniteSet(1..Len(file) + 1)
  BY FS_Interval
<1>4. IsFiniteSet(LineStarts)
  BY <1>2, <1>3, FS_Subset
<1> QED
  BY <1>1, <1>2, <1>4, FS_CardinalityType

\* The line from s, when it is known where it ends.
LEMMA LineIs ==
  ASSUME Len(file) \in Nat, NEW s \in Nat \ {0}, NEW l \in s - 1..Len(file),
         NoNewline(s, l), EndsAt(l)
  PROVE  LineFrom(s) = [i \in 1..(l - s + 1) |-> s + i - 1]
<1> DEFINE ends == {e \in NewlinesAt : e >= s}
           last == IF ends = {} THEN Len(file) ELSE Min(ends) - 1
<1>1. NewlinesAt \subseteq 1..Len(file)
  BY StartsInFile
<1>2. \A e \in ends : e \in Nat /\ e >= l + 1
  BY <1>1 DEF NoNewline
<1>3. last = l
  <2>1. CASE l + 1 \in NewlinesAt
    <3>1. l + 1 \in ends
      BY <2>1
    <3>2. Min(ends) \in ends /\ Min(ends) <= l + 1
      <4>1. ends \in SUBSET Nat /\ ends # {}
        BY <1>2, <3>1
      <4> HIDE DEF ends
      <4> QED
        BY <3>1, <4>1, MinIsLeast
    <3>3. Min(ends) \in Nat /\ Min(ends) >= l + 1
      BY <1>2, <3>2
    <3> HIDE DEF ends
    <3> QED
      BY <3>1, <3>2, <3>3
  <2>2. CASE l + 1 \notin NewlinesAt
    <3>1. l = Len(file)
      BY <2>2 DEF EndsAt
    <3>2. ASSUME NEW e \in ends PROVE FALSE
      <4>1. e \in 1..Len(file)
        BY <1>1
      <4> HIDE DEF ends
      <4> QED
        BY <1>2, <3>1, <3>2, <4>1
    <3>3. ends = {}
      BY <3>2
    <3> HIDE DEF ends
    <3> QED
      BY <3>1, <3>3
  <2> QED
    BY <2>1, <2>2
<1> HIDE DEF last
<1>4. LineFrom(s) = [i \in 1..(last - s + 1) |-> s + i - 1]
  BY DEF LineFrom, last
<1> QED
  BY <1>3, <1>4

\* Two lines do not have the same number of lines before them.
LEMMA StartIs ==
  ASSUME Len(file) \in Nat, NEW s \in LineStarts
  PROVE  Start(Cardinality({r \in LineStarts : r < s}) + 1) = s
<1> DEFINE Earlier(t) == {r \in LineStarts : r < t}
           k == Cardinality(Earlier(s)) + 1
<1>1. LineStarts \subseteq Nat /\ IsFiniteSet(LineStarts)
  BY StartsInFile
<1>2. \A t \in LineStarts : IsFiniteSet(Earlier(t)) /\ Cardinality(Earlier(t)) \in Nat
  <2>1. \A t : Earlier(t) \subseteq LineStarts
    OBVIOUS
  <2> HIDE DEF Earlier
  <2> QED
    BY <1>1, <2>1, FS_Subset, FS_CardinalityType
<1>3. ASSUME NEW t \in LineStarts, NEW u \in LineStarts, t < u
      PROVE  Cardinality(Earlier(t)) < Cardinality(Earlier(u))
  <2>1. Earlier(t) \cup {t} \subseteq Earlier(u) /\ t \notin Earlier(t)
    <3>1. \A r \in LineStarts : r < t => r < u
      BY <1>1, <1>3
    <3>2. ~ (t < t)
      BY <1>1
    <3> QED
      BY <1>3, <3>1, <3>2, Zenon
  <2> HIDE DEF Earlier
  <2>2. Cardinality(Earlier(t) \cup {t}) = Cardinality(Earlier(t)) + 1
    BY <1>2, <2>1, FS_AddElement
  <2>3. Cardinality(Earlier(t) \cup {t}) <= Cardinality(Earlier(u))
    BY <1>2, <2>1, FS_Subset
  <2> QED
    BY <1>2, <2>2, <2>3
<1>4. Start(k) = CHOOSE t \in LineStarts : Cardinality(Earlier(t)) = k - 1
  BY DEF Start
<1> HIDE DEF Earlier
<1>5. Cardinality(Earlier(s)) = k - 1
  BY <1>2
<1> HIDE DEF k
<1>6. Start(k) \in LineStarts /\ Cardinality(Earlier(Start(k))) = k - 1
  BY <1>4, <1>5
<1>7. ASSUME NEW t \in LineStarts, Cardinality(Earlier(t)) = k - 1
      PROVE  t = s
  <2>1. ~ (t < s) /\ ~ (s < t)
    <3> DEFINE a == Cardinality(Earlier(t))
               b == Cardinality(Earlier(s))
    <3>1. (t < s => a < b) /\ (s < t => b < a)
      BY <1>3
    <3>2. a = b /\ a \in Nat
      BY <1>2, <1>5, <1>7
    <3> HIDE DEF a, b
    <3> QED
      BY <3>1, <3>2
  <2>2. t \in Nat /\ s \in Nat
    BY <1>1
  <2> QED
    BY <2>1, <2>2
<1>8. Start(k) = s
  BY <1>6, <1>7
<1> QED
  BY <1>8 DEF k, Earlier

\* Passing the line from s to l on as a record leads to the line after it.
LEMMA LinePassed ==
  ASSUME file \in Seq({"nl", "ch"}), NEW s \in LineStarts, NEW l \in s - 1..Len(file),
         NoNewline(s, l), EndsAt(l), RecordsUpTo(s),
         lines' = Append(lines, Cut([i \in 1..(l - s + 1) |-> s + i - 1])), file' = file
  PROVE  RecordsUpTo(l + 2)'
<1> DEFINE Earlier(t) == {r \in LineStarts : r < t}
           n == Cardinality(Earlier(s))
           line == [i \in 1..(l - s + 1) |-> s + i - 1]
<1>1. Len(file) \in Nat
  OBVIOUS
<1>2. /\ NewlinesAt \subseteq 1..Len(file) /\ LineStarts \subseteq 1..Len(file) + 1
      /\ IsFiniteSet(LineStarts) /\ Cardinality(LineStarts) \in Nat
  BY <1>1, StartsInFile
<1>3. s \in Nat \ {0} /\ l \in Nat
  BY <1>1, <1>2
<1>4. Earlier(l + 2) = Earlier(s) \cup {s}
  <2>1. ASSUME NEW r \in LineStarts, r < l + 2
        PROVE  r <= s
    <3>1. CASE r = 1
      BY <1>3, <3>1
    <3>2. CASE r # 1
      <4>1. PICK i \in NewlinesAt : r = i + 1
        BY <3>2 DEF LineStarts
      <4>2. i \in Nat /\ ~ (i \in s..l)
        BY <1>2, <4>1 DEF NoNewline
      <4> QED
        BY <1>3, <2>1, <4>1, <4>2
    <3> QED
      BY <3>1, <3>2
  <2>2. \A r \in LineStarts : r \in Nat
    BY <1>2
  <2>3. s < l + 2
    BY <1>1, <1>3
  <2>4. \A r \in LineStarts : r < l + 2 <=> (r < s \/ r = s)
    BY <1>3, <2>1, <2>2, <2>3
  <2> QED
    BY <2>4, Zenon
<1>5. Earlier(s) \subseteq LineStarts /\ s \notin Earlier(s) /\ Earlier(l + 2) \subseteq LineStarts
  BY <1>3
<1>6. Start(n + 1) = s
  BY <1>1, StartIs
<1>7. LineFrom(s) = line
  BY <1>1, <1>3, LineIs
<1>8. lines \in Seq(Seq(Int)) /\ Len(lines) = n /\ \A k \in 1..Len(lines) : lines[k] = Records[k]
  BY DEF RecordsUpTo
<1> HIDE DEF Earlier, line
<1>9. /\ n \in Nat /\ Cardinality(Earlier(l + 2)) = n + 1
      /\ n + 1 <= Cardinality(LineStarts)
  <2>1. IsFiniteSet(Earlier(s)) /\ n \in Nat
    BY <1>2, <1>5, FS_Subset, FS_CardinalityType
  <2>2. Cardinality(Earlier(l + 2)) = n + 1
    BY <1>4, <1>5, <2>1, FS_AddElement
  <2>3. Cardinality(Earlier(l + 2)) <= Cardinality(LineStarts)
    BY <1>2, <1>5, FS_Subset
  <2> QED
    BY <2>1, <2>2, <2>3
<1> HIDE DEF n
<1>10. Records[n + 1] = Cut(line)
  <2>1. n + 1 \in 1..Cardinality(LineStarts)
    BY <1>2, <1>9
  <2>2. Records[n + 1] = Cut(LineFrom(Start(n + 1)))
    BY <2>1 DEF Records
  <2> QED
    BY <1>6, <1>7, <2>2
<1>11. lines' \in Seq(Seq(Int)) /\ Len(lines') = n + 1 /\ \A k \in 1..n + 1 : lines'[k] = Records[k]
  <2>1. lines' = Append(lines, Cut(line)) /\ Cut(line) \in Seq(Int)
    <3>1. l - s + 1 \in Nat
      BY <1>1, <1>3
    <3>2. line \in Seq(Int) /\ Len(line) = l - s + 1
      BY <1>3, <3>1 DEF line
    <3>3. Cut(line) \in Seq(Int)
      <4> DEFINE m == IF Len(line) > MaxBytes THEN MaxBytes ELSE Len(line)
      <4>1. m \in Nat /\ m <= Len(line)
        BY <3>1, <3>2, ReaderAssumption
      <4> HIDE DEF m
      <4>2. SubSeq(line, 1, m) \in Seq(Int)
        BY <3>2, <4>1
      <4> QED
        BY <4>2 DEF Cut, m
    <3> QED
      BY <3>3 DEF line
  <2>2. /\ Len(lines') = Len(lines) + 1 /\ lines'[Len(lines) + 1] = Cut(line)
        /\ \A k \in 1..Len(lines) : lines'[k] = lines[k]
        /\ lines' \in Seq(Seq(Int))
    <3> DEFINE S == Seq(Int)
    <3>1. Cut(line) \in S /\ lines \in Seq(S)
      BY <1>8, <2>1
    <3> HIDE DEF S
    <3>2. /\ Len(lines') = Len(lines) + 1 /\ lines'[Len(lines) + 1] = Cut(line)
          /\ \A k \in 1..Len(lines) : lines'[k] = lines[k]
          /\ lines' \in Seq(S)
      BY <2>1, <3>1
    <3> QED
      BY <3>2 DEF S
  <2>3. ASSUME NEW k \in 1..n + 1 PROVE lines'[k] = Records[k]
    <3>1. k \in 1..n \/ k = n + 1
      BY <1>9
    <3> QED
      BY <1>8, <1>10, <2>2, <3>1
  <2>4. Len(lines') = n + 1
    BY <1>8, <2>2
  <2>5. lines' \in Seq(Seq(Int))
    BY <2>2
  <2>6. \A k \in 1..n + 1 : lines'[k] = Records[k]
    BY <2>3
  <2> QED
    BY <2>4, <2>5, <2>6
<1>12. LineStarts' = LineStarts /\ Records' = Records
  BY DEF Records, LineStarts, NewlinesAt, Start, LineFrom, Cut
<1>13. Cardinality({r \in LineStarts : r < l + 2}) = n + 1
  BY <1>9 DEF Earlier
<1>14. Len(lines') = Cardinality({r \in LineStarts' : r < l + 2})
  BY <1>11, <1>12, <1>13
<1>15. \A k \in 1..Len(lines') : lines'[k] = Records'[k]
  BY <1>11, <1>12
<1> QED
  BY <1>11, <1>14, <1>15 DEF RecordsUpTo

-----------------------------------------------------------------------------
(* Chunks                                                                  *)

\* A chunk that the file goes on after is full, and the next one follows it.
LEMMA NextChunk ==
  ASSUME Len(file) \in Nat, NEW c \in Nat, IsChunk(c), c + Available(c) < Len(file)
  PROVE  Available(c) = REC_LEN /\ IsChunk(c + REC_LEN)
<1>1. REC_LEN \in Nat /\ REC_LEN > 0
  BY ReaderAssumption
<1>2. Available(c) = REC_LEN
  BY <1>1 DEF Available
<1>3. PICK k \in Nat : c = k * REC_LEN
  BY DEF IsChunk
<1>4. k + 1 \in Nat /\ c + REC_LEN = (k + 1) * REC_LEN
  BY <1>1, <1>3
<1> QED
  BY <1>2, <1>4 DEF IsChunk

\* What the files presumed have in each chunk.
LEMMA PresumedChunks ==
  ASSUME Len(file) \in Nat, PresumedText, NEW c \in Nat, IsChunk(c)
  PROVE  /\ c + 1 \notin NewlinesAt
         /\ c > 0 /\ c + Available(c) < Len(file) =>
              \E i \in c + 1..c + Available(c) : i \in NewlinesAt
<1>1. REC_LEN \in Nat /\ REC_LEN > 0
  BY ReaderAssumption
<1>2. PICK k \in Nat : c = k * REC_LEN
  BY DEF IsChunk
<1>3. (k + 1) * REC_LEN = c + REC_LEN
  BY <1>1, <1>2
<1>4. Chunk(k) = c + 1..c + Available(c)
  <2>1. Chunk(k) = c + 1..(IF c + REC_LEN < Len(file) THEN c + REC_LEN ELSE Len(file))
    BY <1>2, <1>3, Zenon DEF Chunk
  <2>2. (IF c + REC_LEN < Len(file) THEN c + REC_LEN ELSE Len(file)) = c + Available(c)
    BY <1>1 DEF Available
  <2> QED
    BY <2>1, <2>2, Zenon
<1>5. k \in Chunks
  <2>1. k <= c
    BY <1>1, <1>2
  <2>2. c < Len(file) /\ k \in 0..Len(file)
    BY <2>1 DEF IsChunk
  <2>3. c + 1 \in Chunk(k)
    BY <1>1, <1>4, <2>2 DEF Available
  <2> QED
    BY <2>2, <2>3 DEF Chunks
<1>6. c + 1 \notin NewlinesAt
  BY <1>2, <1>5 DEF PresumedText, StartsWithNewline, NewlinesAt
<1>7. ASSUME c > 0, c + Available(c) < Len(file)
      PROVE  \E i \in c + 1..c + Available(c) : i \in NewlinesAt
  <2>1. Available(c) = REC_LEN
    BY <1>7, NextChunk
  <2>2. k + 1 \in Chunks
    <3>1. (k + 1) * REC_LEN + 1 \in Chunk(k + 1)
      <4>1. (k + 1 + 1) * REC_LEN = c + REC_LEN + REC_LEN
        BY <1>1, <1>2
      <4> QED
        BY <1>1, <1>3, <1>7, <2>1, <4>1 DEF Chunk
    <3>2. k + 1 <= Len(file)
      <4>1. k + 1 <= (k + 1) * REC_LEN
        BY <1>1
      <4> QED
        BY <1>1, <1>3, <1>7, <2>1, <4>1
    <3> QED
      BY <3>1, <3>2 DEF Chunks
  <2>3. k > 0
    BY <1>1, <1>2, <1>7
  <2>4. HasNewline(k)
    BY <1>5, <2>2, <2>3 DEF PresumedText
  <2>5. PICK i \in Chunk(k) : file[i] = "nl"
    BY <2>4 DEF HasNewline
  <2>6. i \in c + 1..c + Available(c)
    BY <1>4, <2>5
  <2>7. i \in 1..Len(file)
    BY <1>1, <1>7, <2>1, <2>6
  <2> QED
    BY <2>5, <2>6, <2>7 DEF NewlinesAt
<1> QED
  BY <1>6, <1>7

\* What scan_buffer finds in a buffer that holds the chunk behind byte c.
LEMMA ScanFinds ==
  ASSUME Len(file) \in Nat, NEW b \in Buffers, NEW c \in 0..Len(file), Holds(b, c)
  PROVE  \/ /\ scan_buffer(b) = -1
            /\ NoNewline(c + b.offset + 1, c + b.data_length)
         \/ /\ scan_buffer(b) \in b.offset..b.data_length - 1
            /\ c + scan_buffer(b) + 1 \in NewlinesAt
            /\ NoNewline(c + b.offset + 1, c + scan_buffer(b))
<1> DEFINE newlines == {i \in b.offset..(b.data_length - 1) : IsNewline(Byte(b, i))}
<1>1. b.offset \in Nat /\ b.data_length \in 0..REC_LEN
  BY ReaderAssumption DEF Buffers
<1>2. c + b.data_length <= Len(file)
  BY ReaderAssumption DEF Holds, Available
<1>3. ASSUME NEW i \in b.offset..(b.data_length - 1)
      PROVE  IsNewline(Byte(b, i)) <=> c + i + 1 \in NewlinesAt
  <2>1. i + 1 \in 1..b.data_length /\ i < REC_LEN
    BY <1>1, ReaderAssumption
  <2>2. b.data[i + 1] = c + (i + 1)
    BY <2>1 DEF Holds
  <2>3. Byte(b, i) = c + i + 1
    BY <1>1, <2>1, <2>2 DEF Byte
  <2> QED
    BY <2>3 DEF IsNewline, NewlinesAt
<1>4. scan_buffer(b) = IF newlines = {} THEN -1 ELSE Min(newlines)
  BY DEF scan_buffer
<1>5. newlines \in SUBSET Nat
  BY <1>1
<1>6. CASE newlines = {}
  <2>1. ASSUME NEW j \in c + b.offset + 1..c + b.data_length, j \in NewlinesAt
        PROVE  FALSE
    <3>1. j - c - 1 \in b.offset..(b.data_length - 1) /\ c + (j - c - 1) + 1 = j
      BY <1>1
    <3>2. j - c - 1 \in newlines
      BY <1>3, <2>1, <3>1
    <3> QED
      BY <1>6, <3>2
  <2> QED
    BY <1>4, <1>6, <2>1 DEF NoNewline
<1>7. CASE newlines # {}
  <2>1. Min(newlines) \in newlines /\ \A y \in newlines : Min(newlines) <= y
    <3> HIDE DEF newlines
    <3> QED
      BY <1>5, <1>7, MinIsLeast
  <2> DEFINE n == Min(newlines)
  <2>2. n \in b.offset..(b.data_length - 1) /\ c + n + 1 \in NewlinesAt
    BY <1>3, <2>1
  <2>3. ASSUME NEW j \in c + b.offset + 1..c + n, j \in NewlinesAt
        PROVE  FALSE
    <3>1. n \in Int
      BY <1>1, <2>2
    <3>2. /\ j - c - 1 \in b.offset..(b.data_length - 1) /\ c + (j - c - 1) + 1 = j
          /\ j - c - 1 < n
      <4> HIDE DEF n
      <4> QED
        BY <1>1, <2>2, <3>1
    <3>3. j - c - 1 \in newlines
      BY <1>3, <2>3, <3>2
    <3> QED
      BY <2>1, <3>1, <3>2, <3>3
  <2> QED
    BY <1>4, <1>7, <2>2, <2>3 DEF NoNewline
<1> QED
  BY <1>6, <1>7

\* read() leaves the next bytes of the file in a buffer.
LEMMA FilledHolds ==
  ASSUME Len(file) \in Nat, NEW b \in Buffers, NEW c \in 0..Len(file), NEW b2 \in Buffers,
         b2.data = Filled(b, c).data, b2.data_length = Filled(b, c).data_length
  PROVE  Holds(b2, c)
<1>1. Available(c) \in 0..REC_LEN
  BY ReadTypes
<1>2. \A i \in 1..Available(c) : i \in 1..REC_LEN
  BY <1>1, ReaderAssumption
<1>3. b2.data_length = Available(c)
      /\ b2.data = [i \in 1..REC_LEN |-> IF i <= Available(c) THEN c + i ELSE b.data[i]]
  BY DEF Filled, Buffers
<1>4. \A i \in 1..Available(c) : b2.data[i] = c + i
  BY <1>1, <1>2, <1>3
<1> QED
  BY <1>3, <1>4 DEF Holds

-----------------------------------------------------------------------------
(* read_line                                                               *)

\* The file does not change, nor does what is said of it alone.
LEMMA FileKept ==
  ASSUME file' = file
  PROVE  /\ PresumedText' = PresumedText
         /\ LineStarts' = LineStarts /\ NewlinesAt' = NewlinesAt /\ Records' = Records
         /\ lines' = lines => \A p : RecordsUpTo(p)' = RecordsUpTo(p)
         /\ \A c, a, pos : lines' = lines => LastLineIn(c, a, pos)' = LastLineIn(c, a, pos)
         /\ \A c, a, b, pos : lines' = lines => LineIn(c, a, b, pos)' = LineIn(c, a, b, pos)
<1>1. PresumedText' = PresumedText
  BY DEF PresumedText, Chunks, Chunk, StartsWithNewline, HasNewline
<1>2. LineStarts' = LineStarts /\ NewlinesAt' = NewlinesAt /\ Records' = Records
  BY DEF Records, LineStarts, NewlinesAt, Start, LineFrom, Cut
<1>3. ASSUME lines' = lines, NEW p PROVE RecordsUpTo(p)' = RecordsUpTo(p)
  BY <1>2, <1>3 DEF RecordsUpTo
<1>4. \A c : IsChunk(c)' = IsChunk(c)
  BY DEF IsChunk
<1>5. \A b, c : Holds(b, c)' = Holds(b, c)
  BY DEF Holds, Available
<1>6. \A s, l : NoNewline(s, l)' = NoNewline(s, l) /\ EndsAt(l)' = EndsAt(l)
  BY <1>2 DEF NoNewline, EndsAt
<1>7. ASSUME lines' = lines, NEW c, NEW a, NEW pos
      PROVE  LastLineIn(c, a, pos)' = LastLineIn(c, a, pos)
  BY <1>3, <1>4, <1>5, <1>6, <1>7, Zenon DEF LastLineIn, SpanEnd
<1>8. ASSUME lines' = lines, NEW c, NEW a, NEW b, NEW pos
      PROVE  LineIn(c, a, b, pos)' = LineIn(c, a, b, pos)
  BY <1>2, <1>3, <1>4, <1>5, <1>6, <1>8, Zenon DEF LineIn, SpanEnd
<1> QED
  BY <1>1, <1>2, <1>3, <1>7, <1>8, Zenon

\* get_record finds the end of the line that begins in the buffer a, or just behind it.
LEMMA GetRecordFinds ==
  ASSUME TypeOK, Len(file) \in Nat, PresumedText,
         NEW a \in Buffers, NEW c \in 0..Len(file), NEW pos \in 0..Len(file),
         IsChunk(c), Holds(a, c), pos = c + a.data_length, a.offset <= a.data_length,
         c + a.offset + 1 \in LineStarts, RecordsUpTo(c + a.offset + 1), get_record(a, pos)
  PROVE  pc' = "add_line" /\ LineIn(c, active', inactive', consumed')
<1>1. a.offset \in Nat /\ a.data_length \in 1..REC_LEN /\ c \in Nat /\ a.data_length < SizeT
  BY ReaderAssumption DEF Buffers, Holds, IsChunk, Available
<1>2. c + 1 \notin NewlinesAt
  BY PresumedChunks
<1>3. inactive \in Buffers /\ inactive.data_length \in Nat
  <2>1. inactive \in Buffers
    BY DEF TypeOK
  <2> QED
    BY SMTT(20), <2>1, ReaderAssumption DEF Buffers
<1>4. CASE scan_buffer(a) >= 0
  <2> DEFINE e == scan_buffer(a)
  <2>1. e \in a.offset..a.data_length - 1 /\ c + e + 1 \in NewlinesAt
        /\ NoNewline(c + a.offset + 1, c + e)
    BY <1>4, ScanFinds
  <2>2. /\ active' = [a EXCEPT !.length = e - a.offset]
        /\ inactive' = [inactive EXCEPT !.offset = 0, !.length = 0]
        /\ consumed' = pos
        /\ pc' = "add_line"
    BY <1>4 DEF get_record
  <2>3. e # 0
    BY <1>1, <1>2, <2>1
  <2> HIDE DEF e
  <2>4. active'.offset = a.offset /\ active'.length = e - a.offset
        /\ active'.data = a.data /\ active'.data_length = a.data_length
    BY <2>2 DEF Buffers
  <2>5. inactive'.offset = 0 /\ inactive'.length = 0 /\ inactive'.data_length = inactive.data_length
    BY <1>3, <2>2 DEF Buffers
  <2>6. SpanEnd(active') = e /\ e \in 1..a.data_length /\ c + e + 0 = c + e
    BY SMTT(20), <1>1, <2>1, <2>3, <2>4 DEF SpanEnd
  <2>7. Holds(active', c)
    BY <2>4 DEF Holds
  <2>8. EndsAt(c + e)
    BY <2>1 DEF EndsAt
  <2> QED
    BY <1>3, <2>1, <2>2, <2>4, <2>5, <2>6, <2>7, <2>8 DEF LineIn
<1>5. CASE ~ (scan_buffer(a) >= 0)
  <2> DEFINE next == [Filled(inactive, pos) EXCEPT !.offset = 0]
             n == LineEnd(next)
  <2>1. NoNewline(c + a.offset + 1, pos)
    BY <1>1, <1>5, ScanFinds
  <2>2. /\ active' = [a EXCEPT !.length = (a.data_length - a.offset) % SizeT]
        /\ inactive' = [next EXCEPT !.length = n]
        /\ consumed' = pos + Available(pos)
        /\ pc' = "add_line"
    BY <1>1, <1>5 DEF get_record
  <2>3. (a.data_length - a.offset) % SizeT = a.data_length - a.offset
    <3>1. a.data_length - a.offset \in 0..SizeT - 1
      BY <1>1, ReaderAssumption
    <3> QED
      BY <3>1, Wraps
  <2>4. Filled(inactive, pos) \in Buffers /\ Available(pos) \in 0..REC_LEN /\ pos + Available(pos) <= Len(file)
    <3>1. /\ Available(pos) \in 0..REC_LEN /\ pos + Available(pos) \in 0..Len(file)
          /\ Filled(inactive, pos) \in Buffers
      BY <1>3, ReadTypes
    <3> QED
      BY <3>1
  <2>5. next \in Buffers /\ next.offset = 0 /\ next.data_length = Available(pos)
        /\ next.data = Filled(inactive, pos).data /\ next.data_length = Filled(inactive, pos).data_length
    <3>1. 0 \in 0..SizeT - 1
      BY ReaderAssumption
    <3>2. Filled(inactive, pos).data_length = Available(pos)
      BY <1>3 DEF Filled, Buffers
    <3> QED
      BY <2>4, <3>1, <3>2 DEF Buffers
  <2> HIDE DEF next
  <2>6. Holds(next, pos)
    BY <1>3, <2>5, FilledHolds
  <2>7. \/ /\ scan_buffer(next) = -1 /\ n = Available(pos)
           /\ NoNewline(pos + 1, pos + n)
        \/ /\ scan_buffer(next) = n /\ n \in 0..Available(pos) - 1
           /\ pos + n + 1 \in NewlinesAt
           /\ NoNewline(pos + 1, pos + n)
    <3>1. pos + 0 + 1 = pos + 1
      OBVIOUS
    <3>2. \/ /\ scan_buffer(next) = -1
             /\ NoNewline(pos + 1, pos + Available(pos))
          \/ /\ scan_buffer(next) \in 0..Available(pos) - 1
             /\ pos + scan_buffer(next) + 1 \in NewlinesAt
             /\ NoNewline(pos + 1, pos + scan_buffer(next))
      BY <2>5, <2>6, <3>1, ScanFinds
    <3>3. CASE scan_buffer(next) = -1
      BY <2>4, <2>5, <3>2, <3>3 DEF LineEnd
    <3>4. CASE scan_buffer(next) \in 0..Available(pos) - 1
      BY SMTT(20), <2>4, <2>5, <3>2, <3>4 DEF LineEnd
    <3> QED
      BY <3>2, <3>3, <3>4
  <2> HIDE DEF n
  <2>8. n \in 0..Available(pos)
    BY <2>4, <2>7
  <2>9. EndsAt(pos + n) /\ (n = 0 => Available(pos) = 0)
        /\ (n # 0 => IsChunk(pos))
    <3>1. CASE Available(pos) = 0
      <4>1. pos = Len(file) /\ n = 0
        BY <2>8, <3>1, ReaderAssumption DEF Available
      <4> QED
        BY <3>1, <4>1 DEF EndsAt
    <3>2. CASE Available(pos) # 0
      <4>1. c + Available(c) < Len(file)
        BY <2>4, <3>2 DEF Holds
      <4>2. IsChunk(pos) /\ pos \in Nat
        BY <4>1, NextChunk DEF Holds
      <4>3. pos + 1 \notin NewlinesAt
        BY <4>2, PresumedChunks
      <4>4. n # 0
        BY <2>4, <2>7, <3>2, <4>3
      <4>5. EndsAt(pos + n)
        <5>1. CASE pos + n + 1 \in NewlinesAt
          BY <5>1 DEF EndsAt
        <5>2. CASE n = Available(pos) /\ NoNewline(pos + 1, pos + n)
          <6>1. pos > 0
            BY <1>1
          <6>2. ~ (pos + Available(pos) < Len(file))
            BY <4>2, <5>2, <6>1, PresumedChunks DEF NoNewline
          <6>3. pos + n = Len(file)
            BY <2>4, <5>2, <6>2
          <6> QED
            BY <6>3 DEF EndsAt
        <5> QED
          BY <2>7, <5>1, <5>2
      <4> QED
        BY <4>2, <4>4, <4>5
    <3> QED
      BY <3>1, <3>2
  <2>10. NoNewline(c + a.offset + 1, pos + n)
    BY <2>1, <2>4, <2>7, <2>8 DEF NoNewline
  <2>11. active'.offset = a.offset /\ active'.length = a.data_length - a.offset
         /\ active'.data = a.data /\ active'.data_length = a.data_length
    BY <2>2, <2>3 DEF Buffers
  <2>12. inactive'.offset = 0 /\ inactive'.length = n /\ inactive'.data_length = Available(pos)
         /\ inactive'.data = next.data
    BY <2>2, <2>5 DEF Buffers
  <2>13. SpanEnd(active') = a.data_length
    BY <1>1, <2>11 DEF SpanEnd
  <2>14. Holds(active', c) /\ Holds(inactive', pos)
    BY <2>5, <2>6, <2>11, <2>12 DEF Holds
  <2>15. consumed' = pos + Available(pos) /\ (n = 0 => consumed' = pos)
    BY <2>2, <2>9
  <2>16. SpanEnd(active') \in 1..active'.data_length /\ n <= inactive'.data_length
    BY <1>1, <2>4, <2>8, <2>11, <2>12, <2>13
  <2> QED
    BY <2>2, <2>9, <2>10, <2>11, <2>12, <2>13, <2>14, <2>15, <2>16, Zenon DEF LineIn
<1> QED
  BY <1>4, <1>5

-----------------------------------------------------------------------------
(* add_line                                                                *)

\* n bytes of the file, from byte s.
Bytes(s, n) == [i \in 1..n |-> s + i - 1]

\* Bytes that follow each other make one span, and a beginning of a span is one.
LEMMA BytesJoined ==
  ASSUME NEW s \in Nat, NEW m \in Nat, NEW n \in Nat
  PROVE  /\ Bytes(s, m) \o Bytes(s + m, n) = Bytes(s, m + n)
         /\ m <= n => SubSeq(Bytes(s, n), 1, m) = Bytes(s, m)
<1>1. \A t, k \in Nat : /\ Bytes(t, k) \in Seq(Int) /\ Len(Bytes(t, k)) = k
                        /\ \A i \in 1..k : Bytes(t, k)[i] = t + i - 1
  BY DEF Bytes
<1>2. Bytes(s, m) \o Bytes(s + m, n) = Bytes(s, m + n)
  <2> DEFINE u == Bytes(s, m)
             v == Bytes(s + m, n)
             w == Bytes(s, m + n)
  <2>1. s + m \in Nat /\ m + n \in Nat
    OBVIOUS
  <2>2. /\ u \in Seq(Int) /\ Len(u) = m /\ v \in Seq(Int) /\ Len(v) = n
        /\ w \in Seq(Int) /\ Len(w) = m + n
    BY <1>1, <2>1
  <2>3. \A i \in 1..m : u[i] = s + i - 1
    BY <1>1
  <2>4. \A i \in 1..n : v[i] = s + m + i - 1
    BY <1>1, <2>1
  <2>5. \A i \in 1..m + n : w[i] = s + i - 1
    BY <1>1, <2>1
  <2> HIDE DEF u, v, w
  <2>6. /\ u \o v \in Seq(Int) /\ Len(u \o v) = m + n
        /\ \A i \in 1..m + n : (u \o v)[i] = IF i <= m THEN u[i] ELSE v[i - m]
    BY <2>2, ConcatProperties
  <2>7. ASSUME NEW i \in 1..m + n PROVE (u \o v)[i] = w[i]
    <3>1. CASE i <= m
      <4>1. (u \o v)[i] = u[i] /\ i \in 1..m
        BY <2>6, <3>1
      <4> QED
        BY <2>3, <2>5, <4>1
    <3>2. CASE i > m
      <4>1. (u \o v)[i] = v[i - m] /\ i - m \in 1..n
        BY <2>6, <3>2
      <4>2. v[i - m] = s + m + (i - m) - 1 /\ w[i] = s + i - 1
        BY <2>4, <2>5, <4>1
      <4>3. s + m + (i - m) - 1 = s + i - 1
        OBVIOUS
      <4> QED
        BY <4>1, <4>2, <4>3, Zenon
    <3>3. i <= m \/ i > m
      OBVIOUS
    <3> QED
      BY <3>1, <3>2, <3>3, Zenon
  <2>8. u \o v = w
    BY <2>2, <2>6, <2>7, SeqEqual
  <2> QED
    BY <2>8 DEF u, v, w
<1>3. ASSUME m <= n PROVE SubSeq(Bytes(s, n), 1, m) = Bytes(s, m)
  <2> DEFINE u == SubSeq(Bytes(s, n), 1, m)
             v == Bytes(s, m)
  <2>1. u \in Seq(Int) /\ Len(u) = m /\ \A i \in 1..m : u[i] = Bytes(s, n)[i]
    BY SMTT(20), <1>1, <1>3
  <2>2. v \in Seq(Int) /\ Len(v) = m /\ \A i \in 1..m : v[i] = s + i - 1
    BY <1>1
  <2>3. \A i \in 1..m : Bytes(s, n)[i] = s + i - 1
    BY <1>1, <1>3
  <2> HIDE DEF u, v
  <2>4. Len(u) = Len(v) /\ \A i \in 1..Len(u) : u[i] = v[i]
    BY <2>1, <2>2, <2>3
  <2>5. u = v
    BY <2>1, <2>2, <2>4, SeqEqual, Zenon
  <2> QED
    BY <2>5 DEF u, v
<1> QED
  BY <1>2, <1>3

\* At most n bytes of the span of a buffer that holds the chunk behind byte c.
LEMMA SpanCopied ==
  ASSUME NEW b \in Buffers, NEW c \in 0..Len(file), Holds(b, c), SpanEnd(b) <= b.data_length,
         NEW n \in Nat
  PROVE  copy_at_most(b, n) = Bytes(c + b.offset + 1, IF b.length > n THEN n ELSE b.length)
<1> DEFINE m == IF b.length > n THEN n ELSE b.length
<1>1. b.offset \in Nat /\ b.length \in Nat /\ b.data_length \in 0..REC_LEN /\ c \in Int
  BY ReaderAssumption DEF Buffers
<1>2. m \in Nat /\ m <= b.length
  BY <1>1
<1> HIDE DEF m
<1>3. ASSUME NEW i \in 1..m
      PROVE  Byte(b, b.offset + i - 1) = c + b.offset + 1 + i - 1
  <2>1. b.offset + i \in 1..b.data_length /\ b.offset + i - 1 < REC_LEN
        /\ b.offset + i - 1 + 1 = b.offset + i
    BY <1>1, <1>2, ReaderAssumption DEF SpanEnd
  <2>2. b.data[b.offset + i] = c + (b.offset + i)
    BY <2>1 DEF Holds
  <2> QED
    BY <1>1, <1>2, <2>1, <2>2 DEF Byte
<1>4. copy_at_most(b, n) = [i \in 1..m |-> Byte(b, b.offset + i - 1)]
  BY DEF copy_at_most, m
<1> QED
  BY <1>3, <1>4 DEF Bytes, m

\* The record put together of the two spans is the line, cut to the length a record may have.
LEMMA RecordIsLine ==
  ASSUME TypeOK, Len(file) \in Nat, NEW c \in 0..Len(file), LineIn(c, active, inactive, consumed)
  PROVE  copy_into_record_buffer
           = Cut(Bytes(c + active.offset + 1, active.length + inactive.length))
<1> DEFINE s  == c + active.offset + 1
           m1 == IF active.length > MaxBytes THEN MaxBytes ELSE active.length
           m2 == IF inactive.length > MaxBytes - m1 THEN MaxBytes - m1 ELSE inactive.length
           n  == active.length + inactive.length
           m  == IF n > MaxBytes THEN MaxBytes ELSE n
<1>1. active \in Buffers /\ inactive \in Buffers
  BY DEF TypeOK
<1>2. /\ active.offset \in Nat /\ active.length \in Nat /\ active.data_length \in Nat
      /\ inactive.length \in Nat /\ c \in Nat /\ MaxBytes \in Nat
  BY <1>1, ReaderAssumption DEF Buffers
<1>3. /\ m1 \in Nat /\ m1 <= active.length /\ MaxBytes - m1 \in Nat /\ m2 \in Nat /\ s \in Nat
      /\ n \in Nat /\ m \in Nat /\ m <= n /\ m1 + m2 = m /\ (m2 # 0 => m1 = active.length)
  BY SMTT(20), <1>2
<1>4. copy_at_most(active, MaxBytes) = Bytes(s, m1)
  <2>1. Holds(active, c) /\ SpanEnd(active) <= active.data_length
    BY <1>2 DEF LineIn
  <2> QED
    BY <1>1, <1>2, <2>1, SpanCopied
<1> HIDE DEF m1
<1>5. copy_at_most(inactive, MaxBytes - m1) = Bytes(s + m1, m2)
  <2>1. CASE inactive.length = 0
    <3>1. m2 = 0
      BY <1>2, <1>3, <2>1
    <3>2. copy_at_most(inactive, MaxBytes - m1) = [i \in 1..m2 |-> Byte(inactive, inactive.offset + i - 1)]
      BY DEF copy_at_most
    <3> HIDE DEF m2
    <3>3. 1..m2 = {}
      BY <3>1
    <3> QED
      BY <3>2, <3>3 DEF Bytes
  <2>2. CASE inactive.length # 0
    <3>1. /\ SpanEnd(active) = active.data_length /\ Holds(inactive, c + active.data_length)
          /\ inactive.offset = 0 /\ inactive.length <= inactive.data_length
          /\ IsChunk(c + active.data_length)
      BY <2>2 DEF LineIn
    <3>2. c + active.data_length \in 0..Len(file) /\ SpanEnd(inactive) <= inactive.data_length
      BY <1>2, <3>1 DEF SpanEnd, IsChunk
    <3>3. copy_at_most(inactive, MaxBytes - m1) = Bytes(c + active.data_length + inactive.offset + 1, m2)
      BY <1>1, <1>3, <3>1, <3>2, SpanCopied
    <3>4. c + active.data_length + inactive.offset + 1 = s + active.length
      BY SMTT(20), <1>2, <3>1 DEF SpanEnd
    <3> HIDE DEF m2, s
    <3>5. CASE m2 # 0
      BY <1>3, <3>3, <3>4, <3>5
    <3>6. CASE m2 = 0
      <4>1. 1..m2 = {}
        BY <3>6
      <4> QED
        BY <3>3, <4>1 DEF Bytes
    <3> QED
      BY <3>5, <3>6
  <2> QED
    BY <2>1, <2>2
<1>6. Len(Bytes(s, m1)) = m1 /\ Len(Bytes(s, n)) = n
  <2> HIDE DEF s, n
  <2> QED
    BY <1>3 DEF Bytes
<1>7. copy_into_record_buffer = Bytes(s, m1) \o Bytes(s + m1, m2)
  <2> HIDE DEF m2, s
  <2> QED
    BY <1>4, <1>5, <1>6 DEF copy_into_record_buffer
<1>8. Cut(Bytes(s, n)) = SubSeq(Bytes(s, n), 1, m)
  <2> HIDE DEF s, n
  <2> QED
    BY <1>6 DEF Cut
<1> HIDE DEF m2, s, n, m
<1>9. Bytes(s, m1) \o Bytes(s + m1, m2) = Bytes(s, m)
  <2>1. \A t \in Nat : \A j, k \in Nat : Bytes(t, j) \o Bytes(t + j, k) = Bytes(t, j + k)
    BY BytesJoined
  <2>2. s \in Nat /\ m1 \in Nat /\ m2 \in Nat
    BY <1>3
  <2>3. Bytes(s, m1) \o Bytes(s + m1, m2) = Bytes(s, m1 + m2)
    BY <2>1, <2>2, Zenon
  <2> QED
    BY <1>3, <2>3
<1>10. SubSeq(Bytes(s, n), 1, m) = Bytes(s, m)
  <2>1. \A t \in Nat : \A j, k \in Nat : j <= k => SubSeq(Bytes(t, k), 1, j) = Bytes(t, j)
    BY BytesJoined
  <2>2. s \in Nat /\ m \in Nat /\ n \in Nat /\ m <= n
    BY <1>3
  <2> QED
    BY <2>1, <2>2, Zenon
<1>11. copy_into_record_buffer = Cut(Bytes(s, n))
  BY <1>7, <1>8, <1>9, <1>10
<1> QED
  BY <1>11 DEF s, n

-----------------------------------------------------------------------------
(* The invariant                                                           *)

\* At the beginning both buffers are empty and no line has been passed on.
LEMMA InitReads == Init => ReadInv
<1> SUFFICES ASSUME Init PROVE ReadInv
  OBVIOUS
<1>1. active.offset = 0 /\ active.length = 0
  BY DEF Init, EmptyBuffer
<1> QED
  BY <1>1 DEF Init, ReadInv, BufferIsEmpty

\* add_line passes the line on and leaves, as the active buffer, the one it ends in.
LEMMA AddLineReads ==
  ASSUME ReaderTyped, PresumedText, add_line,
         NEW c \in 0..Len(file), LineIn(c, active, inactive, consumed)
  PROVE  pc' = "read_line" /\ \E d \in 0..Len(file) : LastLineIn(d, active, consumed)'
<1>1. /\ TypeOK /\ file \in Seq({"nl", "ch"}) /\ Len(file) \in Nat
      /\ active \in Buffers /\ inactive \in Buffers
  BY DEF ReaderTyped, TypeOK
<1>2. /\ active.offset \in Nat /\ active.length \in Nat /\ active.data_length \in Nat
      /\ inactive.length \in Nat /\ inactive.data_length \in 0..REC_LEN /\ c \in Nat
  BY <1>1, ReaderAssumption DEF Buffers
<1>3. file' = file /\ consumed' = consumed /\ pc' = "read_line"
  BY DEF add_line
<1>4. PICK s : s = c + active.offset + 1
  OBVIOUS
<1>5. PICK n : n = active.length + inactive.length
  OBVIOUS
<1>6. PICK l : l = c + SpanEnd(active) + inactive.length
  OBVIOUS
<1>7. s \in LineStarts /\ NoNewline(s, l) /\ EndsAt(l) /\ RecordsUpTo(s)
  BY <1>4, <1>6 DEF LineIn
<1>8. s \in Nat /\ n \in Nat /\ l \in Nat /\ l - s + 1 = n /\ s - 1 <= l
  <2>1. l = c + (active.offset + active.length) + inactive.length
    BY <1>6 DEF SpanEnd
  <2>2. s \in Nat /\ n \in Nat
    BY SMTT(20), <1>2, <1>4, <1>5
  <2>3. l \in Nat
    BY <1>2, <2>1
  <2>4. l = (s - 1) + n
    <3>1. \A u, v, w, x \in Nat : u + (v + w) + x = ((u + v + 1) - 1) + (w + x)
      OBVIOUS
    <3>2. c + (active.offset + active.length) + inactive.length
            = ((c + active.offset + 1) - 1) + (active.length + inactive.length)
      BY <1>2, <3>1
    <3> QED
      BY <1>4, <1>5, <2>1, <3>2
  <2> QED
    BY <2>2, <2>3, <2>4
<1>9. l \in s - 1..Len(file)
  <2>1. NewlinesAt \subseteq 1..Len(file)
    BY <1>1, StartsInFile
  <2>2. l + 1 \in 1..Len(file) \/ l = Len(file)
    BY <1>7, <2>1 DEF EndsAt
  <2>3. l <= Len(file)
    BY <1>1, <1>8, <2>2
  <2> QED
    BY <1>1, <1>8, <2>3
<1>10. lines' = Append(lines, Cut([i \in 1..(l - s + 1) |-> s + i - 1]))
  <2>1. lines' = Append(lines, Cut(Bytes(c + active.offset + 1, active.length + inactive.length)))
    BY <1>1, RecordIsLine DEF add_line
  <2> QED
    BY <1>4, <1>5, <1>8, <2>1 DEF Bytes
<1>11. RecordsUpTo(l + 2)'
  BY <1>1, <1>3, <1>7, <1>9, <1>10, LinePassed
<1>12. /\ \A d : IsChunk(d)' = IsChunk(d)
       /\ \A b, d : Holds(b, d)' = Holds(b, d)
       /\ EndsAt(l)'
  BY <1>3, <1>7 DEF IsChunk, Holds, Available, EndsAt, NewlinesAt
<1>13. CASE inactive.length = 0
  <2>1. active' = active
    BY <1>13 DEF add_line
  <2>2. l = c + SpanEnd(active) /\ l + 2 = c + SpanEnd(active) + 2
    BY <1>2, <1>6, <1>13 DEF SpanEnd
  <2>3. SpanEnd(active) \in 1..active.data_length /\ IsChunk(c) /\ Holds(active, c)
        /\ consumed = c + active.data_length
    BY <1>13 DEF LineIn
  <2>4. PICK e : e = SpanEnd(active)
    OBVIOUS
  <2>5. SpanEnd(active)' = e
    BY <2>1, <2>4 DEF SpanEnd
  <2>6. EndsAt(c + e)' /\ RecordsUpTo(c + e + 2)'
    BY <1>11, <1>12, <2>2, <2>4
  <2>7. Holds(active, c)'
    BY <1>12, <2>1, <2>3 DEF Holds, Available
  <2>8. LastLineIn(c, active, consumed)'
    BY <1>3, <1>12, <2>1, <2>3, <2>4, <2>5, <2>6, <2>7 DEF LastLineIn
  <2> QED
    BY <1>3, <2>8
<1>14. CASE inactive.length # 0
  <2>1. active' = inactive
    BY <1>2, <1>14 DEF add_line
  <2>2. /\ SpanEnd(active) = active.data_length /\ inactive.offset = 0
        /\ inactive.length <= inactive.data_length
        /\ IsChunk(c + active.data_length) /\ Holds(inactive, c + active.data_length)
        /\ consumed = c + active.data_length + inactive.data_length
    BY <1>14 DEF LineIn
  <2>3. PICK d : d = c + active.data_length
    OBVIOUS
  <2>4. PICK e : e = inactive.length
    OBVIOUS
  <2>5. d \in 0..Len(file) /\ IsChunk(d) /\ Holds(inactive, d) /\ consumed = d + inactive.data_length
    BY SMTT(20), <1>2, <2>2, <2>3 DEF IsChunk
  <2>6. l = d + e /\ l + 2 = d + e + 2 /\ e \in 1..inactive.data_length
    BY <1>2, <1>6, <1>14, <2>2, <2>3, <2>4
  <2>7. SpanEnd(active)' = e
    BY <1>2, <2>1, <2>2, <2>4 DEF SpanEnd
  <2>8. EndsAt(d + e)' /\ RecordsUpTo(d + e + 2)'
    BY <1>11, <1>12, <2>6
  <2>9. Holds(active, d)'
    BY <1>3, <2>1, <2>5 DEF Holds, Available
  <2>10. LastLineIn(d, active, consumed)'
    BY <1>3, <1>12, <2>1, <2>5, <2>6, <2>7, <2>8, <2>9 DEF LastLineIn
  <2> QED
    BY <1>3, <2>5, <2>10
<1> QED
  BY <1>13, <1>14

\* The same of the state that get_record leads to.
LEMMA GetRecordReads ==
  ASSUME ReaderTyped, PresumedText, file' = file, lines' = lines,
         NEW a \in Buffers, NEW c \in 0..Len(file), NEW pos \in 0..Len(file),
         IsChunk(c), Holds(a, c), pos = c + a.data_length, a.offset <= a.data_length,
         c + a.offset + 1 \in LineStarts, RecordsUpTo(c + a.offset + 1), get_record(a, pos)
  PROVE  pc' = "add_line" /\ LineIn(c, active, inactive, consumed)'
<1>1. PICK x, y, z : x = active' /\ y = inactive' /\ z = consumed'
  OBVIOUS
<1>2. pc' = "add_line" /\ LineIn(c, x, y, z)
  BY <1>1, GetRecordFinds DEF ReaderTyped
<1>3. LineIn(c, x, y, z)'
  BY <1>2, FileKept
<1>4. LineIn(c, active, inactive, consumed)'
  BY <1>1, <1>3 DEF LineIn, SpanEnd
<1> QED
  BY <1>2, <1>4

\* Every step of the reader leads from one of these places to another.
LEMMA StepReads == ReaderTyped /\ ReadInv /\ [Next]_vars => ReadInv'
<1> SUFFICES ASSUME ReaderTyped, ReadInv, [Next]_vars, PresumedText' PROVE ReadInv'
  BY DEF ReadInv
<1>1. /\ TypeOK /\ file \in Seq({"nl", "ch"}) /\ Len(file) \in Nat
      /\ active \in Buffers /\ inactive \in Buffers /\ consumed \in 0..Len(file)
  BY DEF ReaderTyped, TypeOK
<1>2. file' = file
  BY DEF Next, vars, ReadFirstChunk, ReadNothing, ReadNext, add_line
<1>3. PresumedText
  BY <1>2, FileKept
<1>4. 0 \in 0..Len(file) /\ REC_LEN \in Nat /\ REC_LEN > 0
  BY <1>1, ReaderAssumption
<1>5. /\ active.offset \in 0..SizeT - 1 /\ active.length \in 0..SizeT - 1
      /\ active.data_length \in 0..REC_LEN
  BY <1>1 DEF Buffers
<1>6. BufferIsEmpty /\ pc = "read_line" => consumed = 0 /\ lines = <<>>
  BY <1>3, <1>5 DEF ReadInv, BufferIsEmpty, LastLineIn, SpanEnd
<1>7. CASE ReadFirstChunk
  <2> DEFINE a == Filled(active, 0)
  <2>1. /\ consumed = 0 /\ lines = <<>> /\ active.offset = 0 /\ Available(0) > 0
        /\ get_record(a, 0 + Available(0)) /\ lines' = lines
    BY <1>6, <1>7 DEF ReadFirstChunk, BufferIsEmpty
  <2>2. /\ Available(0) \in 0..REC_LEN /\ 0 + Available(0) \in 0..Len(file) /\ a \in Buffers
    BY <1>1, <1>4, ReadTypes
  <2>3. a.offset = 0 /\ a.data_length = Available(0)
    BY <1>1, <2>1 DEF Filled, Buffers
  <2>4. Holds(a, 0)
    BY <1>1, <1>4, <2>2, FilledHolds
  <2>5. IsChunk(0)
    <3>1. 0 < Len(file)
      BY <1>1, <2>1, <2>2 DEF Available
    <3>2. 0 = 0 * REC_LEN
      BY <1>4
    <3> QED
      BY <3>1, <3>2 DEF IsChunk
  <2>6. 1 \in LineStarts /\ RecordsUpTo(1)
    <3>1. LineStarts \subseteq 1..Len(file) + 1 /\ 1 \in LineStarts
      BY <1>1, StartsInFile
    <3>2. {r \in LineStarts : r < 1} = {}
      <4>1. ASSUME NEW r \in LineStarts, r < 1 PROVE FALSE
        <5>1. r \in 1..Len(file) + 1
          BY <3>1
        <5> QED
          BY <1>1, <4>1, <5>1
      <4> QED
        BY <4>1
    <3>3. Cardinality({}) = 0
      BY FS_EmptySet
    <3>4. <<>> \in Seq(Seq(Int)) /\ Len(<<>>) = 0 /\ 1..0 = {}
      OBVIOUS
    <3> QED
      BY <2>1, <3>1, <3>2, <3>3, <3>4 DEF RecordsUpTo
  <2> HIDE DEF a
  <2>7. PICK b, pos : b = a /\ pos = 0 + Available(0)
    OBVIOUS
  <2>8. /\ b \in Buffers /\ pos \in 0..Len(file) /\ Holds(b, 0) /\ pos = 0 + b.data_length
        /\ b.offset <= b.data_length /\ 0 + b.offset + 1 = 1 /\ get_record(b, pos)
    BY <2>1, <2>2, <2>3, <2>4, <2>7
  <2>9. pc' = "add_line" /\ LineIn(0, active, inactive, consumed)'
    BY <1>2, <1>3, <1>4, <2>1, <2>5, <2>6, <2>8, GetRecordReads
  <2> QED
    BY <1>2, <1>4, <2>9 DEF ReadInv
<1>8. CASE ReadNothing
  <2>1. consumed = 0 /\ lines = <<>> /\ Available(0) = 0 /\ pc' = "done" /\ lines' = lines
    BY <1>6, <1>8 DEF ReadNothing
  <2>2. Len(file) = 0
    BY <1>1, <1>4, <2>1 DEF Available
  <2>3. file = <<>>
    BY <1>1, <2>2
  <2> QED
    BY <1>2, <2>1, <2>3 DEF ReadInv
<1>9. CASE ReadNext
  <2>1. PICK c \in 0..Len(file) : LastLineIn(c, active, consumed)
    BY <1>3, <1>9 DEF ReadInv, ReadNext
  <2>2. PICK e : e = SpanEnd(active)
    OBVIOUS
  <2>3. /\ IsChunk(c) /\ Holds(active, c) /\ consumed = c + active.data_length
        /\ e \in 1..active.data_length /\ EndsAt(c + e) /\ RecordsUpTo(c + e + 2)
    BY <2>1, <2>2 DEF LastLineIn
  <2>4. PICK a : a = [active EXCEPT !.offset = (@ + active.length + 1) % SizeT]
    OBVIOUS
  <2>5. PICK pos : pos = consumed
    OBVIOUS
  <2>6. get_record(a, pos) /\ lines' = lines
    BY <1>9, <2>4, <2>5 DEF ReadNext
  <2>7. (active.offset + active.length + 1) % SizeT = e + 1 /\ e + 1 \in 0..SizeT - 1
    <3>1. e + 1 \in 0..SizeT - 1
      BY <1>5, <2>3, ReaderAssumption
    <3>2. active.offset + active.length + 1 = e + 1
      BY <2>2 DEF SpanEnd
    <3> QED
      BY <3>1, <3>2, Wraps
  <2>8. a \in Buffers /\ a.offset = e + 1 /\ a.data_length = active.data_length /\ a.data = active.data
    BY <1>1, <2>4, <2>7 DEF Buffers
  <2>9. Holds(a, c) /\ pos = c + a.data_length /\ pos \in 0..Len(file)
    BY <1>1, <2>3, <2>5, <2>8 DEF Holds
  <2>10. NewlinesAt \subseteq 1..Len(file)
    BY <1>1, StartsInFile
  <2>11. CASE e < a.data_length
    <3>1. c + e + 1 \in NewlinesAt
      <4>1. c + e # Len(file)
        BY <1>1, <1>5, <2>3, <2>8, <2>9, <2>11
      <4> QED
        BY <2>3, <4>1 DEF EndsAt
    <3>2. c + a.offset + 1 = c + e + 2 /\ c + e + 2 = (c + e + 1) + 1
      <4>1. c \in Int /\ e \in Int
        BY <1>1, <1>5, <2>3
      <4> QED
        BY <2>8, <4>1
    <3>3. c + a.offset + 1 \in LineStarts
      BY <3>1, <3>2 DEF LineStarts
    <3>4. a.offset <= a.data_length /\ RecordsUpTo(c + a.offset + 1)
      BY <1>5, <2>3, <2>8, <2>11, <3>2
    <3>5. pc' = "add_line" /\ LineIn(c, active, inactive, consumed)'
      BY <1>2, <1>3, <2>3, <2>6, <2>8, <2>9, <3>3, <3>4, GetRecordReads
    <3> QED
      BY <1>2, <3>5 DEF ReadInv
  <2>12. CASE ~ (e < a.data_length)
    <3>1. e = a.data_length /\ c + e = pos
      BY <1>5, <2>3, <2>8, <2>9, <2>12
    <3>2. pos = Len(file)
      <4>1. SUFFICES ASSUME pos + 1 \in NewlinesAt PROVE FALSE
        BY <2>3, <3>1 DEF EndsAt
      <4>2. c + Available(c) < Len(file) /\ c \in Nat
        BY <1>1, <2>9, <2>10, <4>1 DEF Holds
      <4>3. IsChunk(pos) /\ pos \in Nat
        BY <1>1, <2>3, <2>9, <4>2, NextChunk DEF Holds
      <4> QED
        BY <1>1, <1>3, <4>1, <4>3, PresumedChunks
    <3>3. Available(pos) = 0
      BY <1>1, <1>4, <3>2 DEF Available
    <3>4. scan_buffer(a) = -1
      <4>1. ~ (scan_buffer(a) \in a.offset..a.data_length - 1)
        BY <1>5, <2>3, <2>8, <3>1
      <4> QED
        BY <1>1, <2>8, <2>9, <4>1, ScanFinds
    <3>5. a.offset > a.data_length
      BY <1>5, <2>3, <2>8, <3>1
    <3>6. pc' = "done"
      BY <2>6, <3>3, <3>4, <3>5 DEF get_record
    <3>7. RecordsUpTo(Len(file) + 2)
      BY <2>3, <3>1, <3>2
    <3>8. RecordsUpTo(Len(file) + 2)'
      <4>1. PICK p : p = Len(file) + 2
        OBVIOUS
      <4>2. RecordsUpTo(p)'
        BY <1>2, <2>6, <3>7, <4>1, FileKept
      <4> QED
        BY <1>2, <4>1, <4>2
    <3> QED
      BY <3>6, <3>8 DEF ReadInv
  <2> QED
    BY <2>11, <2>12
<1>10. CASE add_line
  <2>1. PICK c \in 0..Len(file) : LineIn(c, active, inactive, consumed)
    BY <1>3, <1>10 DEF ReadInv, add_line
  <2>2. pc' = "read_line" /\ \E d \in 0..Len(file) : LastLineIn(d, active, consumed)'
    BY <1>3, <1>10, <2>1, AddLineReads
  <2> QED
    BY <1>2, <2>2 DEF ReadInv
<1>11. CASE UNCHANGED vars
  <2>1. /\ file' = file /\ consumed' = consumed /\ active' = active /\ inactive' = inactive
        /\ pc' = pc /\ lines' = lines
    BY <1>11 DEF vars
  <2>2. /\ \A c : LastLineIn(c, active, consumed)' = LastLineIn(c, active, consumed)
        /\ \A c : LineIn(c, active, inactive, consumed)' = LineIn(c, active, inactive, consumed)
        /\ RecordsUpTo(Len(file) + 2)' = RecordsUpTo(Len(file) + 2)
    <3>1. PICK x, y, z, p : x = active /\ y = inactive /\ z = consumed /\ p = Len(file) + 2
      OBVIOUS
    <3>2. /\ \A c : LastLineIn(c, x, z)' = LastLineIn(c, x, z)
          /\ \A c : LineIn(c, x, y, z)' = LineIn(c, x, y, z)
          /\ RecordsUpTo(p)' = RecordsUpTo(p)
      BY <2>1, FileKept
    <3> QED
      BY <2>1, <3>1, <3>2 DEF LastLineIn, LineIn, SpanEnd
  <2> QED
    BY <1>3, <2>1, <2>2 DEF ReadInv, BufferIsEmpty
<1> QED
  BY <1>7, <1>8, <1>9, <1>10, <1>11 DEF Next

\* The types and what the buffers hold, at any moment.
LEMMA InvariantHolds == Spec => [](ReaderTyped /\ ReadInv)
<1> QED
  BY InitTyped, StepTyped, InitReads, StepReads, PTL DEF Spec

\* Lines up to some byte are records, the first ones.
LEMMA RecordsArePrefix ==
  ASSUME Len(file) \in Nat, NEW p \in Nat, RecordsUpTo(p)
  PROVE  IsPrefix(lines, Records) /\ (p = Len(file) + 2 => lines = Records)
<1> DEFINE passed == {r \in LineStarts : r < p}
<1>1. /\ lines \in Seq(Seq(Int)) /\ Len(lines) = Cardinality(passed)
      /\ \A k \in 1..Len(lines) : lines[k] = Records[k]
  BY DEF RecordsUpTo
<1>2. /\ LineStarts \subseteq 1..Len(file) + 1
      /\ IsFiniteSet(LineStarts) /\ Cardinality(LineStarts) \in Nat
  BY StartsInFile
<1>3. passed \subseteq LineStarts
  OBVIOUS
<1>4. p = Len(file) + 2 => passed = LineStarts
  <2>1. ASSUME p = Len(file) + 2, NEW r \in LineStarts PROVE r < p
    BY <1>2, <2>1
  <2> QED
    BY <2>1
<1> HIDE DEF passed
<1>5. Len(lines) \in Nat /\ Len(lines) <= Cardinality(LineStarts)
  <2>1. Cardinality(passed) <= Cardinality(LineStarts)
    BY <1>2, <1>3, FS_Subset
  <2>2. Len(lines) \in Nat
    BY <1>1
  <2> QED
    BY <1>1, <2>1, <2>2
<1> DEFINE n == Cardinality(LineStarts)
<1>6. Records \in [1..n -> {Records[k] : k \in 1..n}] /\ DOMAIN Records = 1..n
  BY DEF Records
<1>7. Records \in Seq({Records[k] : k \in 1..n}) /\ Len(Records) = n
  <2> HIDE DEF n
  <2>1. n \in Nat
    BY <1>2 DEF n
  <2> QED
    BY <1>6, <2>1
<1>8. /\ SubSeq(lines, 1, Len(lines)) = [k \in 1..Len(lines) |-> lines[k]]
      /\ SubSeq(Records, 1, Len(lines)) = [k \in 1..Len(lines) |-> Records[k]]
  <2>1. ASSUME NEW k \in 1..Len(lines) PROVE 1 + k - 1 = k
    BY <1>5, <2>1
  <2>2. 1..(Len(lines) - 1 + 1) = 1..Len(lines)
    BY <1>5
  <2> QED
    BY <1>5, <2>1, <2>2
<1>9. IsPrefix(lines, Records)
  BY <1>1, <1>5, <1>7, <1>8 DEF IsPrefix
<1>10. ASSUME p = Len(file) + 2 PROVE lines = Records
  <2>1. Len(lines) = n
    BY <1>1, <1>4, <1>10
  <2>2. DOMAIN lines = 1..n /\ lines = [k \in DOMAIN lines |-> lines[k]]
    BY <1>1, <2>1
  <2>3. Records = [k \in 1..n |-> Records[k]]
    BY <1>6
  <2> HIDE DEF n
  <2> QED
    BY <1>1, <2>1, <2>2, <2>3
<1> QED
  BY <1>9, <1>10

\* Of every file like those the comment at f2m.c:84-97 has in mind, of whatever length
\* and read in whatever chunks, the records passed on at any moment are its first lines.
THEOREM LinesKeptInOrder == Spec => []LinesInOrder
<1>1. ReaderTyped /\ ReadInv => LinesInOrder
  <2> SUFFICES ASSUME ReaderTyped, ReadInv, PresumedText PROVE IsPrefix(lines, Records)
    BY DEF LinesInOrder
  <2>1. Len(file) \in Nat /\ active \in Buffers
    BY DEF ReaderTyped, TypeOK
  <2>2. active.offset \in Nat /\ active.length \in Nat
    BY <2>1, ReaderAssumption DEF Buffers
  <2>3. CASE lines = <<>>
    <3>1. LineStarts # {} /\ Cardinality(LineStarts) \in Nat
      BY <2>1, StartsInFile
    <3>2. SubSeq(lines, 1, Len(lines)) = <<>> /\ SubSeq(Records, 1, Len(lines)) = <<>>
      BY <2>3
    <3> QED
      BY <2>3, <3>1, <3>2 DEF IsPrefix, Records
  <2>4. CASE \E c \in 0..Len(file) : LastLineIn(c, active, consumed)
    BY <2>1, <2>2, <2>4, RecordsArePrefix DEF LastLineIn, SpanEnd
  <2>5. CASE \E c \in 0..Len(file) : LineIn(c, active, inactive, consumed)
    BY <2>1, <2>2, <2>5, RecordsArePrefix DEF LineIn, SpanEnd
  <2>6. CASE RecordsUpTo(Len(file) + 2)
    BY <2>1, <2>6, RecordsArePrefix
  <2> QED
    BY <2>3, <2>4, <2>5, <2>6 DEF ReadInv
<1> QED
  BY <1>1, InvariantHolds, PTL

\* The pieces of a file that is not empty are the lines of its text and, if a newline
\* ends it, one that is empty.
LEMMA RecordsOfText ==
  ASSUME Len(file) \in Nat, file # <<>>, file \in Seq({"nl", "ch"})
  PROVE  Records = IF EndsInNewline THEN Append(TextRecords, <<>>) ELSE TextRecords
<1> DEFINE n == Cardinality(TextStarts)
           last == Len(file) + 1
<1>1. /\ NewlinesAt \subseteq 1..Len(file) /\ LineStarts \subseteq 1..last
      /\ 1 \in LineStarts /\ IsFiniteSet(LineStarts)
  BY StartsInFile
<1>2. Len(file) > 0
  BY DEF Seq
<1>3. TextStarts \subseteq LineStarts /\ IsFiniteSet(TextStarts) /\ n \in Nat
  <2>1. TextStarts \subseteq LineStarts
    BY DEF TextStarts
  <2> QED
    BY <1>1, <2>1, FS_Subset, FS_CardinalityType
<1>4. last \in LineStarts <=> EndsInNewline
  BY <1>1, <1>2 DEF LineStarts, NewlinesAt, EndsInNewline
<1>5. \A s \in LineStarts : s \in TextStarts <=> s # last
  <2>1. \A s \in 1..last : s <= Len(file) <=> s # last
    BY <1>2
  <2> QED
    BY <1>1, <2>1 DEF TextStarts
<1>6. CASE ~ EndsInNewline
  <2>1. TextStarts = LineStarts
    BY <1>3, <1>4, <1>5, <1>6
  <2> QED
    BY <1>6, <2>1 DEF Records, TextRecords
<1>7. CASE EndsInNewline
  <2>1. LineStarts = TextStarts \cup {last} /\ last \notin TextStarts
    BY <1>3, <1>4, <1>5, <1>7
  <2>2. Cardinality(LineStarts) = n + 1
    BY <1>3, <2>1, FS_AddElement
  <2>3. Start(n + 1) = last
    <3>1. {r \in LineStarts : r < last} = TextStarts
      <4>1. \A s \in 1..last : s <= Len(file) <=> s < last
        BY <1>2
      <4> QED
        BY <1>1, <4>1 DEF TextStarts
    <3> QED
      BY <1>4, <1>7, <3>1, StartIs
  <2>4. Cut(LineFrom(last)) = <<>>
    <3>1. LineFrom(last) = [i \in 1..(Len(file) - last + 1) |-> last + i - 1]
      <4>1. last \in Nat \ {0} /\ Len(file) \in last - 1..Len(file)
        BY <1>2
      <4>2. NoNewline(last, Len(file)) /\ EndsAt(Len(file))
        BY <1>2 DEF NoNewline, EndsAt
      <4> HIDE DEF last
      <4> QED
        BY <4>1, <4>2, LineIs
    <3>2. 1..(Len(file) - last + 1) = {}
      BY <1>2
    <3>3. LineFrom(last) = <<>>
      BY <3>1, <3>2
    <3> QED
      BY <3>3, ReaderAssumption DEF Cut
  <2> HIDE DEF n, last
  <2>5. \A k \in 1..n : k \in 1..n + 1 /\ k # n + 1
    BY <1>3
  <2>6. TextRecords = [k \in 1..n |-> Records[k]]
    <3>1. \A k \in 1..n : Records[k] = Cut(LineFrom(Start(k)))
      BY <2>2, <2>5 DEF Records
    <3> QED
      BY <3>1 DEF TextRecords, n
  <2>7. TextRecords \in Seq({Records[k] : k \in 1..n}) /\ Len(TextRecords) = n
    BY <1>3, <2>6
  <2>8. Append(TextRecords, <<>>) = [k \in 1..n + 1 |-> IF k = n + 1 THEN <<>> ELSE Records[k]]
    BY <1>3, <2>6, <2>7
  <2>9. Records = [k \in 1..n + 1 |-> Records[k]] /\ Records[n + 1] = <<>>
    BY <1>3, <2>2, <2>3, <2>4 DEF Records
  <2> QED
    BY <1>7, <2>8, <2>9
<1> QED
  BY <1>6, <1>7

\* When the reader has come to the end of such a file, every line of its text has been
\* passed on, and after a last newline an empty record, and nothing else.
THEOREM EveryLineRead == Spec => []AllLinesRead
<1>1. ReaderTyped /\ ReadInv => AllLinesRead
  <2> SUFFICES ASSUME ReaderTyped, ReadInv, PresumedText, pc = "done", file # <<>>
               PROVE  lines = IF EndsInNewline THEN Append(TextRecords, <<>>) ELSE TextRecords
    BY DEF AllLinesRead
  <2>1. Len(file) \in Nat /\ Len(file) + 2 \in Nat /\ file \in Seq({"nl", "ch"})
    BY DEF ReaderTyped
  <2>2. RecordsUpTo(Len(file) + 2)
    BY DEF ReadInv
  <2>3. lines = Records
    BY <2>1, <2>2, RecordsArePrefix
  <2> QED
    BY <2>1, <2>3, RecordsOfText
<1> QED
  BY <1>1, InvariantHolds, PTL

\* The spans of such a file that add_line copies lie in what read() delivered.
THEOREM SpansInData == Spec => []SpansAreData
<1>1. ReaderTyped /\ ReadInv => SpansAreData
  <2> SUFFICES ASSUME ReaderTyped, ReadInv, PresumedText, pc = "add_line"
               PROVE  /\ active.offset + active.length <= active.data_length
                      /\ inactive.offset + inactive.length <= inactive.data_length
    BY DEF SpansAreData
  <2>1. /\ SpanEnd(active) \in 1..active.data_length
        /\ inactive.offset = 0 /\ inactive.length <= inactive.data_length
    BY DEF ReadInv, LineIn
  <2>2. inactive.length \in Nat /\ active.data_length \in Nat
    BY ReaderAssumption DEF ReaderTyped, TypeOK, Buffers
  <2> QED
    BY <2>1, <2>2 DEF SpanEnd
<1> QED
  BY <1>1, InvariantHolds, PTL
=============================================================================
