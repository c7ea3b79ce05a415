----------------------------- MODULE F2MReader ------------------------------
(***************************************************************************)
(* The double-buffered line reader of sample/src/f2m.c: read_line,         *)
(* get_record, scan_buffer and the part of add_line that copies a line out *)
(* of the two buffers and swaps them.  read_line sets the buffers up,      *)
(* add_line cleans them up, write_member alternates the two.               *)
(*                                                                         *)
(* A byte is the position it has in the file (1 is the first); position 0  *)
(* stands for the zeros open_file_read leaves in a buffer and Foreign for  *)
(* whatever is in storage after one.  active and inactive are the two      *)
(* FM_FileBuffers with record_offset, record_length, data_length and data; *)
(* the first two are size_t and wrap.  lines is the history of the records *)
(* handed to write_record.                                                 *)
(*                                                                         *)
(* read() of a regular file returns what is there up to REC_LEN, or 0 at   *)
(* the end; that it can fail is left out.                                  *)
(***************************************************************************)
EXTENDS Integers, SequencesExt

CONSTANTS Files,      \* contents of files: sequences of "nl" and "ch"
          REC_LEN,    \* bytes in a buffer, and asked of read() at once
          MaxBytes,   \* record_length of the data set written to
          SizeT       \* where size_t wraps; more than any two offsets together

ASSUME ReaderAssumption ==
  /\ \A f \in Files : f \in Seq({"nl", "ch"})
  /\ REC_LEN \in Nat \ {0}
  /\ MaxBytes \in Nat
  /\ SizeT \in Nat /\ SizeT > 4 * (REC_LEN + 1)

Foreign == -1

VARIABLES file,               \* the file being copied
          consumed,           \* bytes of it that read() has returned
          active, inactive,
          pc,                 \* what write_member does next
          lines

vars == <<file, consumed, active, inactive, pc, lines>>

EmptyBuffer == [offset |-> 0, length |-> 0, data_length |-> 0,
                data |-> [i \in 1..REC_LEN |-> 0]]

Init ==
  /\ file \in Files
  /\ consumed = 0
  /\ active = EmptyBuffer
  /\ inactive = EmptyBuffer
  /\ pc = "read_line"
  /\ lines = <<>>

-----------------------------------------------------------------------------
\* The byte at an offset (from 0) of a buffer, and whether it is a newline.
Byte(b, offset) == IF offset < REC_LEN THEN b.data[offset + 1] ELSE Foreign
IsNewline(byte) == byte \in 1..Len(file) /\ file[byte] = "nl"

OneTooMany(pos) ==   \* mutant: a byte more is asked for than the buffer holds
  LET left == Len(file) - pos IN IF left < REC_LEN + 1 THEN left ELSE REC_LEN + 1

\* read(fd, data, REC_LEN) when pos bytes have been read: how much it returns, and
\* the buffer after it.
Available(pos) ==
  LET left == Len(file) - pos IN IF left < REC_LEN THEN left ELSE REC_LEN
Filled(b, pos) ==
  [b EXCEPT !.data = [i \in 1..REC_LEN |-> IF i <= Available(pos) THEN pos + i ELSE @[i]],
            !.data_length = Available(pos)]

\* Offset of the first newline of the data in a buffer, -1 if there is none.
scan_buffer(b) ==
  LET newlines == {i \in b.offset..(b.data_length - 1) : IsNewline(Byte(b, i))}
  IN  IF newlines = {} THEN -1 ELSE Min(newlines)

LineEndOrFull(b) ==   \* mutant: a chunk without a newline is taken to be full
  IF scan_buffer(b) < 0 THEN REC_LEN ELSE scan_buffer(b)

\* Length of what a chunk just read adds to the line: up to its first newline, or
\* all of it.
LineEnd(b) == IF scan_buffer(b) < 0 THEN b.data_length ELSE scan_buffer(b)

DropLastLine(a, pos) ==   \* mutant: the end of the file is the end of the records
  LET newline_offset == scan_buffer(a)
      next == [Filled(inactive, pos) EXCEPT !.offset = 0]
  IN  IF newline_offset >= 0
        THEN /\ active' = [a EXCEPT !.length = newline_offset - a.offset]
             /\ inactive' = [inactive EXCEPT !.offset = 0, !.length = 0]
             /\ consumed' = pos
             /\ pc' = "add_line"
        ELSE /\ active' = [a EXCEPT !.length = (a.data_length - a.offset) % SizeT]
             /\ inactive' = [next EXCEPT !.length = LineEnd(next)]
             /\ consumed' = pos + Available(pos)
             /\ pc' = IF Available(pos) = 0 THEN "done" ELSE "add_line"

\* get_record, the active buffer being a and pos bytes read so far.  The line ends
\* in the active buffer, or its end is looked for in the next chunk of the file.
get_record(a, pos) ==
  LET newline_offset == scan_buffer(a)
      next == [Filled(inactive, pos) EXCEPT !.offset = 0]
  IN  IF newline_offset >= 0
        THEN /\ active' = [a EXCEPT !.length = newline_offset - a.offset]
             /\ inactive' = [inactive EXCEPT !.offset = 0, !.length = 0]
             /\ consumed' = pos
             /\ pc' = "add_line"
        ELSE /\ active' = [a EXCEPT !.length = (a.data_length - a.offset) % SizeT]
             /\ inactive' = [next EXCEPT !.length = LineEnd(next)]
             /\ consumed' = pos + Available(pos)
             /\ pc' = IF Available(pos) = 0 /\ a.offset > a.data_length
                        THEN "done" ELSE "add_line"

\* read_line takes a buffer without a record, at offset 0, for one not read yet.
BufferIsEmpty == active.offset = 0 /\ active.length = 0

ReadFirstChunk ==
  /\ pc = "read_line"
  /\ BufferIsEmpty
  /\ Available(consumed) > 0
  /\ get_record(Filled(active, consumed), consumed + Available(consumed))
  /\ UNCHANGED <<file, lines>>

ReadAgain ==   \* mutant: reading nothing is not the end
  /\ pc = "read_line"
  /\ BufferIsEmpty
  /\ Available(consumed) = 0
  /\ pc' = "read_line"
  /\ UNCHANGED <<file, consumed, active, inactive, lines>>

ReadNothing ==
  /\ pc = "read_line"
  /\ BufferIsEmpty
  /\ Available(consumed) = 0
  /\ pc' = "done"
  /\ UNCHANGED <<file, consumed, active, inactive, lines>>

\* read_line steps over the record it returned last and its newline.
ReadNext ==
  /\ pc = "read_line"
  /\ ~BufferIsEmpty
  /\ get_record([active EXCEPT !.offset = (@ + active.length + 1) % SizeT], consumed)
  /\ UNCHANGED <<file, lines>>

-----------------------------------------------------------------------------
\* copy_at_most: length bytes of a buffer's record, but at most max of them.
copy_at_most(b, max) ==
  [i \in 1..(IF b.length > max THEN max ELSE b.length) |-> Byte(b, b.offset + i - 1)]

InactiveFirst ==   \* mutant: the parts are copied in the wrong order
  LET first == copy_at_most(inactive, MaxBytes)
  IN  first \o copy_at_most(active, MaxBytes - Len(first))

\* copy_into_record_buffer: the part in the active buffer, then the other.
copy_into_record_buffer ==
  LET first == copy_at_most(active, MaxBytes)
  IN  first \o copy_at_most(inactive, MaxBytes - Len(first))

\* add_line: pass the record on; if some of it came from the inactive buffer,
\* that is the active one now.
add_line ==
  /\ pc = "add_line"
  /\ lines' = Append(lines, copy_into_record_buffer)
  /\ IF inactive.length > 0
       THEN /\ active' = inactive
            /\ inactive' = [inactive EXCEPT !.data = active.data, !.offset = 0, !.length = 0]
       ELSE UNCHANGED <<active, inactive>>
  /\ pc' = "read_line"
  /\ UNCHANGED <<file, consumed>>

Next == ReadFirstChunk \/ ReadNothing \/ ReadNext \/ add_line

\* write_member's loop is sequential code: it goes on as long as it can.
Spec == Init /\ [][Next]_vars /\ WF_vars(Next)

-----------------------------------------------------------------------------
(* Properties *)

Buffers == [offset: 0..SizeT - 1, length: 0..SizeT - 1, data_length: 0..REC_LEN,
            data: [1..REC_LEN -> 0..Len(file)]]

TypeOK ==
  /\ active \in Buffers
  /\ inactive \in Buffers
  /\ consumed \in 0..Len(file)
  /\ pc \in {"read_line", "add_line", "done"}

\* The lines of a file, stated without buffers: the pieces between newlines, the empty
\* piece after a newline that ends the file among them.
NewlinesAt == {i \in 1..Len(file) : file[i] = "nl"}
LineStarts == {1} \cup {i + 1 : i \in NewlinesAt}
LineFrom(s) ==
  LET ends == {e \in NewlinesAt : e >= s}
      last == IF ends = {} THEN Len(file) ELSE Min(ends) - 1
  IN  [i \in 1..(last - s + 1) |-> s + i - 1]

\* Where the k-th of them begins: with k - 1 beginnings before it.
Start(k) == CHOOSE s \in LineStarts : Cardinality({r \in LineStarts : r < s}) = k - 1

\* Each as the record that holds it: no longer than the data set allows.
Cut(line) == SubSeq(line, 1, IF Len(line) > MaxBytes THEN MaxBytes ELSE Len(line))
Records == [k \in 1..Cardinality(LineStarts) |-> Cut(LineFrom(Start(k)))]

\* The records of the lines that are in the text, without that last empty piece.
TextStarts == {s \in LineStarts : s <= Len(file)}
TextRecords == [k \in 1..Cardinality(TextStarts) |-> Cut(LineFrom(Start(k)))]
EndsInNewline == file # <<>> /\ file[Len(file)] = "nl"

\* The files the comment of f2m.c:84-97 and the emptiness test of read_line take
\* for granted: the first line is not empty, no chunk but the first starts with a
\* newline, and none but the first and the last is without one.
Chunk(k) == (k * REC_LEN + 1)..(IF (k + 1) * REC_LEN < Len(file) THEN (k + 1) * REC_LEN ELSE Len(file))
Chunks == {k \in 0..Len(file) : Chunk(k) # {}}
StartsWithNewline(k) == file[k * REC_LEN + 1] = "nl"
HasNewline(k) == \E i \in Chunk(k) : file[i] = "nl"
PresumedText ==
  /\ \A k \in Chunks : ~StartsWithNewline(k)
  /\ \A k \in Chunks : k > 0 /\ k + 1 \in Chunks => HasNewline(k)

\* Of a file like that what has been passed on at any moment is a beginning of its lines
\* in order, none split, merged, lost or delivered twice, wherever the chunks divide it.
\* The empty piece after a last newline counts as one here (see AllLinesRead).
LinesInOrder == PresumedText => IsPrefix(lines, Records)

\* When the loop has ended every line of the text has become a record, with one exception
\* that the code makes: a file that ends in a newline gets an extra empty record, for
\* get_record ends the loop only when the offset is past the data (f2m.c:125).  That is
\* against f2m.c:177-179: the debug file, into which write_debug_line writes each record
\* and a newline (f2m.c:215), "should be the same as the original file read", and it has a
\* newline more.
AllLinesRead ==
  PresumedText /\ pc = "done" /\ file # <<>> =>
    lines = IF EndsInNewline THEN Append(TextRecords, <<>>) ELSE TextRecords

\* No record of such a file is made of bytes that are not the file's: the span
\* read_line sets up lies in what read() delivered.
SpansAreData ==
  PresumedText /\ pc = "add_line" =>
    /\ active.offset + active.length <= active.data_length
    /\ inactive.offset + inactive.length <= inactive.data_length

\* The loop ends on every such file.
ReadingEnds == PresumedText ~> pc = "done"

\* sample/test/recordloss:13: no records are lost when a file is copied, here one
\* with lines shorter than a chunk, whose chunks may start with a newline.
NoLineLost ==
  /\ file # <<>> /\ file[1] # "nl"
  /\ \A k \in Chunks : HasNewline(k)
  /\ pc = "done"
  => Len(lines) >= Cardinality(NewlinesAt)
=============================================================================
