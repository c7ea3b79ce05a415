------------------------------ MODULE BpamRead ------------------------------
(***************************************************************************)
(* The reading half of services/src/bpamio.c on one handle of              *)
(* open_pds_for_read: find_member, read_record_direct and under them       *)
(* read_block and next_record, with reads that can fail and callers that   *)
(* keep reading after a negative return.  READ itself never fails (READA   *)
(* has no return code); CHECK says what became of it.  disk and dir are    *)
(* the data set BpamWrite fills; nothing here changes them.                *)
(*                                                                         *)
(* next_record_start and next_record_len are fields of FM_BPAMHandle,      *)
(* line_num is one too, of which only "zero or not" is ever asked; buffer  *)
(* is the content of the block buffer, residual iob->iobcsw.iobresct, and  *)
(* pos the block the next READ gets (external, set by FIND).  cur is the   *)
(* member found; got and status are history: what read_record_direct       *)
(* returned since FIND up to its first negative return, and the reason of  *)
(* that one.                                                               *)
(***************************************************************************)
EXTENDS BpamGeometry

VARIABLES disk, dir,
          next_record_start, next_record_len, line_num, buffer, residual, pos,
          cur, got, status

NULL == -1

\* Handle from calloc; the block buffer is not read before a READ fills it.
Init ==
  /\ next_record_start = NULL
  /\ next_record_len = 0
  /\ line_num = 0
  /\ buffer = EofMark
  /\ residual = 0
  /\ pos = 0
  /\ cur = 0
  /\ got = <<>>
  /\ status = "reading"

-----------------------------------------------------------------------------
\* The RDW at an offset of a block; where no record starts, bytes of a record
\* are taken for one (any value would do).
RdwAt(blk, off) ==
  IF \E i \in 1..Len(blk.recs) : blk.recs[i].at = off
    THEN (CHOOSE r \in {blk.recs[i] : i \in 1..Len(blk.recs)} : r.at = off).rdw
    ELSE RDW_SIZE

WholeBlock(blk, resid) == BlkSize   \* mutant: the residual count is ignored

\* Bytes of the block that records occupy: its BDW, or the block size less what
\* the channel left over.
BytesInBlock(blk, resid) == IF RecFm = "V" THEN blk.size ELSE BlkSize - resid

StopBeforeLast(blk, resid, start, len) ==   \* mutant: the last record is not one
  LET from == IF start = NULL THEN Prefix ELSE start + len
      next == from + (IF RecFm = "V" THEN RdwAt(blk, from) ELSE LRecl)
  IN  IF next >= BytesInBlock(blk, resid)
        THEN [more |-> FALSE, start |-> from, len |-> len]
        ELSE IF RecFm = "V"
          THEN [more |-> TRUE, start |-> from + RDW_SIZE, len |-> RdwAt(blk, from) - RDW_SIZE]
          ELSE [more |-> TRUE, start |-> from, len |-> LRecl]

\* next_record: more tells whether there is a record, start and len are the
\* values it leaves in the handle (start moves even when there is none).
next_record(blk, resid, start, len) ==
  LET from == IF start = NULL THEN Prefix ELSE start + len
  IN  IF from >= BytesInBlock(blk, resid)
        THEN [more |-> FALSE, start |-> from, len |-> len]
        ELSE IF RecFm = "V"
          THEN [more |-> TRUE, start |-> from + RDW_SIZE, len |-> RdwAt(blk, from) - RDW_SIZE]
          ELSE [more |-> TRUE, start |-> from, len |-> LRecl]

\* The caller's view of len bytes at start: the record whose data they are, or
\* id 0 when they are not the data of one record.
Delivered(blk, start, len) ==
  LET hit == {r \in {blk.recs[i] : i \in 1..Len(blk.recs)} : r.at + Header = start}
  IN  [id |-> IF hit = {} THEN 0 ELSE (CHOOSE r \in hit : TRUE).id, len |-> len]

\* What read_record_direct returns with: the handle's record.
Return(blk, nr) ==
  /\ next_record_start' = nr.start
  /\ next_record_len' = nr.len
  /\ got' = IF status = "reading" THEN Append(got, Delivered(blk, nr.start, nr.len)) ELSE got

ReturnNegative(reason) ==
  /\ next_record_start' = NULL      \* read_block resets these before its return
  /\ next_record_len' = 0
  /\ status' = IF status = "reading" THEN reason ELSE status
  /\ UNCHANGED <<got, line_num>>

-----------------------------------------------------------------------------
FindInSameBlock(m) ==   \* mutant: line_num still says a block has been read
  /\ pos' = dir[m].begin
  /\ cur' = m
  /\ next_record_len' = 0
  /\ next_record_start' = NULL
  /\ got' = <<>>
  /\ status' = "reading"
  /\ UNCHANGED <<line_num, buffer, residual, disk, dir>>

\* find_member of a member that is in the directory.
FindMember(m) ==
  /\ pos' = dir[m].begin
  /\ cur' = m
  /\ next_record_len' = 0
  /\ next_record_start' = NULL
  /\ line_num' = 0
  /\ got' = <<>>
  /\ status' = "reading"
  /\ UNCHANGED <<buffer, residual, disk, dir>>

\* The condition of read_record_direct for reading another block.
NeedsBlock ==
  line_num = 0 \/ ~next_record(buffer, residual, next_record_start, next_record_len).more

\* read_record_direct with a record left in the block.
ReadFromBlock ==
  /\ cur # 0
  /\ ~NeedsBlock
  /\ Return(buffer, next_record(buffer, residual, next_record_start, next_record_len))
  /\ UNCHANGED <<line_num, buffer, residual, pos, cur, status, disk, dir>>

\* read_record_direct through read_block, whose READ brings the next block.
ReadNextBlock ==
  /\ cur # 0
  /\ NeedsBlock
  /\ disk[pos] # EofMark
  /\ buffer' = disk[pos]
  /\ residual' = BlkSize - disk[pos].size
  /\ pos' = pos + 1
  /\ line_num' = 1
  /\ Return(buffer', next_record(buffer', residual', NULL, 0))
  /\ UNCHANGED <<cur, status, disk, dir>>

\* read_record_direct at the end of the member: EODAD makes CHECK return 1.
\* What the channel status then says of the residual count is not defined.
EndOfData ==
  /\ cur # 0
  /\ NeedsBlock
  /\ disk[pos] = EofMark
  /\ residual' \in {0, residual, BlkSize}
  /\ ReturnNegative("eod")
  /\ UNCHANGED <<buffer, pos, cur, disk, dir>>

\* read_record_direct when the READ fails: SYNAD makes CHECK return 2, and the
\* buffer holds the old block or the new one.
ReadError ==
  /\ cur # 0
  /\ NeedsBlock
  /\ disk[pos] # EofMark
  /\ buffer' \in {buffer, disk[pos]}
  /\ residual' \in {residual, BlkSize - disk[pos].size}
  /\ pos' = pos + 1
  /\ ReturnNegative("error")
  /\ UNCHANGED <<cur, disk, dir>>

Next ==
  \/ \E m \in 1..Len(dir) : FindMember(m)
  \/ ReadFromBlock
  \/ ReadNextBlock
  \/ EndOfData
  \/ ReadError
=============================================================================
