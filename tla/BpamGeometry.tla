---------------------------- MODULE BpamGeometry ----------------------------
(***************************************************************************)
(* How records are laid out in a block by services/src/bpamio.c: lengths,  *)
(* headers, truncation, padding.  The arithmetic of can_add_record_to_block*)
(* and copy_record_to_block, shared by the writing and the reading side.   *)
(*                                                                         *)
(* A record's bytes are abstracted to an identity and lengths; a record in *)
(* a block is placed at an offset, as it is in storage:                    *)
(*   id    which call of write_record it came from                         *)
(*   at    offset in the block of its first byte (the RDW of a V record)   *)
(*   rdw   bytes it takes up in the block; for V, what its RDW says        *)
(*   data  bytes of the caller's data that were kept                       *)
(***************************************************************************)
EXTENDS Integers, Sequences

CONSTANTS RecFm,    \* "F" (dcbrecf, FB too) or "V" (dcbrecv, VB too)
          LRecl,    \* dcblrecl; of a V data set it counts the RDW
          BlkSize   \* dcbblksi as OPEN found it, the size of the block buffer

BDW_SIZE == 4
RDW_SIZE == 4
HalfWord == 65536   \* RDW, BDW and usr_rec_len are unsigned short

\* What z/OS guarantees of the attributes of a data set it opens.
ASSUME GeometryAssumption ==
  /\ RecFm \in {"F", "V"}
  /\ LRecl \in Nat
  /\ BlkSize \in Nat
  /\ BlkSize < HalfWord
  /\ RecFm = "F" => 0 < LRecl /\ LRecl <= BlkSize
  /\ RecFm = "V" => RDW_SIZE <= LRecl /\ LRecl + BDW_SIZE <= BlkSize

\* Bytes before the first record of a block, and before the data of a record.
Prefix == IF RecFm = "V" THEN BDW_SIZE ELSE 0
Header == IF RecFm = "V" THEN RDW_SIZE ELSE 0

-----------------------------------------------------------------------------
WithoutHeader(used, len) ==   \* mutant: the RDW is not counted
  (IF RecFm = "V" THEN len ELSE LRecl) + used <= BlkSize

\* can_add_record_to_block: the caller's length, not the truncated one, and no
\* allowance for the BDW of a block that is still empty.
can_add_record_to_block(used, len) ==
  LET line_length == IF RecFm = "V" THEN len + RDW_SIZE ELSE LRecl
  IN  line_length + used <= BlkSize

\* copy_record_to_block: the (unsigned short) length of the record on disk, and
\* the bytes of data that go with it.
disk_len(len) ==
  LET wanted == IF RecFm = "V" THEN (len + RDW_SIZE) % HalfWord ELSE len % HalfWord
  IN  IF wanted > LRecl THEN LRecl ELSE wanted

rec_len(len) ==
  LET wanted == (len + Header) % HalfWord
  IN  IF wanted > LRecl THEN LRecl - Header ELSE len % HalfWord

\* Offset the record goes to: the first one of a V block makes room for the BDW.
StartOffset(used) == IF used = 0 THEN Prefix ELSE used

PlacedLessRdw(used, id, len) ==   \* mutant: every record is taken to have an RDW
  [id   |-> id,
   at   |-> StartOffset(used),
   rdw  |-> IF RecFm = "V" THEN disk_len(len) ELSE LRecl,
   data |-> disk_len(len) - RDW_SIZE]

RdwOfDataOnly(used, id, len) ==   \* mutant: the RDW does not count itself
  [id   |-> id,
   at   |-> StartOffset(used),
   rdw  |-> IF RecFm = "V" THEN rec_len(len) ELSE LRecl,
   data |-> rec_len(len)]

\* The record as it lands in the block; a fixed one is padded to LRecl.
Placed(used, id, len) ==
  [id   |-> id,
   at   |-> StartOffset(used),
   rdw  |-> IF RecFm = "V" THEN disk_len(len) ELSE LRecl,
   data |-> rec_len(len)]

\* bytes_used after the copy: RDW and data, or data and pad.
UsedAfter(used, len) ==
  StartOffset(used) +
    (IF RecFm = "V" THEN RDW_SIZE + rec_len(len)
                    ELSE rec_len(len) + (LRecl - rec_len(len)))

-----------------------------------------------------------------------------
Record == [id: Nat, at: Nat, rdw: Nat, data: Nat]

\* A block as the device holds it: how long it is and the records in it.  An
\* end-of-file mark carries no data.
Blocks == [size: Nat, recs: Seq(Record)]
DataBlock(size, recs) == [size |-> size, recs |-> recs]
EofMark == DataBlock(0, <<>>)

\* The walk of validate_var_block (and of next_record): header to header from
\* the end of the BDW, ending exactly at the size of the block.
WalksTo(recs, size) ==
  /\ recs # <<>>
  /\ recs[1].at = Prefix
  /\ \A i \in 1..Len(recs) - 1 : recs[i + 1].at = recs[i].at + recs[i].rdw
  /\ recs[Len(recs)].at + recs[Len(recs)].rdw = size
  /\ \A i \in 1..Len(recs) : Header <= recs[i].rdw

\* What a reader of the data set must be given for a record of len bytes, stated
\* without reference to the code above: cut to what LRecl can hold, fixed ones
\* filled up to it.
LongestData == LRecl - Header
LengthReadBack(len) ==
  IF RecFm = "F" THEN LRecl
  ELSE IF len < LongestData THEN len ELSE LongestData
=============================================================================
