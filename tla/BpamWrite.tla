----------------------------- MODULE BpamWrite ------------------------------
(***************************************************************************)
(* The writing half of services/src/bpamio.c on one handle of              *)
(* open_pds_for_write: write_record, flush and the STOW of a member, for   *)
(* as many members as the caller puts through the handle, with block       *)
(* writes that can fail.                                                   *)
(*                                                                         *)
(* bytes_used, memstart_ttr and memstart_ttr_known are fields of           *)
(* FM_BPAMHandle, dcbblksi a field of its DCB and block the records in its *)
(* block buffer.  disk is the data set: what each WRITE added, and the     *)
(* end-of-file mark the system puts after a member (external).  begin,     *)
(* asked, accepted, written are history: where the member being written    *)
(* begins, the length each accepted record was passed with (by id), the    *)
(* ids accepted for the member and those of them on disk.                  *)
(*                                                                         *)
(* Callers keep to the order of f2m.c:write_member and                     *)
(* readwriterec.c:write_member: records, flush, and the directory entry    *)
(* only after a flush that returned 0.                                     *)
(***************************************************************************)
EXTENDS BpamGeometry

CONSTANTS Lens,        \* record lengths callers pass to write_record
          MaxRecords,  \* bound on the records put through the handle
          MaxMembers   \* bound on the members put through the handle

ASSUME WriteAssumption ==
  /\ Lens \subseteq Nat
  /\ \A len \in Lens : len + RDW_SIZE < HalfWord  \* f2m's lines are below 32K
  /\ MaxRecords \in Nat
  /\ MaxMembers \in Nat

VARIABLES bytes_used, memstart_ttr, memstart_ttr_known, dcbblksi, block,
          disk, dir, begin, asked, accepted, written

handle == <<bytes_used, memstart_ttr, memstart_ttr_known, dcbblksi, block>>
vars == <<bytes_used, memstart_ttr, memstart_ttr_known, dcbblksi, block,
          disk, dir, begin, asked, accepted, written>>

\* A directory entry: where the system says the member begins, the TTR the handle
\* passed for it, and the records it should hold.
Entries == [begin: Nat, ttr: Nat, ids: Seq(Nat)]

Ids(recs) == [i \in 1..Len(recs) |-> recs[i].id]

\* bpam_open, on a handle from calloc.
Init ==
  /\ bytes_used = 0
  /\ memstart_ttr = 0
  /\ memstart_ttr_known = FALSE
  /\ dcbblksi = BlkSize
  /\ block = <<>>
  /\ disk = <<>>
  /\ dir = <<>>
  /\ begin = 1
  /\ asked = <<>>
  /\ accepted = <<>>
  /\ written = <<>>

-----------------------------------------------------------------------------
\* copy_record_to_block on a buffer holding recs in its first used bytes.
copy_record_to_block(recs, used, len) ==
  LET id == Len(asked) + 1
  IN  /\ block' = Append(recs, Placed(used, id, len))
      /\ bytes_used' = UsedAfter(used, len)
      /\ asked' = Append(asked, len)
      /\ accepted' = Append(accepted, id)

\* The block length the DCB says: short blocks of a fixed data set are written
\* by lowering it, variable ones go by their BDW.
BlockLength == IF RecFm = "V" THEN BlkSize ELSE bytes_used

\* What WRITE transfers: BDW bytes of a V block, dcbblksi bytes of an F block.
Transferred == IF RecFm = "V" THEN bytes_used % HalfWord ELSE dcbblksi'

\* NOTE after the first block written through the handle.
NoteEveryBlock ==   \* mutant: as if memstart_ttr_known were not asked
  /\ memstart_ttr' = Len(disk) + 1
  /\ memstart_ttr_known' = TRUE

NoteMemberStart ==
  IF memstart_ttr_known
    THEN UNCHANGED <<memstart_ttr, memstart_ttr_known>>
    ELSE /\ memstart_ttr' = Len(disk) + 1
         /\ memstart_ttr_known' = TRUE

\* write_block when CHECK finds the WRITE done, up to the reset of bytes_used.
write_block ==
  /\ bytes_used # 0
  /\ dcbblksi' = BlockLength
  /\ disk' = Append(disk, DataBlock(Transferred, block))
  /\ written' = written \o Ids(block)
  /\ NoteMemberStart

DropBlock ==   \* mutant: the block is given up when it cannot be written
  /\ bytes_used # 0
  /\ dcbblksi' = BlockLength
  /\ bytes_used' = 0
  /\ block' = <<>>
  /\ UNCHANGED <<memstart_ttr, memstart_ttr_known, disk, dir, begin, asked,
                 accepted, written>>

\* write_block when CHECK finds the WRITE failed (WRITE itself has no return code):
\* it returns before anything is reset.
write_block_fails ==
  /\ bytes_used # 0
  /\ dcbblksi' = BlockLength
  /\ UNCHANGED <<bytes_used, memstart_ttr, memstart_ttr_known, block, disk, dir,
                 begin, asked, accepted, written>>

-----------------------------------------------------------------------------
\* write_record into the block as it is (of an empty one write_block makes a
\* no-op that returns 0).
AddToBlock(len) ==
  /\ Len(asked) < MaxRecords
  /\ can_add_record_to_block(bytes_used, len) \/ bytes_used = 0
  /\ copy_record_to_block(block, bytes_used, len)
  /\ UNCHANGED <<memstart_ttr, memstart_ttr_known, dcbblksi, disk, dir, begin, written>>

WriteThenAppend(len) ==   \* mutant: bytes_used is not reset after the write
  /\ Len(asked) < MaxRecords
  /\ ~can_add_record_to_block(bytes_used, len)
  /\ write_block
  /\ copy_record_to_block(block, bytes_used, len)
  /\ UNCHANGED <<dir, begin>>

\* write_record when the block is full: write it, then start the next.
WriteThenAdd(len) ==
  /\ Len(asked) < MaxRecords
  /\ ~can_add_record_to_block(bytes_used, len)
  /\ write_block
  /\ copy_record_to_block(<<>>, 0, len)
  /\ UNCHANGED <<dir, begin>>

\* write_record returning -1: the block could not be written.
RecordRefused(len) ==
  /\ ~can_add_record_to_block(bytes_used, len)
  /\ write_block_fails

\* flush, returning 0 after a write, and -1.  (Of an empty block it is a no-op.)
Flush ==
  /\ write_block
  /\ block' = <<>>
  /\ bytes_used' = 0
  /\ UNCHANGED <<dir, begin, asked, accepted>>

FlushFails == write_block_fails

\* writememdir_entry: STOW ends the member with an end-of-file mark and enters it,
\* with the TTR the handle passes.
EnterMember ==
  /\ Len(dir) < MaxMembers
  /\ dir' = Append(dir, [begin |-> begin, ttr |-> memstart_ttr, ids |-> accepted])
  /\ disk' = Append(disk, EofMark)
  /\ begin' = Len(disk) + 2
  /\ accepted' = <<>>
  /\ written' = <<>>
  /\ UNCHANGED <<bytes_used, memstart_ttr, memstart_ttr_known, dcbblksi, block, asked>>

\* The same at the point where callers do it: after a flush that returned 0.
StowMember == bytes_used = 0 /\ EnterMember

Next ==
  \/ \E len \in Lens : AddToBlock(len)
  \/ \E len \in Lens : WriteThenAdd(len)
  \/ \E len \in Lens : RecordRefused(len)
  \/ Flush
  \/ FlushFails
  \/ StowMember

Spec == Init /\ [][Next]_vars

-----------------------------------------------------------------------------
(* Properties *)

TypeOK ==
  /\ bytes_used \in Nat
  /\ memstart_ttr \in Nat
  /\ memstart_ttr_known \in BOOLEAN
  /\ dcbblksi \in Nat
  /\ block \in Seq(Record)
  /\ disk \in Seq(Blocks)
  /\ dir \in Seq(Entries)
  /\ begin \in Nat
  /\ asked \in Seq(Nat)
  /\ accepted \in Seq(Nat)
  /\ written \in Seq(Nat)

\* copy_record_to_block never writes past the block_size bytes that bpam_open
\* got for the block, whatever lengths arrive, although can_add_record_to_block
\* ignores the BDW of an empty block and compares lengths before truncation.
BlockNeverOverflows == bytes_used <= BlkSize

\* The check validate_var_block makes only under debug always succeeds: headers
\* lead from record to record up to bytes_used, in the buffer and in every block
\* that was written, and a written block is not longer than the data set allows.
BlocksValidate ==
  /\ bytes_used # 0 => WalksTo(block, bytes_used)
  /\ bytes_used = 0 => block = <<>>
  /\ \A k \in 1..Len(disk) :
       disk[k] # EofMark =>
         /\ disk[k].size <= BlkSize
         /\ WalksTo(disk[k].recs, disk[k].size)

\* Every record write_record took is, once and in order, on disk or in the
\* block, through spills, failed writes and their retries.
NothingLost == accepted = written \o Ids(block)

\* The TTR passed to STOW for the first member of the handle is that of its
\* first block, however many blocks follow.
FirstMemberTtr ==
  dir # <<>> /\ dir[1].ids # <<>> => dir[1].ttr = dir[1].begin

\* What f2m.c:308 says: 'ttr' is unknown when a member starts and established by
\* its first block, so STOW is passed the TTR of the member's own first block.
MemberTtr ==
  \A k \in 1..Len(dir) : dir[k].ids # <<>> => dir[k].ttr = dir[k].begin
=============================================================================
