----------------------------- MODULE BpamMember -----------------------------
(***************************************************************************)
(* A data set with a handle that writes members to it (BpamWrite) and      *)
(* another that reads the members entered so far (BpamRead), interleaved:  *)
(* alloc_pds allocates with DISP=SHR, so both may be open at once.         *)
(***************************************************************************)
EXTENDS BpamWrite, SequencesExt

VARIABLES next_record_start, next_record_len, line_num, buffer, residual, pos,
          cur, got, status

R == INSTANCE BpamRead

readervars == <<next_record_start, next_record_len, line_num, buffer, residual,
                pos, cur, got, status>>
allvars == <<vars, readervars>>

MemberInit == Init /\ R!Init

MemberNext ==
  \/ Next /\ UNCHANGED readervars
  \/ R!Next /\ UNCHANGED <<handle, begin, asked, accepted, written>>

MemberSpec == MemberInit /\ [][MemberNext]_allvars

-----------------------------------------------------------------------------
(* Properties *)

\* The records of member m as they must be read back, from what write_record was
\* called with.
Expected(m) ==
  [i \in 1..Len(dir[m].ids) |->
     [id |-> dir[m].ids[i], len |-> LengthReadBack(asked[dir[m].ids[i]])]]

\* What read_record_direct delivers after find_member is what write_record took
\* for that member: the same records, in order, cut or filled up to the record
\* length, across block boundaries, short last blocks, failed writes that were
\* retried, members written meanwhile and members read before.
ReadBack == cur # 0 => IsPrefix(got, Expected(cur))

\* End of data is reported once every record has been delivered, not before.
EndMeansAll == status = "eod" => got = Expected(cur)

\* The records on disk from block b to the next end-of-file mark, as lengths of
\* data a reader gets.
OnDisk(b) ==
  LET marks == {k \in b..Len(disk) : disk[k] = EofMark}
      last  == IF marks = {} THEN Len(disk)
               ELSE (CHOOSE k \in marks : \A j \in marks : k <= j) - 1
      recs  == FlattenSeq([k \in 1..(last - b + 1) |-> disk[b + k - 1].recs])
  IN  [i \in 1..Len(recs) |->
         [id |-> recs[i].id, len |-> recs[i].rdw - Header]]
InBlock ==
  [i \in 1..Len(block) |-> [id |-> block[i].id, len |-> block[i].rdw - Header]]

\* The handles and the data set implement MemberStore: records become durable in
\* order and in whole batches, members appear complete, and a reader gets exactly
\* the records of the member it found (bpamio.h:56-85).
Store == INSTANCE MemberStore WITH
  Lengths  <- {LengthReadBack(len) : len \in Lens},
  count    <- Len(asked),
  buffered <- InBlock,
  stored   <- OnDisk(begin),
  members  <- [m \in 1..Len(dir) |-> OnDisk(dir[m].begin)]

ImplementsStore == Store!Spec
=============================================================================
