--------------------------- MODULE BpamWriteProofs --------------------------
(***************************************************************************)
(* Proofs about BpamWrite for every record format, record length, block    *)
(* size and number of records.  First what the layout arithmetic           *)
(* guarantees, then one invariant after the other.                         *)
(***************************************************************************)
EXTENDS BpamWrite, SequenceTheorems, TLAPS

-----------------------------------------------------------------------------
(* Layout *)

\* A length a caller may pass: below the halfword that carries it.
Passable == {n \in Nat : n + RDW_SIZE < HalfWord}

\* The kept part of a record is never longer than the record or than LRecl
\* allows, and the RDW covers exactly it and itself.
LEMMA KeptLength ==
  ASSUME NEW len \in Passable
  PROVE  /\ rec_len(len) \in Nat
         /\ rec_len(len) <= len
         /\ rec_len(len) + Header <= LRecl
         /\ RecFm = "V" => disk_len(len) = rec_len(len) + RDW_SIZE
<1>1. len \in Nat /\ len + 4 < 65536
  BY DEF Passable, RDW_SIZE, HalfWord
<1>2. len % 65536 = len /\ (len + 4) % 65536 = len + 4 /\ (len + 0) % 65536 = len
  BY <1>1
<1>3. CASE RecFm = "V"
  <2>1. LRecl \in Nat /\ 4 <= LRecl
    BY <1>3, GeometryAssumption DEF RDW_SIZE
  <2>2. rec_len(len) = IF len + 4 > LRecl THEN LRecl - 4 ELSE len
    BY <1>2, <1>3 DEF rec_len, Header, RDW_SIZE, HalfWord
  <2>3. disk_len(len) = IF len + 4 > LRecl THEN LRecl ELSE len + 4
    BY <1>2, <1>3 DEF disk_len, RDW_SIZE, HalfWord
  <2>4. QED
    BY <1>1, <1>3, <2>1, <2>2, <2>3 DEF Header, RDW_SIZE
<1>4. CASE RecFm = "F"
  <2>1. LRecl \in Nat
    BY GeometryAssumption
  <2>2. rec_len(len) = IF len > LRecl THEN LRecl ELSE len
    BY <1>1, <1>2, <1>4, <2>1 DEF rec_len, Header, HalfWord
  <2>3. QED
    BY <1>1, <1>4, <2>1, <2>2 DEF Header
<1>5. QED
  BY <1>3, <1>4, GeometryAssumption

\* A record takes up the bytes its RDW announces (LRecl of them when fixed).
LEMMA PlacedRecord ==
  ASSUME NEW used \in Nat, NEW id \in Nat, NEW len \in Passable
  PROVE  /\ Placed(used, id, len) \in Record
         /\ Placed(used, id, len).id = id
         /\ Placed(used, id, len).at = StartOffset(used)
         /\ Header <= Placed(used, id, len).rdw
         /\ UsedAfter(used, len) = Placed(used, id, len).at + Placed(used, id, len).rdw
         /\ UsedAfter(used, len) \in Nat
         /\ UsedAfter(used, len) # 0
<1>1. /\ rec_len(len) \in Nat
      /\ rec_len(len) + Header <= LRecl
      /\ RecFm = "V" => disk_len(len) = rec_len(len) + RDW_SIZE
  BY KeptLength
<1>2. StartOffset(used) \in Nat
  BY DEF StartOffset, Prefix, BDW_SIZE
<1>3. CASE RecFm = "V"
  BY <1>1, <1>2, <1>3 DEF Placed, UsedAfter, Record, Header, RDW_SIZE
<1>4. CASE RecFm = "F"
  BY <1>1, <1>2, <1>4, GeometryAssumption DEF Placed, UsedAfter, Record, Header
<1>5. QED
  BY <1>3, <1>4, GeometryAssumption

\* The record fits: in a block with records because can_add_record_to_block said
\* so, in an empty one because the longest record and the BDW do.
LEMMA RecordFits ==
  ASSUME NEW used \in Nat, NEW len \in Passable,
         can_add_record_to_block(used, len) \/ used = 0
  PROVE  UsedAfter(used, len) <= BlkSize
<1>1. /\ rec_len(len) \in Nat
      /\ rec_len(len) <= len
      /\ rec_len(len) + Header <= LRecl
      /\ len \in Nat
  BY KeptLength DEF Passable
<1>2. CASE RecFm = "V"
  <2>1. LRecl \in Nat /\ BlkSize \in Nat /\ LRecl + 4 <= BlkSize
    BY <1>2, GeometryAssumption DEF BDW_SIZE
  <2>2. UsedAfter(used, len) = (IF used = 0 THEN 4 ELSE used) + 4 + rec_len(len)
    BY <1>1, <1>2 DEF UsedAfter, StartOffset, Prefix, BDW_SIZE, RDW_SIZE
  <2>3. used # 0 => len + 4 + used <= BlkSize
    BY <1>2 DEF can_add_record_to_block, RDW_SIZE
  <2>4. rec_len(len) + 4 <= LRecl
    BY <1>1, <1>2 DEF Header, RDW_SIZE
  <2>5. QED
    BY <1>1, <2>1, <2>2, <2>3, <2>4
<1>3. CASE RecFm = "F"
  <2>1. LRecl \in Nat /\ BlkSize \in Nat /\ LRecl <= BlkSize
    BY <1>3, GeometryAssumption
  <2>2. UsedAfter(used, len) = used + LRecl
    <3>1. StartOffset(used) = used
      BY <1>3 DEF StartOffset, Prefix
    <3>2. UsedAfter(used, len) = used + (rec_len(len) + (LRecl - rec_len(len)))
      BY <1>3, <3>1 DEF UsedAfter
    <3>3. QED
      BY <1>1, <2>1, <3>2
  <2>3. QED
    BY <1>3, <2>1, <2>2 DEF can_add_record_to_block
<1>4. QED
  BY <1>2, <1>3, GeometryAssumption

-----------------------------------------------------------------------------
(* Sequences of records *)

\* The ids of the records of a block are a sequence of numbers, one for each record
\* in the record's place.
LEMMA IdsOf ==
  ASSUME NEW s \in Seq(Record)
  PROVE  /\ Ids(s) \in Seq(Nat)
         /\ Len(Ids(s)) = Len(s)
         /\ \A i \in 1..Len(s) : Ids(s)[i] = s[i].id
<1>1. Len(s) \in Nat
  OBVIOUS
<1>2. Ids(s) \in [1..Len(s) -> Nat]
  <2>1. \A i \in 1..Len(s) : s[i] \in Record
    BY ElementOfSeq
  <2>2. \A i \in 1..Len(s) : s[i].id \in Nat
    BY <2>1 DEF Record
  <2>3. QED
    BY <2>2 DEF Ids
<1>3. Ids(s) \in Seq(Nat)
  BY <1>1, <1>2
<1>4. DOMAIN Ids(s) = 1..Len(s)
  BY DEF Ids
<1>5. Len(Ids(s)) = Len(s)
  BY <1>1, <1>3, <1>4
<1>6. QED
  BY <1>3, <1>5 DEF Ids

\* The ids on disk and in the block, taken together, grow by the record appended.
LEMMA IdsAppend ==
  ASSUME NEW w \in Seq(Nat), NEW s \in Seq(Record), NEW r \in Record
  PROVE  w \o Ids(Append(s, r)) = Append(w \o Ids(s), r.id)
<1>1. Append(s, r) \in Seq(Record) /\ Len(Append(s, r)) = Len(s) + 1
  OBVIOUS
<1>2. /\ Ids(s) \in Seq(Nat)
      /\ Len(Ids(s)) = Len(s)
      /\ \A i \in 1..Len(s) : Ids(s)[i] = s[i].id
  BY IdsOf
<1>3. /\ Ids(Append(s, r)) \in Seq(Nat)
      /\ Len(Ids(Append(s, r))) = Len(s) + 1
      /\ \A i \in 1..Len(s) + 1 : Ids(Append(s, r))[i] = Append(s, r)[i].id
  BY IdsOf, <1>1
<1>4. r.id \in Nat
  BY DEF Record
<1>5. Ids(Append(s, r)) = Append(Ids(s), r.id)
  <2>1. Append(Ids(s), r.id) \in Seq(Nat) /\ Len(Append(Ids(s), r.id)) = Len(s) + 1
    BY <1>2, <1>4
  <2>2. \A i \in 1..Len(s) + 1 : Ids(Append(s, r))[i] = Append(Ids(s), r.id)[i]
    <3>1. ASSUME NEW i \in 1..Len(s)
          PROVE  Ids(Append(s, r))[i] = Append(Ids(s), r.id)[i]
      <4>1. Append(s, r)[i] = s[i]
        BY AppendProperties
      <4>2. Append(Ids(s), r.id)[i] = Ids(s)[i]
        BY <1>2, <1>4, AppendProperties
      <4>3. i \in 1..Len(s) + 1
        BY LenProperties
      <4>4. QED
        BY <1>2, <1>3, <4>1, <4>2, <4>3
    <3>2. Ids(Append(s, r))[Len(s) + 1] = Append(Ids(s), r.id)[Len(s) + 1]
      <4>1. Append(s, r)[Len(s) + 1] = r
        BY AppendProperties
      <4>2. Append(Ids(s), r.id)[Len(s) + 1] = r.id
        BY <1>2, <1>4, AppendProperties
      <4>3. QED
        BY <1>3, <4>1, <4>2
    <3>3. \A i \in 1..Len(s) + 1 : i \in 1..Len(s) \/ i = Len(s) + 1
      BY LenProperties
    <3>4. QED
      BY <3>1, <3>2, <3>3
  <2>3. QED
    BY <1>3, <2>1, <2>2, SeqEqual
<1>6. QED
  BY <1>2, <1>4, <1>5

-----------------------------------------------------------------------------
(* Types *)

\* Every operation of the handle keeps the types.
LEMMA TypeStep == TypeOK /\ [Next]_vars => TypeOK'
<1> SUFFICES ASSUME TypeOK, [Next]_vars
             PROVE  TypeOK'
  OBVIOUS
<1>0. Lens \subseteq Passable /\ BlkSize \in Nat
  BY WriteAssumption, GeometryAssumption DEF Passable
<1>1. ASSUME NEW len \in Lens, NEW recs \in Seq(Record), NEW used \in Nat,
             copy_record_to_block(recs, used, len)
      PROVE  /\ block' \in Seq(Record)
             /\ bytes_used' \in Nat
             /\ asked' \in Seq(Nat)
             /\ accepted' \in Seq(Nat)
  <2>1. Len(asked) + 1 \in Nat /\ len \in Passable /\ len \in Nat
    BY <1>0, WriteAssumption DEF TypeOK
  <2>2. Placed(used, Len(asked) + 1, len) \in Record /\ UsedAfter(used, len) \in Nat
    BY <2>1, PlacedRecord
  <2>3. QED
    BY <1>1, <2>1, <2>2 DEF copy_record_to_block, TypeOK
<1>2. ASSUME write_block
      PROVE  /\ dcbblksi' \in Nat
             /\ disk' \in Seq(Blocks)
             /\ written' \in Seq(Nat)
             /\ memstart_ttr' \in Nat
             /\ memstart_ttr_known' \in BOOLEAN
  <2>1. dcbblksi' \in Nat
    BY <1>0, <1>2 DEF write_block, NoteMemberStart, BlockLength, TypeOK
  <2>2. Transferred \in Nat
    BY <2>1 DEF Transferred, TypeOK, HalfWord
  <2>3. DataBlock(Transferred, block) \in Blocks
    BY <2>2 DEF DataBlock, Blocks, TypeOK
  <2>4. Ids(block) \in Seq(Nat)
    BY IdsOf DEF TypeOK
  <2>5. disk' \in Seq(Blocks)
    BY <1>2, <2>3, AppendProperties DEF write_block, NoteMemberStart, TypeOK
  <2>6. written' \in Seq(Nat)
    BY <1>2, <2>4, ConcatProperties DEF write_block, NoteMemberStart, TypeOK
  <2>7. memstart_ttr' \in Nat
    BY <1>2 DEF write_block, NoteMemberStart, TypeOK
  <2>8. memstart_ttr_known' \in BOOLEAN
    BY <1>2 DEF write_block, NoteMemberStart, TypeOK
  <2>9. QED
    BY <2>1, <2>5, <2>6, <2>7, <2>8
<1>3. ASSUME write_block_fails PROVE TypeOK'
  BY <1>0, <1>3 DEF write_block_fails, BlockLength, TypeOK
<1>4. ASSUME NEW len \in Lens, AddToBlock(len) PROVE TypeOK'
  BY <1>1, <1>4 DEF AddToBlock, TypeOK
<1>5. ASSUME NEW len \in Lens, WriteThenAdd(len) PROVE TypeOK'
  <2>1. <<>> \in Seq(Record) /\ 0 \in Nat
    BY EmptySeq
  <2>2. QED
    BY <1>1, <1>2, <1>5, <2>1 DEF WriteThenAdd, TypeOK
<1>6. ASSUME NEW len \in Lens, RecordRefused(len) PROVE TypeOK'
  BY <1>3, <1>6 DEF RecordRefused
<1>7. CASE Flush
  BY <1>2, <1>7 DEF Flush, TypeOK
<1>8. CASE FlushFails
  BY <1>3, <1>8 DEF FlushFails
<1>9. CASE StowMember
  <2>1. EofMark \in Blocks
    BY EmptySeq DEF EofMark, DataBlock, Blocks
  <2>2. [begin |-> begin, ttr |-> memstart_ttr, ids |-> accepted] \in Entries
    BY DEF Entries, TypeOK
  <2>3. QED
    BY <1>9, <2>1, <2>2 DEF StowMember, EnterMember, TypeOK
<1>10. CASE UNCHANGED vars
  BY <1>10 DEF vars, TypeOK
<1>11. QED
  BY <1>4, <1>5, <1>6, <1>7, <1>8, <1>9, <1>10 DEF Next

\* A handle is opened with values of the types.
LEMMA InitTypes == Init => TypeOK
<1>1. <<>> \in Seq(Record) /\ <<>> \in Seq(Blocks) /\ <<>> \in Seq(Entries) /\ <<>> \in Seq(Nat)
  BY EmptySeq
<1>2. 0 \in Nat /\ 1 \in Nat /\ FALSE \in BOOLEAN /\ BlkSize \in Nat
  BY GeometryAssumption
<1>3. QED
  BY <1>1, <1>2, Zenon DEF Init, TypeOK

\* Whatever the callers do, the handle's fields and the data set keep their types.
THEOREM TypeCorrect == Spec => []TypeOK
BY InitTypes, TypeStep, PTL DEF Spec

-----------------------------------------------------------------------------
(* The block buffer and the blocks on disk *)

\* A record placed at the end of a well-formed block gives a well-formed block.
LEMMA WalkExtends ==
  ASSUME NEW recs \in Seq(Record), NEW used \in Nat, NEW r \in Record,
         used # 0 => WalksTo(recs, used),
         used = 0 => recs = <<>>,
         r.at = StartOffset(used),
         Header <= r.rdw
  PROVE  WalksTo(Append(recs, r), r.at + r.rdw)
<1> DEFINE n == Len(recs)
           more == Append(recs, r)
<1>1. /\ n \in Nat
      /\ more \in Seq(Record)
      /\ more # <<>>
      /\ Len(more) = n + 1
      /\ more[n + 1] = r
      /\ \A i \in 1..n : more[i] = recs[i]
  BY AppendProperties, LenProperties
<1>2. CASE used = 0
  <2>1. n = 0
    BY <1>2
  <2>2. r.at = Prefix
    BY <1>2 DEF StartOffset
  <2>3. QED
    BY <1>1, <2>1, <2>2 DEF WalksTo
<1>3. CASE used # 0
  <2>1. /\ recs # <<>>
        /\ recs[1].at = Prefix
        /\ \A i \in 1..n - 1 : recs[i + 1].at = recs[i].at + recs[i].rdw
        /\ recs[n].at + recs[n].rdw = used
        /\ \A i \in 1..n : Header <= recs[i].rdw
    BY <1>3 DEF WalksTo
  <2>2. n > 0
    BY <1>1, <2>1, EmptySeq
  <2>3. r.at = used
    BY <1>3 DEF StartOffset
  <2>4. more[1].at = Prefix
    BY <1>1, <2>1, <2>2
  <2>5. \A i \in 1..n : more[i + 1].at = more[i].at + more[i].rdw
    <3>1. SUFFICES ASSUME NEW i \in 1..n
                   PROVE  more[i + 1].at = more[i].at + more[i].rdw
      OBVIOUS
    <3>2. CASE i = n
      BY <1>1, <2>1, <2>2, <2>3, <3>2
    <3>3. CASE i \in 1..n - 1
      BY <1>1, <2>1, <3>3
    <3>4. QED
      BY <1>1, <3>2, <3>3
  <2>6. \A i \in 1..n + 1 : Header <= more[i].rdw
    BY <1>1, <2>1
  <2>7. QED
    BY <1>1, <2>4, <2>5, <2>6 DEF WalksTo
<1>4. QED
  BY <1>2, <1>3

\* The two properties of the buffer hold together: a block can be written as a
\* valid one of at most BlkSize bytes because the buffer is one at every moment.
LayoutInv == BlockNeverOverflows /\ BlocksValidate

\* One record copied into a buffer it was found to fit.
LEMMA CopyKeepsLayout ==
  ASSUME TypeOK, NEW len \in Lens, NEW recs \in Seq(Record), NEW used \in Nat,
         used # 0 => WalksTo(recs, used),
         used = 0 => recs = <<>>,
         can_add_record_to_block(used, len) \/ used = 0,
         copy_record_to_block(recs, used, len)
  PROVE  /\ bytes_used' <= BlkSize
         /\ bytes_used' # 0
         /\ WalksTo(block', bytes_used')
<1> DEFINE r == Placed(used, Len(asked) + 1, len)
<1>1. len \in Passable /\ Len(asked) + 1 \in Nat
  BY WriteAssumption, LenProperties DEF Passable, TypeOK
<1>2. /\ r \in Record
      /\ r.at = StartOffset(used)
      /\ Header <= r.rdw
      /\ UsedAfter(used, len) = r.at + r.rdw
      /\ UsedAfter(used, len) # 0
  BY <1>1, PlacedRecord
<1>3. UsedAfter(used, len) <= BlkSize
  BY <1>1, RecordFits
<1>4. WalksTo(Append(recs, r), r.at + r.rdw)
  BY <1>2, WalkExtends
<1>5. block' = Append(recs, r) /\ bytes_used' = UsedAfter(used, len)
  BY DEF copy_record_to_block
<1>6. QED
  BY <1>2, <1>3, <1>4, <1>5

\* A block that is written is the buffer, byte for byte.
LEMMA WriteKeepsLayout ==
  ASSUME TypeOK, LayoutInv, write_block
  PROVE  \A k \in 1..Len(disk') :
           disk'[k] # EofMark =>
             disk'[k].size <= BlkSize /\ WalksTo(disk'[k].recs, disk'[k].size)
<1>1. Transferred = bytes_used
  <2>1. bytes_used \in Nat /\ BlkSize \in Nat /\ bytes_used <= BlkSize /\ BlkSize < 65536
    BY GeometryAssumption DEF TypeOK, LayoutInv, BlockNeverOverflows, HalfWord
  <2>2. bytes_used % 65536 = bytes_used
    BY <2>1
  <2>3. CASE RecFm = "V"
    BY <2>2, <2>3 DEF Transferred, HalfWord
  <2>4. CASE RecFm # "V"
    BY <2>4 DEF Transferred, write_block, NoteMemberStart, BlockLength
  <2>5. QED
    BY <2>3, <2>4
<1> DEFINE b == DataBlock(bytes_used, block)
<1>2. b \in Blocks /\ b.size = bytes_used /\ b.recs = block
  BY DEF TypeOK, Blocks, DataBlock
<1>3. disk' = Append(disk, b)
  BY <1>1 DEF write_block, NoteMemberStart
<1>4. b.size <= BlkSize /\ WalksTo(b.recs, b.size)
  BY <1>2 DEF write_block, NoteMemberStart, LayoutInv, BlocksValidate, BlockNeverOverflows
<1>5. /\ Len(disk') = Len(disk) + 1
      /\ Len(disk) \in Nat
      /\ disk'[Len(disk) + 1] = b
      /\ \A k \in 1..Len(disk) : disk'[k] = disk[k]
  BY <1>2, <1>3, AppendProperties, LenProperties DEF TypeOK
<1>6. \A k \in 1..Len(disk') : k \in 1..Len(disk) \/ k = Len(disk) + 1
  BY <1>5
<1>7. QED
  BY <1>4, <1>5, <1>6 DEF LayoutInv, BlocksValidate

\* Every operation on the handle keeps the block buffer and the disk well formed.
LEMMA LayoutStep == TypeOK /\ LayoutInv /\ [Next]_vars => LayoutInv'
<1> SUFFICES ASSUME TypeOK, LayoutInv, [Next]_vars
             PROVE  LayoutInv'
  OBVIOUS
<1> USE DEF LayoutInv, BlockNeverOverflows, BlocksValidate
<1>1. ASSUME NEW len \in Lens, AddToBlock(len) PROVE LayoutInv'
  <2>1. bytes_used' <= BlkSize /\ bytes_used' # 0 /\ WalksTo(block', bytes_used')
    BY <1>1, CopyKeepsLayout DEF AddToBlock, TypeOK
  <2>2. QED
    BY <1>1, <2>1 DEF AddToBlock
<1>2. ASSUME NEW len \in Lens, WriteThenAdd(len) PROVE LayoutInv'
  <2>1. <<>> \in Seq(Record) /\ 0 \in Nat
    BY EmptySeq
  <2>2. bytes_used' <= BlkSize /\ bytes_used' # 0 /\ WalksTo(block', bytes_used')
    BY <1>2, <2>1, CopyKeepsLayout DEF WriteThenAdd
  <2>3. \A k \in 1..Len(disk') :
          disk'[k] # EofMark =>
            disk'[k].size <= BlkSize /\ WalksTo(disk'[k].recs, disk'[k].size)
    BY <1>2, WriteKeepsLayout DEF WriteThenAdd
  <2>4. QED
    BY <2>2, <2>3
<1>3. ASSUME write_block_fails PROVE LayoutInv'
  BY <1>3 DEF write_block_fails
<1>4. ASSUME NEW len \in Lens, RecordRefused(len) PROVE LayoutInv'
  BY <1>3, <1>4 DEF RecordRefused
<1>5. CASE Flush
  <2>1. \A k \in 1..Len(disk') :
          disk'[k] # EofMark =>
            disk'[k].size <= BlkSize /\ WalksTo(disk'[k].recs, disk'[k].size)
    BY <1>5, WriteKeepsLayout DEF Flush
  <2>2. bytes_used' = 0 /\ block' = <<>> /\ 0 <= BlkSize
    BY <1>5, GeometryAssumption DEF Flush
  <2>3. QED
    BY <2>1, <2>2
<1>6. CASE FlushFails
  BY <1>3, <1>6 DEF FlushFails
<1>7. CASE StowMember
  <2>1. EofMark \in Blocks
    BY EmptySeq DEF EofMark, DataBlock, Blocks
  <2>2. /\ Len(disk') = Len(disk) + 1
        /\ Len(disk) \in Nat
        /\ disk'[Len(disk) + 1] = EofMark
        /\ \A k \in 1..Len(disk) : disk'[k] = disk[k]
    BY <1>7, <2>1, AppendProperties, LenProperties DEF StowMember, EnterMember, TypeOK
  <2>3. \A k \in 1..Len(disk') : k \in 1..Len(disk) \/ k = Len(disk) + 1
    BY <2>2
  <2>4. UNCHANGED <<bytes_used, block>>
    BY <1>7 DEF StowMember, EnterMember
  <2>5. QED
    BY <2>2, <2>3, <2>4
<1>8. CASE UNCHANGED vars
  BY <1>8 DEF vars
<1>9. QED
  BY <1>1, <1>2, <1>4, <1>5, <1>6, <1>7, <1>8 DEF Next

\* A handle is opened with an empty block and nothing written.
LEMMA InitLayout == Init => LayoutInv
BY GeometryAssumption DEF Init, LayoutInv, BlockNeverOverflows, BlocksValidate

\* Hence they always are, from the handle that open_pds_for_write returned.
LEMMA LayoutInvariant == Spec => []LayoutInv
BY InitLayout, TypeCorrect, LayoutStep, PTL DEF Spec

\* The records of a block never take more than the block_size bytes of storage
\* that bpam_open got for it: no record format, length or sequence of calls makes
\* copy_record_to_block write outside the buffer.
THEOREM NoBlockOverflow == Spec => []BlockNeverOverflows
<1>1. LayoutInv => BlockNeverOverflows
  BY DEF LayoutInv
<1>2. QED
  BY <1>1, LayoutInvariant, PTL

\* The debugging check validate_var_block could be made before every write, of
\* any block, and would never fail; every block on disk passes it too.
THEOREM EveryBlockValidates == Spec => []BlocksValidate
<1>1. LayoutInv => BlocksValidate
  BY DEF LayoutInv
<1>2. QED
  BY <1>1, LayoutInvariant, PTL

-----------------------------------------------------------------------------
(* No record is lost or duplicated *)

\* What write_block puts on disk and what the buffer then holds are together
\* what they were before.
LEMMA NothingLostStep == TypeOK /\ LayoutInv /\ NothingLost /\ [Next]_vars => NothingLost'
<1> SUFFICES ASSUME TypeOK, LayoutInv, NothingLost, [Next]_vars
             PROVE  NothingLost'
  OBVIOUS
<1> USE DEF NothingLost
<1>0. /\ block \in Seq(Record) /\ written \in Seq(Nat) /\ Ids(block) \in Seq(Nat)
      /\ Ids(<<>>) = <<>> /\ <<>> \in Seq(Record)
      /\ Len(asked) + 1 \in Nat
  BY IdsOf, EmptySeq, LenProperties DEF TypeOK, Ids
<1>1. ASSUME NEW len \in Lens, NEW recs \in Seq(Record), NEW used \in Nat,
             copy_record_to_block(recs, used, len)
      PROVE  \A w \in Seq(Nat) :
               w \o Ids(block') = Append(w \o Ids(recs), Len(asked) + 1)
  <2> DEFINE r == Placed(used, Len(asked) + 1, len)
  <2>1. len \in Passable
    BY WriteAssumption DEF Passable
  <2>2. r \in Record /\ r.id = Len(asked) + 1
    BY <1>0, <2>1, PlacedRecord
  <2>3. block' = Append(recs, r)
    BY <1>1 DEF copy_record_to_block
  <2>4. QED
    BY <2>2, <2>3, IdsAppend
<1>2. ASSUME NEW len \in Lens, AddToBlock(len) PROVE NothingLost'
  <2>1. written \o Ids(block') = Append(written \o Ids(block), Len(asked) + 1)
    BY <1>0, <1>1, <1>2 DEF AddToBlock, TypeOK
  <2>2. accepted' = Append(accepted, Len(asked) + 1) /\ written' = written
    BY <1>2 DEF AddToBlock, copy_record_to_block
  <2>3. QED
    BY <2>1, <2>2
<1>3. ASSUME NEW len \in Lens, WriteThenAdd(len) PROVE NothingLost'
  <2>1. written' = written \o Ids(block) /\ written' \in Seq(Nat)
    BY <1>0, <1>3, ConcatProperties DEF WriteThenAdd, write_block, NoteMemberStart
  <2>2. written' \o Ids(block') = Append(written' \o Ids(<<>>), Len(asked) + 1)
    BY <1>0, <1>1, <1>3, <2>1 DEF WriteThenAdd
  <2>3. written' \o Ids(<<>>) = written'
    BY <1>0, <2>1, ConcatEmptySeq
  <2>4. accepted' = Append(accepted, Len(asked) + 1)
    BY <1>3 DEF WriteThenAdd, copy_record_to_block
  <2>5. QED
    BY <2>1, <2>2, <2>3, <2>4
<1>4. ASSUME write_block_fails PROVE NothingLost'
  BY <1>4 DEF write_block_fails
<1>5. ASSUME NEW len \in Lens, RecordRefused(len) PROVE NothingLost'
  BY <1>4, <1>5 DEF RecordRefused
<1>6. CASE Flush
  <2>1. written' = written \o Ids(block) /\ written' \in Seq(Nat)
    BY <1>0, <1>6, ConcatProperties DEF Flush, write_block, NoteMemberStart
  <2>2. written' \o Ids(<<>>) = written'
    BY <1>0, <2>1, ConcatEmptySeq
  <2>3. block' = <<>> /\ accepted' = accepted
    BY <1>6 DEF Flush
  <2>4. QED
    BY <2>1, <2>2, <2>3
<1>7. CASE FlushFails
  BY <1>4, <1>7 DEF FlushFails
<1>8. CASE StowMember
  <2>1. block' = <<>> /\ accepted' = <<>> /\ written' = <<>>
    BY <1>8 DEF StowMember, EnterMember, LayoutInv, BlocksValidate
  <2>2. <<>> \o <<>> = <<>>
    BY <1>0, EmptySeq, ConcatEmptySeq
  <2>3. QED
    BY <1>0, <2>1, <2>2
<1>9. CASE UNCHANGED vars
  BY <1>9 DEF vars
<1>10. QED
  BY <1>2, <1>3, <1>5, <1>6, <1>7, <1>8, <1>9 DEF Next

\* A handle is opened before any record is taken.
LEMMA InitNothingLost == Init => NothingLost
<1>1. Ids(<<>>) = <<>> /\ <<>> \o <<>> = <<>>
  BY EmptySeq, ConcatEmptySeq DEF Ids
<1>2. QED
  BY <1>1 DEF Init, NothingLost

\* Every record write_record returned 0 or 1 for is on disk or in the buffer, once
\* and in its place, whatever writes failed and were retried in between.
THEOREM NoRecordLost == Spec => []NothingLost
BY InitNothingLost, TypeCorrect, LayoutInvariant, NothingLostStep, PTL DEF Spec

-----------------------------------------------------------------------------
(* The TTR of the first member *)

\* Until a member is entered, a known TTR is that of the first block of the data
\* set written through the handle, and an unknown one means there is none.
TtrInv ==
  /\ FirstMemberTtr
  /\ dir = <<>> =>
       /\ begin = 1
       /\ memstart_ttr_known => memstart_ttr = 1
       /\ ~memstart_ttr_known => disk = <<>> /\ written = <<>>

\* Every operation keeps what is known of the TTR while the first member is written.
LEMMA TtrStep ==
  TypeOK /\ LayoutInv /\ NothingLost /\ TtrInv /\ [Next]_vars => TtrInv'
<1> SUFFICES ASSUME TypeOK, LayoutInv, NothingLost, TtrInv, [Next]_vars
             PROVE  TtrInv'
  OBVIOUS
<1> USE DEF TtrInv, FirstMemberTtr
<1>1. ASSUME write_block, UNCHANGED <<dir, begin>> PROVE TtrInv'
  <2>1. memstart_ttr_known'
    BY <1>1 DEF write_block, NoteMemberStart
  <2>2. ASSUME dir = <<>> PROVE memstart_ttr' = 1
    <3>1. CASE memstart_ttr_known
      BY <1>1, <2>2, <3>1 DEF write_block, NoteMemberStart
    <3>2. CASE ~memstart_ttr_known
      <4>1. disk = <<>> /\ Len(disk) = 0
        BY <2>2, <3>2, EmptySeq
      <4>2. memstart_ttr' = Len(disk) + 1
        BY <1>1, <3>2 DEF write_block, NoteMemberStart
      <4>3. QED
        BY <4>1, <4>2
    <3>3. QED
      BY <3>1, <3>2
  <2>3. UNCHANGED <<dir, begin>> /\ (dir = <<>> => begin = 1)
    BY <1>1
  <2>4. FirstMemberTtr'
    BY <2>3
  <2>5. QED
    BY <2>1, <2>2, <2>3, <2>4
<1>2. ASSUME write_block_fails PROVE TtrInv'
  BY <1>2 DEF write_block_fails
<1>3. ASSUME NEW len \in Lens, AddToBlock(len) PROVE TtrInv'
  BY <1>3 DEF AddToBlock
<1>4. ASSUME NEW len \in Lens, WriteThenAdd(len) PROVE TtrInv'
  BY <1>1, <1>4 DEF WriteThenAdd
<1>5. ASSUME NEW len \in Lens, RecordRefused(len) PROVE TtrInv'
  BY <1>2, <1>5 DEF RecordRefused
<1>6. CASE Flush
  BY <1>1, <1>6 DEF Flush
<1>7. CASE FlushFails
  BY <1>2, <1>7 DEF FlushFails
<1>8. CASE StowMember
  <2> DEFINE e == [begin |-> begin, ttr |-> memstart_ttr, ids |-> accepted]
  <2>1. e \in Entries /\ e.begin = begin /\ e.ttr = memstart_ttr /\ e.ids = accepted
    BY DEF Entries, TypeOK
  <2>2. /\ dir' = Append(dir, e)
        /\ dir' # <<>>
        /\ dir'[Len(dir) + 1] = e
        /\ \A k \in 1..Len(dir) : dir'[k] = dir[k]
    <3>1. dir' = Append(dir, e) /\ dir \in Seq(Entries)
      BY <1>8 DEF StowMember, EnterMember, TypeOK
    <3>2. QED
      BY <2>1, <3>1, AppendProperties
  <2>3. CASE dir = <<>>
    <3>1. dir'[1] = e
      BY <2>2, <2>3, EmptySeq
    <3>2. accepted = written
      <4>1. block = <<>>
        BY <1>8 DEF StowMember, EnterMember, LayoutInv, BlocksValidate
      <4>2. Ids(<<>>) = <<>> /\ written \o <<>> = written
        BY EmptySeq, ConcatEmptySeq DEF Ids, TypeOK
      <4>3. QED
        BY <4>1, <4>2 DEF NothingLost
    <3>3. accepted # <<>> => memstart_ttr_known
      BY <2>3, <3>2
    <3>4. QED
      BY <2>1, <2>2, <2>3, <3>1, <3>3
  <2>4. CASE dir # <<>>
    <3>1. 1 \in 1..Len(dir)
      BY <2>4, EmptySeq, LenProperties DEF TypeOK
    <3>2. QED
      BY <2>2, <2>4, <3>1
  <2>5. QED
    BY <2>3, <2>4
<1>9. CASE UNCHANGED vars
  BY <1>9 DEF vars
<1>10. QED
  BY <1>3, <1>4, <1>5, <1>6, <1>7, <1>8, <1>9 DEF Next

\* STOW is passed the TTR of the member's first block for the first member of a
\* handle, of however many blocks, writes that failed and flushes it is made.
THEOREM FirstTtrCorrect == Spec => []FirstMemberTtr
<1>1. Init => TtrInv
  BY DEF Init, TtrInv, FirstMemberTtr
<1>2. TtrInv => FirstMemberTtr
  BY DEF TtrInv
<1>3. QED
  BY <1>1, <1>2, TypeCorrect, LayoutInvariant, NoRecordLost, TtrStep, PTL DEF Spec
=============================================================================
