-------------------------- MODULE BpamMemberProofs --------------------------
(***************************************************************************)
(* Proofs about BpamMember, a writing and a reading handle on one data     *)
(* set: a reader is given the records of the member it found, and the two  *)
(* handles implement MemberStore.  For every record format, length, block  *)
(* size, and number of records and members.                                *)
(*                                                                         *)
(* Records are numbered through in the order write_record took them, so    *)
(* the records of a block, of a member and of what a reader was given are  *)
(* all runs of consecutive numbers; what has to be carried along is where  *)
(* in the numbering each block of a member starts.                         *)
(***************************************************************************)
EXTENDS BpamMember, BpamWriteProofs, FiniteSetTheorems

-----------------------------------------------------------------------------
(* Induction *)

\* A set of numbers has a least one.
LEMMA LeastNumber ==
  ASSUME NEW T, T \subseteq Nat, T # {}
  PROVE  \E n \in T : \A k \in T : n <= k
<1> DEFINE Below == StrictSubsetOrdering(Nat)
           S == FiniteSubsetsOf(Nat)
           U == {1..n : n \in T}
<1>1. IsWellFoundedOn(Below, S)
  BY FS_StrictSubsetOrderingWellFounded, Zenon
<1>2. U \subseteq S
  <2>1. \A n \in T : 1..n \subseteq Nat /\ IsFiniteSet(1..n)
    BY FS_Interval
  <2>2. QED
    BY <2>1 DEF FiniteSubsetsOf
<1>3. U # {}
  OBVIOUS
<1>4. PICK u \in U : \A v \in U : ~(<<v, u>> \in Below)
  <2> HIDE DEF Below, S, U
  <2>1. QED
    BY <1>1, <1>2, <1>3, WFMin, Zenon
<1>5. PICK n \in T : u = 1..n
  OBVIOUS
<1>6. ASSUME NEW k \in T, k < n
      PROVE  FALSE
  <2>1. n \in 1..n /\ ~(n \in 1..k)
    BY <1>6
  <2>2. 1..k \subseteq 1..n /\ 1..k # 1..n /\ 1..n \subseteq Nat
    BY <1>6, <2>1
  <2>3. <<1..k, 1..n>> \in Below
    BY <2>2 DEF StrictSubsetOrdering
  <2>4. QED
    BY <2>3, <1>4, <1>5
<1>7. QED
  BY <1>6

\* The records of a well-formed block lie one behind the other and inside it,
\* neighbours or not.
LEMMA RecordsApart ==
  ASSUME NEW recs \in Seq(Record), NEW size, WalksTo(recs, size)
  PROVE  /\ \A j \in 1..Len(recs) : \A i \in 1..j - 1 :
              recs[i].at + recs[i].rdw <= recs[j].at
         /\ \A i \in 1..Len(recs) : recs[i].at + recs[i].rdw <= size
<1> DEFINE n == Len(recs)
           Bad == {j \in 1..n : \E i \in 1..j - 1 : ~(recs[i].at + recs[i].rdw <= recs[j].at)}
<1>1. n \in Nat /\ n # 0
  BY LenProperties, EmptySeq DEF WalksTo
<1>2. \A i \in 1..n : recs[i] \in Record
  BY ElementOfSeq
<1>3. \A i \in 1..n : recs[i].at \in Nat /\ recs[i].rdw \in Nat
  BY <1>2 DEF Record
<1>4. \A i \in 1..n - 1 : recs[i + 1].at = recs[i].at + recs[i].rdw
  BY DEF WalksTo
<1>5. Bad = {}
  <2>1. SUFFICES ASSUME Bad # {} PROVE FALSE
    OBVIOUS
  <2>2. PICK j \in Bad : \A k \in Bad : j <= k
    <3>1. Bad \subseteq Nat
      OBVIOUS
    <3> HIDE DEF Bad
    <3>2. QED
      BY <2>1, <3>1, LeastNumber
  <2>3. PICK i \in 1..j - 1 : ~(recs[i].at + recs[i].rdw <= recs[j].at)
    OBVIOUS
  <2>4. j \in 1..n /\ j - 1 \in 1..n - 1 /\ (j - 1) + 1 = j
    BY <1>1
  <2>5. recs[j].at = recs[j - 1].at + recs[j - 1].rdw
    BY <1>4, <2>4
  <2>6. i # j - 1
    BY <1>3, <2>3, <2>4, <2>5
  <2>7. j - 1 \in 1..n /\ ~(j - 1 \in Bad)
    BY <1>1, <2>2, <2>4
  <2>8. i \in 1..(j - 1) - 1
    BY <2>3, <2>4, <2>6
  <2>9. recs[i].at + recs[i].rdw <= recs[j - 1].at
    BY <2>7, <2>8
  <2>10. i \in 1..n
    BY <2>4, <1>1
  <2>11. recs[j - 1].at <= recs[j].at
    BY <1>3, <2>5, <2>7
  <2>12. QED
    BY SMTT(20), <1>3, <2>3, <2>4, <2>7, <2>9, <2>10, <2>11
<1>6. \A i \in 1..n : recs[i].at + recs[i].rdw <= size
  <2>1. SUFFICES ASSUME NEW i \in 1..n PROVE recs[i].at + recs[i].rdw <= size
    OBVIOUS
  <2>2. recs[n].at + recs[n].rdw = size /\ n \in 1..n
    BY <1>1 DEF WalksTo
  <2>3. CASE i = n
    BY <1>3, <2>2, <2>3
  <2>4. CASE i # n
    <3>1. i \in 1..n - 1
      BY <1>1, <2>4
    <3>2. recs[i].at + recs[i].rdw <= recs[n].at
      BY <1>5, <2>2, <3>1
    <3>3. QED
      BY <1>3, <2>2, <3>2
  <2>5. QED
    BY <2>3, <2>4
<1>7. QED
  BY <1>5, <1>6

-----------------------------------------------------------------------------
(* Runs of records *)

\* The record of a number as a reader is given it, a the lengths write_record was
\* called with, and the n records after the first base.
Numbered(a, k) == [id |-> k, len |-> LengthReadBack(a[k])]
Records(a, base, n) == [j \in 1..n |-> Numbered(a, base + j)]
Delivery == [id: Nat, len: Nat]

\* t is s, perhaps with more at its end: all that ever happens to disk and asked.
Extends(s, t) ==
  /\ Len(s) <= Len(t)
  /\ \A k \in 1..Len(s) : t[k] = s[k]

\* A reader is given a number of bytes.
LEMMA ReadBackType ==
  ASSUME NEW len \in Nat
  PROVE  LengthReadBack(len) \in Nat
<1>1. LRecl \in Nat /\ (RecFm = "V" => 4 <= LRecl) /\ RecFm \in {"F", "V"}
  BY GeometryAssumption DEF RDW_SIZE
<1>2. CASE RecFm = "F"
  BY <1>1, <1>2 DEF LengthReadBack
<1>3. CASE RecFm = "V"
  BY <1>1, <1>3 DEF LengthReadBack, LongestData, Header, RDW_SIZE
<1>4. QED
  BY <1>1, <1>2, <1>3

\* copy_record_to_block puts into the block what must be read back, and its RDW.
LEMMA PlacedReadsBack ==
  ASSUME NEW used \in Nat, NEW id \in Nat, NEW len \in Passable
  PROVE  /\ Placed(used, id, len).rdw = Header + LengthReadBack(len)
         /\ 0 < Placed(used, id, len).rdw
<1>1. len \in Nat /\ len + 4 < 65536
  BY DEF Passable, RDW_SIZE, HalfWord
<1>2. CASE RecFm = "V"
  <2>1. LRecl \in Nat /\ 4 <= LRecl
    BY <1>2, GeometryAssumption DEF RDW_SIZE
  <2>2. (len + 4) % 65536 = len + 4
    BY <1>1
  <2>3. disk_len(len) = IF len + 4 > LRecl THEN LRecl ELSE len + 4
    BY <1>2, <2>2 DEF disk_len, RDW_SIZE, HalfWord
  <2>4. LengthReadBack(len) = IF len < LRecl - 4 THEN len ELSE LRecl - 4
    BY <1>2 DEF LengthReadBack, LongestData, Header, RDW_SIZE
  <2>5. Placed(used, id, len).rdw = disk_len(len)
    BY <1>2 DEF Placed
  <2>6. Header = 4
    BY <1>2 DEF Header, RDW_SIZE
  <2>7. disk_len(len) = 4 + LengthReadBack(len) /\ 0 < disk_len(len)
    <3> HIDE DEF Passable
    <3>1. CASE len + 4 > LRecl
      BY <1>1, <2>1, <2>3, <2>4, <3>1
    <3>2. CASE ~(len + 4 > LRecl)
      BY <1>1, <2>1, <2>3, <2>4, <3>2
    <3>3. QED
      BY <3>1, <3>2
  <2>8. QED
    BY <2>5, <2>6, <2>7
<1>3. CASE RecFm = "F"
  <2>1. LRecl \in Nat /\ 0 < LRecl
    BY <1>3, GeometryAssumption
  <2>2. Header = 0 /\ LengthReadBack(len) = LRecl /\ Placed(used, id, len).rdw = LRecl
    BY <1>3 DEF Header, LengthReadBack, Placed
  <2>3. QED
    BY <2>1, <2>2
<1>4. QED
  BY <1>2, <1>3, GeometryAssumption

\* A run of records is a sequence of that many.
LEMMA RecordsType ==
  ASSUME NEW a \in Seq(Nat), NEW base \in Nat, NEW n \in Nat, base + n <= Len(a)
  PROVE  /\ Records(a, base, n) \in Seq(Delivery)
         /\ Len(Records(a, base, n)) = n
         /\ \A j \in 1..n : Records(a, base, n)[j] = Numbered(a, base + j)
<1>1. Len(a) \in Nat
  BY LenProperties
<1>2. ASSUME NEW j \in 1..n
      PROVE  Numbered(a, base + j) \in Delivery
  <2>1. base + j \in 1..Len(a) /\ base + j \in Nat
    BY <1>1
  <2>2. a[base + j] \in Nat
    BY <2>1, ElementOfSeq
  <2>3. QED
    BY <2>1, <2>2, ReadBackType DEF Numbered, Delivery
<1> HIDE DEF Delivery, Numbered
<1>3. Records(a, base, n) \in [1..n -> Delivery]
  BY <1>2 DEF Records
<1>4. Records(a, base, n) \in Seq(Delivery)
  BY <1>3
<1>5. DOMAIN Records(a, base, n) = 1..n
  BY DEF Records
<1>6. Len(Records(a, base, n)) = n
  BY <1>4, <1>5
<1>7. QED
  BY <1>4, <1>6 DEF Records

\* It grows by the next record.
LEMMA RecordsAppend ==
  ASSUME NEW a \in Seq(Nat), NEW base \in Nat, NEW n \in Nat, base + n + 1 <= Len(a)
  PROVE  Records(a, base, n + 1) = Append(Records(a, base, n), Numbered(a, base + n + 1))
<1> DEFINE s == Records(a, base, n)
           t == Records(a, base, n + 1)
           r == Numbered(a, base + n + 1)
<1>1. n + 1 \in Nat /\ Len(a) \in Nat /\ base + n <= Len(a) /\ base + (n + 1) <= Len(a)
  BY LenProperties
<1>2. s \in Seq(Delivery) /\ Len(s) = n /\ \A j \in 1..n : s[j] = Numbered(a, base + j)
  BY <1>1, RecordsType
<1>3. t \in Seq(Delivery) /\ Len(t) = n + 1 /\ \A j \in 1..n + 1 : t[j] = Numbered(a, base + j)
  BY <1>1, RecordsType
<1>4. t[n + 1] = r
  <2>1. n + 1 \in 1..n + 1 /\ base + (n + 1) = base + n + 1
    OBVIOUS
  <2>2. QED
    BY <1>3, <2>1
<1>5. r \in Delivery
  <2>1. n + 1 \in 1..Len(t)
    BY <1>3
  <2>2. QED
    BY <1>3, <1>4, <2>1, ElementOfSeq
<1> HIDE DEF s, t, r
<1>6. /\ Append(s, r) \in Seq(Delivery)
      /\ Len(Append(s, r)) = n + 1
      /\ \A j \in 1..n : Append(s, r)[j] = s[j]
      /\ Append(s, r)[n + 1] = r
  BY <1>2, <1>5, AppendProperties
<1>7. \A j \in 1..n + 1 : t[j] = Append(s, r)[j]
  <2>1. \A j \in 1..n + 1 : j \in 1..n \/ j = n + 1
    OBVIOUS
  <2>2. QED
    BY <1>2, <1>3, <1>4, <1>6, <2>1
<1>8. t = Append(s, r)
  BY <1>3, <1>6, <1>7, SeqEqual
<1>9. QED
  BY <1>8 DEF s, t, r

\* One run after another is one run.
LEMMA RecordsConcat ==
  ASSUME NEW a \in Seq(Nat), NEW base \in Nat, NEW n \in Nat, NEW p \in Nat,
         base + n + p <= Len(a)
  PROVE  Records(a, base, n) \o Records(a, base + n, p) = Records(a, base, n + p)
<1> DEFINE s == Records(a, base, n)
           t == Records(a, base + n, p)
           u == Records(a, base, n + p)
<1>1. /\ base + n \in Nat /\ n + p \in Nat /\ Len(a) \in Nat
      /\ base + n <= Len(a) /\ base + n + p <= Len(a) /\ base + (n + p) <= Len(a)
  BY LenProperties
<1>2. s \in Seq(Delivery) /\ Len(s) = n /\ \A j \in 1..n : s[j] = Numbered(a, base + j)
  BY <1>1, RecordsType
<1>3. t \in Seq(Delivery) /\ Len(t) = p /\ \A j \in 1..p : t[j] = Numbered(a, base + n + j)
  BY <1>1, RecordsType
<1>4. u \in Seq(Delivery) /\ Len(u) = n + p /\ \A j \in 1..n + p : u[j] = Numbered(a, base + j)
  BY <1>1, RecordsType
<1> HIDE DEF s, t, u
<1>5. /\ s \o t \in Seq(Delivery)
      /\ Len(s \o t) = n + p
      /\ \A j \in 1..n + p : (s \o t)[j] = IF j <= n THEN s[j] ELSE t[j - n]
  BY <1>2, <1>3, ConcatProperties
<1>6. ASSUME NEW j \in 1..n + p
      PROVE  u[j] = (s \o t)[j]
  <2>1. CASE j <= n
    <3>1. j \in 1..n
      BY <2>1
    <3>2. QED
      BY <1>2, <1>4, <1>5, <2>1, <3>1
  <2>2. CASE ~(j <= n)
    <3>1. j - n \in 1..p /\ base + n + (j - n) = base + j
      BY <2>2
    <3>2. QED
      BY <1>3, <1>4, <1>5, <2>2, <3>1
  <2>3. QED
    BY <2>1, <2>2
<1>7. u = s \o t
  BY <1>4, <1>5, <1>6, SeqEqual
<1>8. QED
  BY <1>7 DEF s, t, u

\* A run does not change when more records are taken.
LEMMA RecordsStay ==
  ASSUME NEW a \in Seq(Nat), NEW b \in Seq(Nat), Extends(a, b),
         NEW base \in Nat, NEW n \in Nat, base + n <= Len(a)
  PROVE  Records(b, base, n) = Records(a, base, n)
<1>1. Len(a) \in Nat
  BY LenProperties
<1>2. \A j \in 1..n : base + j \in 1..Len(a)
  BY <1>1
<1>3. \A j \in 1..n : Numbered(b, base + j) = Numbered(a, base + j)
  BY <1>2 DEF Extends, Numbered
<1>4. QED
  BY <1>3 DEF Records

-----------------------------------------------------------------------------
(* What blocks hold *)

\* The records of a block are those after number f, as long as they must be.
BlockHolds(recs, a, f) ==
  \A i \in 1..Len(recs) :
    /\ recs[i].id = f + i
    /\ f + i <= Len(a)
    /\ recs[i].rdw = Header + LengthReadBack(a[f + i])

\* The blocks of d from b up to e hold the n records after number base; from[k] is
\* the number before the first record of block k.
Holds(d, a, b, e, base, n, from) ==
  /\ b \in Nat \ {0} /\ e \in Nat /\ b <= e /\ e <= Len(d) + 1
  /\ base \in Nat /\ n \in Nat /\ base + n <= Len(a)
  /\ from[b] = base /\ from[e] = base + n
  /\ \A k \in b..e : from[k] \in Nat
  /\ \A k \in b..e - 1 :
       /\ d[k] # EofMark
       /\ base <= from[k]
       /\ from[k + 1] = from[k] + Len(d[k].recs)
       /\ from[k + 1] <= base + n
       /\ BlockHolds(d[k].recs, a, from[k])

\* What a block holds is not changed by records taken later.
LEMMA BlockStays ==
  ASSUME NEW recs \in Seq(Record), NEW a \in Seq(Nat), NEW b \in Seq(Nat), NEW f \in Nat,
         Extends(a, b), BlockHolds(recs, a, f)
  PROVE  BlockHolds(recs, b, f)
<1>1. Len(a) \in Nat /\ Len(b) \in Nat /\ Len(recs) \in Nat
  BY LenProperties
<1>2. SUFFICES ASSUME NEW i \in 1..Len(recs)
               PROVE  /\ recs[i].id = f + i
                      /\ f + i <= Len(b)
                      /\ recs[i].rdw = Header + LengthReadBack(b[f + i])
  BY DEF BlockHolds
<1>3. /\ recs[i].id = f + i
      /\ f + i <= Len(a)
      /\ recs[i].rdw = Header + LengthReadBack(a[f + i])
  BY DEF BlockHolds
<1>4. f + i \in 1..Len(a)
  BY <1>1, <1>3
<1>5. b[f + i] = a[f + i]
  BY <1>4 DEF Extends
<1>6. f + i <= Len(b)
  BY <1>1, <1>3 DEF Extends
<1>7. QED
  BY <1>3, <1>5, <1>6

\* The next record continues a block.
LEMMA BlockContinues ==
  ASSUME NEW recs \in Seq(Record), NEW a \in Seq(Nat), NEW f \in Nat, BlockHolds(recs, a, f),
         NEW r \in Record, NEW k, k = f + Len(recs) + 1, k <= Len(a),
         r.id = k, r.rdw = Header + LengthReadBack(a[k])
  PROVE  BlockHolds(Append(recs, r), a, f)
<1> DEFINE n == Len(recs)
<1>1. /\ n \in Nat
      /\ Len(Append(recs, r)) = n + 1
      /\ Append(recs, r)[n + 1] = r
      /\ \A i \in 1..n : Append(recs, r)[i] = recs[i]
  BY LenProperties, AppendProperties
<1>2. SUFFICES ASSUME NEW i \in 1..n + 1
               PROVE  /\ Append(recs, r)[i].id = f + i
                      /\ f + i <= Len(a)
                      /\ Append(recs, r)[i].rdw = Header + LengthReadBack(a[f + i])
  BY <1>1 DEF BlockHolds
<1>3. CASE i \in 1..n
  BY <1>1, <1>3 DEF BlockHolds
<1>4. CASE i = n + 1
  <2>1. f + i = k
    BY <1>1, <1>4
  <2>2. QED
    BY <1>1, <1>4, <2>1
<1>5. QED
  BY <1>1, <1>3, <1>4

\* Blocks and records added later change nothing of what a run of blocks holds.
LEMMA HoldsStays ==
  ASSUME NEW d \in Seq(Blocks), NEW e \in Seq(Blocks), Extends(d, e),
         NEW a \in Seq(Nat), NEW b \in Seq(Nat), Extends(a, b),
         NEW first, NEW last, NEW base, NEW n, NEW from,
         Holds(d, a, first, last, base, n, from)
  PROVE  Holds(e, b, first, last, base, n, from)
<1>1. /\ first \in Nat \ {0} /\ last \in Nat /\ first <= last /\ last <= Len(d) + 1
      /\ base \in Nat /\ n \in Nat /\ base + n <= Len(a)
      /\ from[first] = base /\ from[last] = base + n
      /\ \A k \in first..last : from[k] \in Nat
  BY DEF Holds
<1>2. Len(a) \in Nat /\ Len(b) \in Nat /\ Len(d) \in Nat /\ Len(e) \in Nat
  BY LenProperties
<1>3. last <= Len(e) + 1 /\ base + n <= Len(b)
  BY <1>1, <1>2 DEF Extends
<1>4. ASSUME NEW k \in first..last - 1
      PROVE  /\ e[k] # EofMark
             /\ base <= from[k]
             /\ from[k + 1] = from[k] + Len(e[k].recs)
             /\ from[k + 1] <= base + n
             /\ BlockHolds(e[k].recs, b, from[k])
  <2>1. k \in 1..Len(d) /\ k \in first..last
    BY <1>1, <1>2
  <2>2. e[k] = d[k] /\ d[k] \in Blocks
    BY <2>1, ElementOfSeq DEF Extends
  <2>3. d[k].recs \in Seq(Record)
    BY <2>2 DEF Blocks
  <2>4. /\ d[k] # EofMark
        /\ base <= from[k]
        /\ from[k + 1] = from[k] + Len(d[k].recs)
        /\ from[k + 1] <= base + n
        /\ BlockHolds(d[k].recs, a, from[k])
    BY DEF Holds
  <2>5. BlockHolds(d[k].recs, b, from[k])
    BY <1>1, <2>1, <2>3, <2>4, BlockStays
  <2>6. QED
    BY <2>2, <2>4, <2>5
<1>5. QED
  BY <1>1, <1>3, <1>4 DEF Holds

\* A block written behind a run of blocks continues it with its records.
LEMMA HoldsContinues ==
  ASSUME NEW d \in Seq(Blocks), NEW a \in Seq(Nat), NEW first, NEW base, NEW n, NEW from,
         Holds(d, a, first, Len(d) + 1, base, n, from),
         NEW x \in Blocks, x # EofMark, BlockHolds(x.recs, a, base + n),
         base + n + Len(x.recs) <= Len(a)
  PROVE  \E more : Holds(Append(d, x), a, first, Len(d) + 2, base, n + Len(x.recs), more)
<1> DEFINE l == Len(d)
           p == Len(x.recs)
           more == [k \in first..l + 2 |-> IF k = l + 2 THEN base + n + p ELSE from[k]]
<1>1. /\ first \in Nat \ {0} /\ first <= l + 1
      /\ base \in Nat /\ n \in Nat /\ base + n <= Len(a)
      /\ from[first] = base /\ from[l + 1] = base + n
      /\ \A k \in first..l + 1 : from[k] \in Nat
  BY DEF Holds
<1>2. x.recs \in Seq(Record)
  BY DEF Blocks
<1>3. Len(a) \in Nat /\ l \in Nat /\ p \in Nat
  BY <1>2, LenProperties
<1>4. /\ Len(Append(d, x)) = l + 1
      /\ Append(d, x)[l + 1] = x
      /\ \A k \in 1..l : Append(d, x)[k] = d[k]
  BY AppendProperties
<1> HIDE DEF p
<1>5. \A k \in first..l + 1 : more[k] = from[k]
  <2>1. \A k \in first..l + 1 : k \in first..l + 2 /\ k # l + 2
    BY <1>1, <1>3
  <2>2. QED
    BY <2>1, Zenon
<1>6. more[l + 2] = base + n + p
  <2>1. l + 2 \in first..l + 2
    BY <1>1, <1>3
  <2>2. QED
    BY <2>1, Zenon
<1>7. l + 1 \in first..l + 1 /\ first \in first..l + 1
  BY <1>1, <1>3
<1>8. \A k \in first..l + 2 : more[k] \in Nat
  <2>1. \A k \in first..l + 2 : k = l + 2 \/ k \in first..l + 1
    BY <1>1, <1>3
  <2>2. base + n + p \in Nat
    BY <1>1, <1>3
  <2> HIDE DEF more
  <2>3. QED
    BY <1>1, <1>5, <1>6, <2>1, <2>2
<1> HIDE DEF more
<1>9. ASSUME NEW k \in first..(l + 2) - 1
      PROVE  /\ Append(d, x)[k] # EofMark
             /\ base <= more[k]
             /\ more[k + 1] = more[k] + Len(Append(d, x)[k].recs)
             /\ more[k + 1] <= base + (n + p)
             /\ BlockHolds(Append(d, x)[k].recs, a, more[k])
  <2>1. CASE k = l + 1
    <3>1. more[k] = base + n
      BY <1>1, <1>5, <1>7, <2>1
    <3>2. Append(d, x)[k] = x
      BY <1>4, <2>1
    <3>3. more[k + 1] = base + n + p
      <4>1. k + 1 = l + 2
        BY <1>3, <2>1
      <4>2. QED
        BY <1>6, <4>1
    <3>4. base <= base + n /\ base + n + p <= base + (n + p)
      BY <1>1, <1>3
    <3>5. QED
      BY <3>1, <3>2, <3>3, <3>4 DEF p
  <2>2. CASE k \in first..(l + 1) - 1
    <3>1. /\ d[k] # EofMark
          /\ base <= from[k]
          /\ from[k + 1] = from[k] + Len(d[k].recs)
          /\ from[k + 1] <= base + n
          /\ BlockHolds(d[k].recs, a, from[k])
      BY <2>2 DEF Holds
    <3>2. k \in 1..l /\ k \in first..l + 1 /\ k + 1 \in first..l + 1
      BY <1>1, <1>3, <2>2
    <3>3. Append(d, x)[k] = d[k] /\ more[k] = from[k] /\ more[k + 1] = from[k + 1]
      BY <1>4, <1>5, <3>2
    <3>4. from[k + 1] \in Nat
      BY <1>1, <3>2
    <3>5. from[k + 1] <= base + (n + p)
      BY <1>1, <1>3, <3>1, <3>4
    <3>6. QED
      BY <3>1, <3>3, <3>5
  <2>3. k = l + 1 \/ k \in first..(l + 1) - 1
    BY <1>1, <1>3
  <2>4. QED
    BY <2>1, <2>2, <2>3
<1>10. Holds(Append(d, x), a, first, l + 2, base, n + p, more)
  <2>1. l + 2 \in Nat /\ first <= l + 2 /\ l + 2 <= (l + 1) + 1 /\ n + p \in Nat
    BY <1>1, <1>3
  <2>2. base + (n + p) <= Len(a) /\ base + (n + p) = base + n + p
    <3>1. base + n + p <= Len(a)
      BY DEF p
    <3>2. QED
      BY <1>1, <1>3, <3>1
  <2>3. more[first] = base /\ more[l + 2] = base + (n + p)
    BY <1>1, <1>5, <1>6, <1>7, <2>2
  <2>4. QED
    BY <1>1, <1>4, <1>8, <1>9, <2>1, <2>2, <2>3 DEF Holds
<1>11. QED
  BY <1>10 DEF p

\* Before its first block a member holds nothing.
LEMMA HoldsNothing ==
  ASSUME NEW d \in Seq(Blocks), NEW a \in Seq(Nat), NEW b, b = Len(d) + 1, NEW base \in Nat, base <= Len(a)
  PROVE  \E from : Holds(d, a, b, b, base, 0, from)
<1> DEFINE from == [k \in {b} |-> base]
<1>1. b \in Nat \ {0} /\ Len(a) \in Nat /\ Len(d) \in Nat
  BY LenProperties
<1>2. from[b] = base /\ base + 0 = base
  OBVIOUS
<1>3. \A k \in b..b : k = b
  BY <1>1
<1>4. b..b - 1 = {}
  BY <1>1
<1>5. Holds(d, a, b, b, base, 0, from)
  <2> HIDE DEF from
  <2>1. QED
    BY <1>1, <1>2, <1>3, <1>4 DEF Holds
<1>6. QED
  BY <1>5

-----------------------------------------------------------------------------
(* What the writing handle leaves on disk *)

Numbers(base, n) == [i \in 1..n |-> base + i]

\* A member that was entered, the records it should have and the block of its
\* end-of-file mark.
Entered(d, a, entry, e, base, from) ==
  /\ Holds(d, a, entry.begin, e, base, Len(entry.ids), from)
  /\ e <= Len(d)
  /\ d[e] = EofMark
  /\ entry.ids = Numbers(base, Len(entry.ids))

\* The member being written: its blocks to the end of the disk, and the buffer.
Written(base, from) ==
  /\ base \in Nat
  /\ base + Len(accepted) = Len(asked)
  /\ accepted = Numbers(base, Len(accepted))
  /\ BlockHolds(block, asked, base + Len(written))
  /\ Holds(disk, asked, begin, Len(disk) + 1, base, Len(written), from)

OpenInv == \E base, from : Written(base, from)
DirInv == \A m \in 1..Len(dir) : \E e, base, from : Entered(disk, asked, dir[m], e, base, from)

\* The numbers of a run and the next one.
LEMMA NumbersAppend ==
  ASSUME NEW s \in Seq(Nat), NEW base \in Nat, s = Numbers(base, Len(s)),
         NEW k, k = base + Len(s) + 1
  PROVE  Append(s, k) = Numbers(base, Len(s) + 1)
<1> DEFINE n == Len(s)
<1>1. n \in Nat /\ k \in Nat
  BY LenProperties
<1>2. /\ Append(s, k) \in Seq(Nat)
      /\ Len(Append(s, k)) = n + 1
      /\ Append(s, k)[n + 1] = k
      /\ \A i \in 1..n : Append(s, k)[i] = s[i]
  BY <1>1, AppendProperties
<1>3. Append(s, k) = [i \in 1..n + 1 |-> Append(s, k)[i]]
  BY <1>1, <1>2
<1>4. \A i \in 1..n : s[i] = base + i
  <2> HIDE DEF n
  <2>1. s = [i \in 1..n |-> base + i]
    BY DEF Numbers, n
  <2>2. QED
    BY <2>1, Zenon
<1>5. \A i \in 1..n + 1 : Append(s, k)[i] = base + i
  <2>1. \A i \in 1..n + 1 : i \in 1..n \/ i = n + 1
    BY <1>1
  <2>2. base + (n + 1) = k
    BY <1>1
  <2>3. QED
    BY <1>2, <1>4, <2>1, <2>2
<1>6. QED
  BY <1>3, <1>5 DEF Numbers

\* Adding at the end of a sequence extends it.
LEMMA AppendExtends ==
  ASSUME NEW S, NEW s \in Seq(S), NEW x \in S
  PROVE  Extends(s, Append(s, x)) /\ Extends(s, s)
BY AppendProperties, LenProperties DEF Extends

\* The disk, the directory and the records taken only ever grow at their ends.
LEMMA GrowStep ==
  TypeOK /\ TypeOK' /\ [Next]_vars =>
    Extends(disk, disk') /\ Extends(asked, asked') /\ Extends(dir, dir')
<1> SUFFICES ASSUME TypeOK, TypeOK', [Next]_vars
             PROVE  Extends(disk, disk') /\ Extends(asked, asked') /\ Extends(dir, dir')
  OBVIOUS
<1>1. /\ disk \in Seq(Blocks) /\ disk' \in Seq(Blocks)
      /\ asked \in Seq(Nat) /\ dir \in Seq(Entries) /\ dir' \in Seq(Entries)
  BY DEF TypeOK
<1>2. Extends(disk, disk) /\ Extends(asked, asked) /\ Extends(dir, dir)
  BY <1>1, LenProperties DEF Extends
<1>3. ASSUME NEW len \in Lens PROVE Extends(asked, Append(asked, len))
  BY <1>1, WriteAssumption, AppendExtends
<1>4. ASSUME write_block PROVE Extends(disk, disk')
  <2>1. PICK x : disk' = Append(disk, x)
    BY <1>4 DEF write_block, NoteMemberStart
  <2>2. Extends(disk, disk')
    BY <1>1, <2>1, LenProperties, AppendProperties DEF Extends
  <2>3. QED
    BY <2>2
<1>5. ASSUME write_block_fails
      PROVE  Extends(disk, disk') /\ Extends(asked, asked') /\ Extends(dir, dir')
  BY <1>2, <1>5 DEF write_block_fails
<1>6. ASSUME NEW len \in Lens, AddToBlock(len)
      PROVE  Extends(disk, disk') /\ Extends(asked, asked') /\ Extends(dir, dir')
  BY <1>2, <1>3, <1>6 DEF AddToBlock, copy_record_to_block
<1>7. ASSUME NEW len \in Lens, WriteThenAdd(len)
      PROVE  Extends(disk, disk') /\ Extends(asked, asked') /\ Extends(dir, dir')
  BY <1>2, <1>3, <1>4, <1>7 DEF WriteThenAdd, copy_record_to_block
<1>8. ASSUME NEW len \in Lens, RecordRefused(len)
      PROVE  Extends(disk, disk') /\ Extends(asked, asked') /\ Extends(dir, dir')
  BY <1>5, <1>8 DEF RecordRefused
<1>9. CASE Flush
  BY <1>2, <1>4, <1>9 DEF Flush
<1>10. CASE FlushFails
  BY <1>5, <1>10 DEF FlushFails
<1>11. CASE StowMember
  <2> DEFINE entry == [begin |-> begin, ttr |-> memstart_ttr, ids |-> accepted]
  <2>1. dir' = Append(dir, entry) /\ disk' = Append(disk, EofMark) /\ asked' = asked
    BY <1>11 DEF StowMember, EnterMember
  <2>2. entry \in Entries /\ EofMark \in Blocks
    BY EmptySeq DEF Entries, TypeOK, EofMark, DataBlock, Blocks
  <2>3. QED
    BY <1>1, <1>2, <2>1, <2>2, AppendExtends
<1>12. CASE UNCHANGED vars
  BY <1>2, <1>12 DEF vars
<1>13. QED
  BY <1>6, <1>7, <1>8, <1>9, <1>10, <1>11, <1>12 DEF Next

\* copy_record_to_block continues what the buffer holds with the record it takes.
LEMMA CopyContinues ==
  ASSUME TypeOK, TypeOK', NEW len \in Lens, NEW recs \in Seq(Record), NEW used \in Nat,
         NEW f \in Nat, BlockHolds(recs, asked, f), f + Len(recs) = Len(asked),
         copy_record_to_block(recs, used, len)
  PROVE  BlockHolds(block', asked', f)
<1> DEFINE id == Len(asked) + 1
           r == Placed(used, id, len)
<1>1. /\ len \in Passable /\ len \in Nat /\ id \in Nat /\ Len(recs) \in Nat
      /\ asked \in Seq(Nat) /\ asked' \in Seq(Nat)
  BY WriteAssumption, LenProperties DEF Passable, TypeOK
<1>2. /\ r \in Record
      /\ r.id = id
      /\ r.rdw = Header + LengthReadBack(len)
  BY ZenonT(20), <1>1, PlacedRecord, PlacedReadsBack
<1>3. /\ asked' = Append(asked, len)
      /\ block' = Append(recs, r)
  BY DEF copy_record_to_block
<1>4. Len(asked') = id /\ asked'[id] = len
  BY <1>1, <1>3, AppendProperties
<1>5. BlockHolds(recs, asked', f)
  BY <1>1, <1>3, AppendExtends, BlockStays
<1>6. id = f + Len(recs) + 1
  OBVIOUS
<1> HIDE DEF id, r
<1>7. BlockHolds(Append(recs, r), asked', f)
  BY SMTT(20), <1>1, <1>2, <1>4, <1>5, <1>6, BlockContinues
<1>8. QED
  BY <1>3, <1>7

\* write_block puts the buffer on disk as the next block of the member.
LEMMA WriteContinues ==
  ASSUME TypeOK, TypeOK', LayoutInv, NothingLost, NEW base, NEW from, Written(base, from),
         write_block
  PROVE  /\ Len(written') = Len(accepted)
         /\ \E more : Holds(disk', asked, begin, Len(disk') + 1, base, Len(written'), more)
<1>1. /\ disk \in Seq(Blocks) /\ disk' \in Seq(Blocks) /\ asked \in Seq(Nat)
      /\ block \in Seq(Record) /\ written \in Seq(Nat)
  BY DEF TypeOK
<1>2. PICK x \in Blocks : disk' = Append(disk, x) /\ x.recs = block
  <2> DEFINE y == DataBlock(Transferred, block)
  <2>1. disk' = Append(disk, y) /\ y.recs = block
    BY DEF write_block, NoteMemberStart, DataBlock
  <2>2. y = disk'[Len(disk')] /\ Len(disk') \in 1..Len(disk')
    BY <1>1, <2>1, AppendProperties, LenProperties
  <2>3. y \in Blocks
    BY <1>1, <2>2, ElementOfSeq
  <2>4. QED
    BY <2>1, <2>3
<1>3. x # EofMark
  <2>1. block # <<>>
    BY DEF write_block, NoteMemberStart, LayoutInv, BlocksValidate, WalksTo
  <2>2. EofMark.recs = <<>>
    BY DEF EofMark, DataBlock
  <2>3. QED
    BY <1>2, <2>1, <2>2
<1>4. Ids(block) \in Seq(Nat) /\ Len(Ids(block)) = Len(block)
  BY <1>1, IdsOf
<1>5. Len(accepted) = Len(written) + Len(block) /\ Len(written') = Len(written) + Len(block)
  <2>1. accepted = written \o Ids(block) /\ written' = written \o Ids(block)
    BY DEF NothingLost, write_block, NoteMemberStart
  <2>2. Len(written \o Ids(block)) = Len(written) + Len(Ids(block))
    BY <1>1, <1>4, ConcatProperties
  <2>3. QED
    BY <1>4, <2>1, <2>2
<1>6. /\ base \in Nat /\ base + Len(accepted) = Len(asked)
      /\ BlockHolds(block, asked, base + Len(written))
      /\ Holds(disk, asked, begin, Len(disk) + 1, base, Len(written), from)
  BY DEF Written
<1>7. Len(written) \in Nat /\ Len(block) \in Nat /\ Len(disk) \in Nat
  BY <1>1, LenProperties
<1>8. base + Len(written) + Len(x.recs) <= Len(asked)
  BY <1>2, <1>5, <1>6, <1>7
<1>9. PICK more : Holds(Append(disk, x), asked, begin, Len(disk) + 2, base,
                        Len(written) + Len(x.recs), more)
  BY <1>1, <1>2, <1>3, <1>6, <1>8, HoldsContinues
<1>10. Len(disk') + 1 = Len(disk) + 2
  BY <1>1, <1>2, <1>7, AppendProperties
<1>11. QED
  BY <1>2, <1>5, <1>9, <1>10

\* Every operation of the writing handle keeps the member being written in order.
LEMMA OpenStep ==
  TypeOK /\ TypeOK' /\ LayoutInv /\ NothingLost /\ OpenInv /\ [Next]_vars => OpenInv'
<1> SUFFICES ASSUME TypeOK, TypeOK', LayoutInv, NothingLost, OpenInv, [Next]_vars
             PROVE  OpenInv'
  OBVIOUS
<1>1. PICK base, from : Written(base, from)
  BY DEF OpenInv
<1>2. /\ base \in Nat
      /\ base + Len(accepted) = Len(asked)
      /\ accepted = Numbers(base, Len(accepted))
      /\ BlockHolds(block, asked, base + Len(written))
      /\ Holds(disk, asked, begin, Len(disk) + 1, base, Len(written), from)
  BY <1>1 DEF Written
<1>3. /\ disk \in Seq(Blocks) /\ disk' \in Seq(Blocks)
      /\ asked \in Seq(Nat) /\ asked' \in Seq(Nat)
      /\ block \in Seq(Record) /\ written \in Seq(Nat) /\ accepted \in Seq(Nat)
      /\ bytes_used \in Nat
  BY DEF TypeOK
<1>4. /\ Len(accepted) \in Nat /\ Len(asked) \in Nat /\ Len(written) \in Nat
      /\ Len(block) \in Nat /\ Len(disk) \in Nat
  BY <1>3, LenProperties
<1>5. Len(accepted) = Len(written) + Len(block)
  <2>1. Ids(block) \in Seq(Nat) /\ Len(Ids(block)) = Len(block)
    BY <1>3, IdsOf
  <2>2. Len(written \o Ids(block)) = Len(written) + Len(Ids(block))
    BY <1>3, <2>1, ConcatProperties
  <2>3. QED
    BY <2>1, <2>2 DEF NothingLost
<1>6. Extends(disk, disk') /\ Extends(asked, asked')
  BY GrowStep
<1>7. ASSUME NEW len \in Lens, NEW recs \in Seq(Record), NEW used \in Nat,
             copy_record_to_block(recs, used, len)
      PROVE  base + Len(accepted') = Len(asked') /\ accepted' = Numbers(base, Len(accepted'))
  <2> DEFINE id == Len(asked) + 1
  <2>1. accepted' = Append(accepted, id) /\ asked' = Append(asked, len)
    BY <1>7 DEF copy_record_to_block
  <2>2. Len(accepted') = Len(accepted) + 1 /\ Len(asked') = Len(asked) + 1
    BY <1>3, <1>4, <2>1, AppendProperties, WriteAssumption
  <2>3. id = base + Len(accepted) + 1
    BY <1>2, <1>4
  <2>4. Append(accepted, id) = Numbers(base, Len(accepted) + 1)
    BY <1>2, <1>3, <2>3, NumbersAppend
  <2>5. accepted' = Numbers(base, Len(accepted'))
    BY <2>1, <2>2, <2>4
  <2>6. base + (Len(accepted) + 1) = Len(asked) + 1
    BY <1>2, <1>4
  <2>7. QED
    BY <2>2, <2>5, <2>6
<1>8. ASSUME write_block_fails PROVE OpenInv'
  <2>1. UNCHANGED <<accepted, asked, block, written, disk, begin>>
    BY <1>8 DEF write_block_fails
  <2>2. Written(base, from)'
    BY <1>1, <2>1 DEF Written
  <2>3. QED
    BY <2>2 DEF OpenInv
<1>9. ASSUME NEW len \in Lens, AddToBlock(len) PROVE OpenInv'
  <2>1. /\ copy_record_to_block(block, bytes_used, len)
        /\ UNCHANGED <<written, disk, begin>>
    BY <1>9 DEF AddToBlock
  <2>2. base + Len(written) \in Nat /\ (base + Len(written)) + Len(block) = Len(asked)
    BY <1>2, <1>4, <1>5
  <2>3. BlockHolds(block', asked', base + Len(written))
    BY <1>2, <1>3, <2>1, <2>2, CopyContinues
  <2>4. Holds(disk, asked', begin, Len(disk) + 1, base, Len(written), from)
    BY <1>2, <1>3, <1>6, <2>1, HoldsStays
  <2>5. Written(base, from)'
    BY <1>2, <1>3, <1>7, <2>1, <2>3, <2>4 DEF Written
  <2>6. QED
    BY <2>5 DEF OpenInv
<1>10. ASSUME NEW len \in Lens, WriteThenAdd(len) PROVE OpenInv'
  <2>1. /\ write_block
        /\ copy_record_to_block(<<>>, 0, len)
        /\ UNCHANGED <<dir, begin>>
    BY <1>10 DEF WriteThenAdd
  <2>2. PICK more : Holds(disk', asked, begin, Len(disk') + 1, base, Len(written'), more)
    BY <1>1, <2>1, WriteContinues
  <2>3. Len(written') = Len(accepted)
    BY <1>1, <2>1, WriteContinues
  <2>4. <<>> \in Seq(Record) /\ Len(<<>>) = 0 /\ 0 \in Nat
    BY EmptySeq
  <2>5. BlockHolds(<<>>, asked, Len(asked))
    BY <2>4 DEF BlockHolds
  <2>6. BlockHolds(block', asked', Len(asked))
    <3>1. Len(asked) + Len(<<>>) = Len(asked)
      BY <1>4, <2>4
    <3>2. QED
      BY <1>4, <2>1, <2>4, <2>5, <3>1, CopyContinues
  <2>7. Extends(disk', disk')
    BY <1>3, LenProperties DEF Extends
  <2>8. Holds(disk', asked', begin, Len(disk') + 1, base, Len(written'), more)
    BY <1>3, <1>6, <2>2, <2>7, HoldsStays
  <2>9. base + Len(accepted') = Len(asked') /\ accepted' = Numbers(base, Len(accepted'))
    BY <1>7, <2>1, <2>4
  <2>10. base + Len(written') = Len(asked)
    BY <1>2, <2>3
  <2>11. Written(base, more)'
    BY <1>2, <2>1, <2>6, <2>8, <2>9, <2>10 DEF Written
  <2>12. QED
    BY <2>11 DEF OpenInv
<1>11. ASSUME NEW len \in Lens, RecordRefused(len) PROVE OpenInv'
  BY <1>8, <1>11 DEF RecordRefused
<1>12. CASE Flush
  <2>1. write_block /\ block' = <<>> /\ UNCHANGED <<dir, begin, asked, accepted>>
    BY <1>12 DEF Flush
  <2>2. PICK more : Holds(disk', asked, begin, Len(disk') + 1, base, Len(written'), more)
    BY <1>1, <2>1, WriteContinues
  <2>3. BlockHolds(<<>>, asked, base + Len(written'))
    BY EmptySeq DEF BlockHolds
  <2>4. Written(base, more)'
    BY <1>2, <2>1, <2>2, <2>3 DEF Written
  <2>5. QED
    BY <2>4 DEF OpenInv
<1>13. CASE FlushFails
  BY <1>8, <1>13 DEF FlushFails
<1>14. CASE StowMember
  <2>1. /\ block' = <<>> /\ asked' = asked /\ accepted' = <<>> /\ written' = <<>>
        /\ disk' = Append(disk, EofMark) /\ begin' = Len(disk) + 2
    BY <1>14 DEF StowMember, EnterMember, LayoutInv, BlocksValidate
  <2>2. EofMark \in Blocks
    BY EmptySeq DEF EofMark, DataBlock, Blocks
  <2>3. begin' = Len(disk') + 1
    BY <1>3, <1>4, <2>1, <2>2, AppendProperties
  <2>4. Len(<<>>) = 0 /\ Numbers(Len(asked), 0) = <<>>
    BY EmptySeq DEF Numbers
  <2>5. PICK more : Holds(disk', asked, begin', begin', Len(asked), 0, more)
    <3>1. Len(asked) <= Len(asked)
      BY <1>4
    <3>2. \A b : b = Len(disk') + 1 =>
            \E more : Holds(disk', asked, b, b, Len(asked), 0, more)
      BY <1>3, <1>4, <3>1, HoldsNothing, Zenon
    <3>3. QED
      BY <2>3, <3>2
  <2>6. BlockHolds(<<>>, asked, Len(asked) + 0)
    BY <2>4 DEF BlockHolds
  <2>7. Written(Len(asked), more)'
    BY <1>4, <2>1, <2>3, <2>4, <2>5, <2>6 DEF Written
  <2>8. QED
    BY <2>7 DEF OpenInv
<1>15. CASE UNCHANGED vars
  <2>1. Written(base, from)'
    BY <1>1, <1>15 DEF Written, vars
  <2>2. QED
    BY <2>1 DEF OpenInv
<1>16. QED
  BY <1>9, <1>10, <1>11, <1>12, <1>13, <1>14, <1>15 DEF Next

\* A member entered stays as it was entered.
LEMMA EnteredStays ==
  ASSUME NEW d \in Seq(Blocks), NEW e \in Seq(Blocks), Extends(d, e),
         NEW a \in Seq(Nat), NEW b \in Seq(Nat), Extends(a, b),
         NEW entry \in Entries, NEW last, NEW base, NEW from,
         Entered(d, a, entry, last, base, from)
  PROVE  Entered(e, b, entry, last, base, from)
<1>1. /\ Holds(d, a, entry.begin, last, base, Len(entry.ids), from)
      /\ last <= Len(d)
      /\ d[last] = EofMark
      /\ entry.ids = Numbers(base, Len(entry.ids))
  BY DEF Entered
<1>2. Holds(e, b, entry.begin, last, base, Len(entry.ids), from)
  BY <1>1, HoldsStays
<1>3. last \in 1..Len(d)
  BY <1>1, LenProperties DEF Holds
<1>4. last <= Len(e) /\ e[last] = EofMark
  BY <1>1, <1>3, LenProperties DEF Extends
<1>5. QED
  BY <1>1, <1>2, <1>4 DEF Entered

\* Every operation of the writing handle leaves complete members in the directory.
LEMMA DirStep ==
  TypeOK /\ TypeOK' /\ LayoutInv /\ NothingLost /\ OpenInv /\ DirInv /\ [Next]_vars => DirInv'
<1> SUFFICES ASSUME TypeOK, TypeOK', LayoutInv, NothingLost, OpenInv, DirInv, [Next]_vars
             PROVE  DirInv'
  OBVIOUS
<1>1. /\ disk \in Seq(Blocks) /\ disk' \in Seq(Blocks)
      /\ asked \in Seq(Nat) /\ asked' \in Seq(Nat)
      /\ dir \in Seq(Entries) /\ dir' \in Seq(Entries)
      /\ written \in Seq(Nat) /\ accepted \in Seq(Nat)
  BY DEF TypeOK
<1>2. Extends(disk, disk') /\ Extends(asked, asked')
  BY GrowStep
<1>3. ASSUME NEW m \in 1..Len(dir)
      PROVE  \E e, base, from : Entered(disk', asked', dir[m], e, base, from)
  <2>1. PICK e, base, from : Entered(disk, asked, dir[m], e, base, from)
    BY DEF DirInv
  <2>2. dir[m] \in Entries
    BY <1>1, ElementOfSeq
  <2>3. Entered(disk', asked', dir[m], e, base, from)
    BY <1>1, <1>2, <2>1, <2>2, EnteredStays
  <2>4. QED
    BY <2>3
<1>4. CASE dir' = dir
  BY <1>3, <1>4 DEF DirInv
<1>5. CASE StowMember
  <2> DEFINE entry == [begin |-> begin, ttr |-> memstart_ttr, ids |-> accepted]
             last == Len(disk) + 1
  <2>1. /\ dir' = Append(dir, entry) /\ disk' = Append(disk, EofMark) /\ asked' = asked
        /\ block = <<>>
    BY <1>5 DEF StowMember, EnterMember, LayoutInv, BlocksValidate
  <2>2. entry \in Entries /\ EofMark \in Blocks
    BY EmptySeq DEF Entries, TypeOK, EofMark, DataBlock, Blocks
  <2>3. entry.begin = begin /\ entry.ids = accepted
    OBVIOUS
  <2> HIDE DEF entry
  <2>4. /\ Len(dir') = Len(dir) + 1
        /\ dir'[Len(dir) + 1] = entry
        /\ \A m \in 1..Len(dir) : dir'[m] = dir[m]
    BY <1>1, <2>1, <2>2, AppendProperties
  <2>5. /\ Len(disk') = Len(disk) + 1
        /\ disk'[Len(disk) + 1] = EofMark
    BY <1>1, <2>1, <2>2, AppendProperties
  <2>6. accepted = written
    <3>1. Ids(block) = <<>>
      BY <2>1, EmptySeq DEF Ids
    <3>2. QED
      BY <1>1, <3>1, ConcatEmptySeq DEF NothingLost
  <2>7. PICK base, from : Written(base, from)
    BY DEF OpenInv
  <2>8. /\ Holds(disk, asked, begin, last, base, Len(written), from)
        /\ accepted = Numbers(base, Len(accepted))
    BY <2>7 DEF Written
  <2>9. Holds(disk', asked', begin, last, base, Len(written), from)
    BY <1>1, <1>2, <2>8, HoldsStays
  <2>10. Entered(disk', asked', entry, last, base, from)
    <3>1. last <= Len(disk')
      BY <1>1, <2>5, LenProperties
    <3>2. QED
      BY <2>3, <2>5, <2>6, <2>8, <2>9, <3>1 DEF Entered
  <2>11. ASSUME NEW m \in 1..Len(dir')
         PROVE  \E e, b, f : Entered(disk', asked', dir'[m], e, b, f)
    <3>1. m \in 1..Len(dir) \/ m = Len(dir) + 1
      BY <1>1, <2>4, LenProperties
    <3>2. CASE m \in 1..Len(dir)
      BY <1>3, <2>4, <3>2
    <3>3. CASE m = Len(dir) + 1
      BY <2>4, <2>10, <3>3
    <3>4. QED
      BY <3>1, <3>2, <3>3
  <2>12. QED
    BY <2>11 DEF DirInv
<1>6. dir' = dir \/ StowMember
  BY DEF Next, vars, AddToBlock, WriteThenAdd, RecordRefused, write_block_fails, Flush, FlushFails
<1>7. QED
  BY <1>4, <1>5, <1>6

\* A handle is opened with nothing written and nothing entered.
LEMMA InitOpen == Init => OpenInv /\ DirInv
<1> SUFFICES ASSUME Init PROVE OpenInv /\ DirInv
  OBVIOUS
<1>1. /\ disk = <<>> /\ asked = <<>> /\ accepted = <<>> /\ written = <<>> /\ block = <<>>
      /\ dir = <<>> /\ begin = 1
  BY DEF Init
<1>2. <<>> \in Seq(Blocks) /\ <<>> \in Seq(Nat) /\ Len(<<>>) = 0 /\ 0 <= 0
  BY EmptySeq
<1>3. PICK from : Holds(<<>>, <<>>, 1, 1, 0, 0, from)
  <2>1. 1 = Len(<<>>) + 1 /\ 0 \in Nat /\ 0 <= Len(<<>>)
    BY <1>2
  <2>2. QED
    BY <1>2, <2>1, HoldsNothing, Zenon
<1>4. Numbers(0, 0) = <<>> /\ BlockHolds(<<>>, <<>>, 0 + 0)
  BY <1>2 DEF Numbers, BlockHolds
<1>5. Written(0, from)
  BY <1>1, <1>2, <1>3, <1>4 DEF Written
<1>6. DirInv
  BY <1>1, <1>2 DEF DirInv
<1>7. QED
  BY <1>5, <1>6 DEF OpenInv

-----------------------------------------------------------------------------
(* What the reading handle finds in a block *)

\* The reading side goes by the same layout.
LEMMA SameLayout ==
  /\ R!Header = Header /\ R!Prefix = Prefix /\ R!RDW_SIZE = RDW_SIZE /\ R!NULL = -1
  /\ R!EofMark = EofMark
  /\ Header \in Nat /\ Prefix \in Nat
  /\ RecFm \in {"F", "V"}
  /\ RecFm = "V" => Header = RDW_SIZE
  /\ RecFm = "F" => Header = 0
BY GeometryAssumption
   DEF R!Header, Header, R!Prefix, Prefix, R!RDW_SIZE, RDW_SIZE, R!BDW_SIZE, BDW_SIZE,
       R!NULL, R!EofMark, EofMark, R!DataBlock, DataBlock

\* A block of the data set that holds records, with what a reader relies on: the
\* records are well formed, apart and numbered.
Readable(blk, a, f) ==
  /\ blk \in Blocks
  /\ WalksTo(blk.recs, blk.size)
  /\ BlockHolds(blk.recs, a, f)

\* next_record has moved on to the i-th record of the block.
AtRecord(blk, i, start, len) ==
  /\ start = blk.recs[i].at + Header
  /\ len = blk.recs[i].rdw - Header

\* No two records of a block start at the same place, or outside it.
LEMMA RecordsDistinct ==
  ASSUME NEW a \in Seq(Nat), NEW f \in Nat, NEW blk, Readable(blk, a, f)
  PROVE  /\ Len(blk.recs) \in Nat \ {0}
         /\ blk.size \in Nat
         /\ \A i \in 1..Len(blk.recs) :
              /\ blk.recs[i].at \in Nat /\ blk.recs[i].rdw \in Nat
              /\ blk.recs[i].at < blk.size
              /\ blk.recs[i].id = f + i
              /\ blk.recs[i].rdw - Header = LengthReadBack(a[f + i])
              /\ RecFm = "F" => blk.recs[i].rdw = LRecl
         /\ \A i, j \in 1..Len(blk.recs) : blk.recs[i].at = blk.recs[j].at => i = j
<1> DEFINE recs == blk.recs
           n == Len(recs)
<1>1. recs \in Seq(Record) /\ blk.size \in Nat /\ WalksTo(recs, blk.size)
  BY DEF Readable, Blocks
<1>2. n \in Nat /\ n # 0
  BY <1>1, LenProperties, EmptySeq DEF WalksTo
<1>3. \A i \in 1..n : recs[i] \in Record
  BY <1>1, ElementOfSeq
<1>4. \A i \in 1..n : recs[i].at \in Nat /\ recs[i].rdw \in Nat
  BY <1>3 DEF Record
<1>5. \A i \in 1..n :
        /\ recs[i].id = f + i
        /\ f + i <= Len(a)
        /\ recs[i].rdw = Header + LengthReadBack(a[f + i])
  BY DEF Readable, BlockHolds
<1>6. ASSUME NEW i \in 1..n
      PROVE  /\ recs[i].rdw - Header = LengthReadBack(a[f + i])
             /\ RecFm = "F" => recs[i].rdw = LRecl
             /\ 0 < recs[i].rdw
  <2>1. f + i \in 1..Len(a)
    BY <1>2, <1>5, LenProperties
  <2>2. LengthReadBack(a[f + i]) \in Nat
    BY <2>1, ElementOfSeq, ReadBackType
  <2>3. recs[i].rdw = Header + LengthReadBack(a[f + i])
    BY <1>5
  <2>4. RecFm = "F" => LengthReadBack(a[f + i]) = LRecl /\ 0 < LRecl /\ LRecl \in Nat
    BY SMTT(20), GeometryAssumption DEF LengthReadBack
  <2>5. RecFm = "V" => Header = 4
    BY DEF Header, RDW_SIZE
  <2>6. QED
    BY SMTT(20), <2>2, <2>3, <2>4, <2>5, SameLayout
<1>7. /\ \A j \in 1..n : \A i \in 1..j - 1 : recs[i].at + recs[i].rdw <= recs[j].at
      /\ \A i \in 1..n : recs[i].at + recs[i].rdw <= blk.size
  BY <1>1, RecordsApart
<1> HIDE DEF n, recs
<1>8. ASSUME NEW i \in 1..n
      PROVE  recs[i].at < blk.size
  <2>1. recs[i].at \in Nat /\ recs[i].rdw \in Nat /\ 0 < recs[i].rdw
    BY <1>4, <1>6
  <2>2. recs[i].at + recs[i].rdw <= blk.size /\ blk.size \in Nat
    BY <1>1, <1>7
  <2>3. QED
    BY <2>1, <2>2
<1>9. ASSUME NEW i \in 1..n, NEW j \in 1..n, i < j
      PROVE  recs[i].at # recs[j].at
  <2>1. i \in 1..j - 1
    BY <1>2, <1>9
  <2>2. recs[i].at + recs[i].rdw <= recs[j].at
    BY <1>7, <2>1
  <2>3. /\ recs[i].at \in Nat /\ recs[i].rdw \in Nat /\ 0 < recs[i].rdw
        /\ recs[j].at \in Nat
    BY <1>4, <1>6
  <2>4. QED
    BY <2>2, <2>3
<1>10. ASSUME NEW i \in 1..n, NEW j \in 1..n, recs[i].at = recs[j].at
       PROVE  i = j
  <2>1. i < j \/ j < i \/ i = j
    BY <1>2
  <2>2. QED
    BY <1>9, <1>10, <2>1
<1>11. QED
  BY <1>1, <1>2, <1>4, <1>5, <1>6, <1>8, <1>10 DEF n, recs

\* The RDW found where a record starts is that record's.
LEMMA RdwOfRecord ==
  ASSUME NEW a \in Seq(Nat), NEW f \in Nat, NEW blk, Readable(blk, a, f),
         NEW i \in 1..Len(blk.recs), NEW off, off = blk.recs[i].at
  PROVE  R!RdwAt(blk, off) = blk.recs[i].rdw
<1> DEFINE n == Len(blk.recs)
           all == {blk.recs[j] : j \in 1..n}
           r == CHOOSE x \in all : x.at = off
<1>1. blk.recs[i] \in all
  OBVIOUS
<1>2. r \in all /\ r.at = off
  <2> HIDE DEF all
  <2>1. QED
    BY <1>1
<1>3. PICK j \in 1..n : r = blk.recs[j]
  BY <1>2
<1>4. i = j
  <2>1. \A k, l \in 1..n : blk.recs[k].at = blk.recs[l].at => k = l
    BY RecordsDistinct
  <2> HIDE DEF r, all
  <2>2. QED
    BY <1>2, <1>3, <2>1
<1>5. R!RdwAt(blk, off) = r.rdw
  BY DEF R!RdwAt
<1>6. QED
  BY <1>3, <1>4, <1>5

\* What the caller is shown of the i-th record of a block.
LEMMA DeliveredRecord ==
  ASSUME NEW a \in Seq(Nat), NEW f \in Nat, NEW blk, Readable(blk, a, f),
         NEW i \in 1..Len(blk.recs), NEW start, NEW len, AtRecord(blk, i, start, len)
  PROVE  R!Delivered(blk, start, len) = Numbered(a, f + i)
<1> DEFINE n == Len(blk.recs)
           hit == {x \in {blk.recs[j] : j \in 1..n} : x.at + Header = start}
           r == CHOOSE x \in hit : TRUE
<1>1. blk.recs[i] \in hit
  BY DEF AtRecord
<1>2. r \in hit
  <2> HIDE DEF hit
  <2>1. QED
    BY <1>1
<1>3. PICK j \in 1..n : r = blk.recs[j] /\ r.at + Header = start
  BY <1>2
<1>4. /\ \A k, l \in 1..n : blk.recs[k].at = blk.recs[l].at => k = l
      /\ \A k \in 1..n : /\ blk.recs[k].at \in Nat
                         /\ blk.recs[k].id = f + k
                         /\ blk.recs[k].rdw - Header = LengthReadBack(a[f + k])
  BY RecordsDistinct
<1>5. i = j
  <2> HIDE DEF r, hit
  <2>1. blk.recs[j].at + Header = blk.recs[i].at + Header
    BY <1>3 DEF AtRecord
  <2>2. blk.recs[i].at \in Nat /\ blk.recs[j].at \in Nat /\ Header \in Nat
    BY <1>4, SameLayout
  <2>3. blk.recs[i].at = blk.recs[j].at
    BY SMTT(20), <2>1, <2>2
  <2>4. QED
    BY <1>4, <2>3
<1>6. R!Delivered(blk, start, len) = [id |-> r.id, len |-> len]
  <2>1. hit # {}
    BY <1>1
  <2>2. R!Header = Header
    BY SameLayout
  <2>3. QED
    BY <2>1, <2>2 DEF R!Delivered
<1>7. len = LengthReadBack(a[f + i]) /\ r.id = f + i
  BY <1>3, <1>4, <1>5 DEF AtRecord
<1>8. QED
  BY <1>6, <1>7 DEF Numbered

\* Where next_record looks for the next record.
LookAt(start, len) == IF start = -1 THEN Prefix ELSE start + len

\* Where a record starts next_record finds it.
LEMMA FindsRecord ==
  ASSUME NEW a \in Seq(Nat), NEW f \in Nat, NEW blk, Readable(blk, a, f),
         NEW resid, resid = BlkSize - blk.size,
         NEW i \in 1..Len(blk.recs),
         NEW start, NEW len, LookAt(start, len) = blk.recs[i].at
  PROVE  /\ R!next_record(blk, resid, start, len).more
         /\ AtRecord(blk, i, R!next_record(blk, resid, start, len).start,
                             R!next_record(blk, resid, start, len).len)
<1> DEFINE off == blk.recs[i].at
           nr == R!next_record(blk, resid, start, len)
<1>1. /\ off \in Nat /\ blk.size \in Nat /\ off < blk.size
      /\ RecFm = "F" => blk.recs[i].rdw = LRecl
  BY RecordsDistinct
<1>2. R!RdwAt(blk, off) = blk.recs[i].rdw
  BY RdwOfRecord
<1>3. R!BytesInBlock(blk, resid) = blk.size
  BY <1>1, GeometryAssumption DEF R!BytesInBlock
<1>4. (IF start = R!NULL THEN R!Prefix ELSE start + len) = off
  BY SameLayout DEF LookAt
<1>5. ~(off >= R!BytesInBlock(blk, resid))
  BY <1>1, <1>3
<1> HIDE DEF off
<1>6. nr = IF RecFm = "V"
             THEN [more |-> TRUE, start |-> off + R!RDW_SIZE,
                   len |-> R!RdwAt(blk, off) - R!RDW_SIZE]
             ELSE [more |-> TRUE, start |-> off, len |-> LRecl]
  BY <1>4, <1>5 DEF R!next_record
<1> HIDE DEF nr
<1>7. CASE RecFm = "V"
  <2>1. R!RDW_SIZE = Header
    BY <1>7, SameLayout
  <2>2. nr.more /\ nr.start = off + Header /\ nr.len = blk.recs[i].rdw - Header
    BY <1>2, <1>6, <1>7, <2>1
  <2>3. QED
    BY <2>2 DEF AtRecord, off, nr
<1>8. CASE RecFm # "V"
  <2>1. Header = 0 /\ RecFm = "F" /\ LRecl \in Nat
    BY <1>8, SameLayout, GeometryAssumption
  <2>2. nr.more /\ nr.start = off /\ nr.len = LRecl
    BY <1>6, <1>8
  <2>3. nr.start = off + Header /\ nr.len = blk.recs[i].rdw - Header
    BY <1>1, <2>1, <2>2 DEF off
  <2>4. QED
    BY <2>2, <2>3 DEF AtRecord, off, nr
<1>9. QED
  BY <1>7, <1>8

\* Behind the last record it finds none.
LEMMA FindsEnd ==
  ASSUME NEW a \in Seq(Nat), NEW f \in Nat, NEW blk, Readable(blk, a, f),
         NEW resid, resid = BlkSize - blk.size,
         NEW start, NEW len, LookAt(start, len) = blk.size
  PROVE  ~R!next_record(blk, resid, start, len).more
<1>1. blk.size \in Nat
  BY RecordsDistinct
<1>2. R!BytesInBlock(blk, resid) = blk.size
  BY <1>1, GeometryAssumption DEF R!BytesInBlock
<1>3. (IF start = R!NULL THEN R!Prefix ELSE start + len) = blk.size
  BY SameLayout DEF LookAt
<1>4. blk.size >= R!BytesInBlock(blk, resid)
  BY <1>1, <1>2
<1> DEFINE off == blk.size
<1> HIDE DEF off
<1>5. R!next_record(blk, resid, start, len) = [more |-> FALSE, start |-> off, len |-> len]
  <2>1. (IF start = R!NULL THEN R!Prefix ELSE start + len) = off
    BY <1>3 DEF off
  <2>2. off >= R!BytesInBlock(blk, resid)
    BY <1>4 DEF off
  <2>3. QED
    BY <2>1, <2>2 DEF R!next_record
<1>6. QED
  BY <1>5

\* It looks at the first record first.
LEMMA LooksAtFirst ==
  ASSUME NEW blk, WalksTo(blk.recs, blk.size)
  PROVE  LookAt(R!NULL, 0) = blk.recs[1].at
BY SameLayout DEF LookAt, WalksTo

\* From one record it goes to the next, from the last to the end of the block.
LEMMA LooksAtNext ==
  ASSUME NEW a \in Seq(Nat), NEW f \in Nat, NEW blk, Readable(blk, a, f),
         NEW i \in 1..Len(blk.recs), NEW start, NEW len, AtRecord(blk, i, start, len)
  PROVE  LookAt(start, len) =
           IF i = Len(blk.recs) THEN blk.size ELSE blk.recs[i + 1].at
<1> DEFINE n == Len(blk.recs)
<1>1. /\ n \in Nat /\ blk.recs[i].at \in Nat /\ blk.recs[i].rdw \in Nat
  BY RecordsDistinct
<1>2. Header \in Nat
  BY SameLayout
<1>3. start = blk.recs[i].at + Header /\ len = blk.recs[i].rdw - Header
  BY DEF AtRecord
<1>4. start # -1 /\ start + len = blk.recs[i].at + blk.recs[i].rdw
  <2>1. \A x, y, h \in Nat : x + h # -1 /\ (x + h) + (y - h) = x + y
    OBVIOUS
  <2>2. QED
    BY ZenonT(20), <1>1, <1>2, <1>3, <2>1
<1>5. LookAt(start, len) = blk.recs[i].at + blk.recs[i].rdw
  BY <1>4 DEF LookAt
<1>6. /\ \A j \in 1..n - 1 : blk.recs[j + 1].at = blk.recs[j].at + blk.recs[j].rdw
      /\ blk.recs[n].at + blk.recs[n].rdw = blk.size
  BY DEF Readable, WalksTo
<1>7. CASE i = n
  BY <1>5, <1>6, <1>7
<1>8. CASE i # n
  <2>1. i \in 1..n - 1
    BY <1>1, <1>8
  <2>2. QED
    BY <1>5, <1>6, <1>8, <2>1
<1>9. QED
  BY <1>7, <1>8

-----------------------------------------------------------------------------
(* The reading handle *)

\* It has delivered g records of the member found and is in a block of it.
InBlockOf(base, from, g) ==
  /\ line_num # 0
  /\ dir[cur].begin < pos
  /\ buffer = disk[pos - 1]
  /\ residual = BlkSize - buffer.size
  /\ \E i \in 1..Len(buffer.recs) :
       /\ base + g = from[pos - 1] + i
       /\ AtRecord(buffer, i, next_record_start, next_record_len)

\* It never leaves the blocks of the member found; what it delivered is a beginning
\* of the member; as long as it reads it is either before the first block or in the
\* one before the position of the next READ, where it delivered the last record.
ReaderAt(e, base, from, g) ==
  /\ Entered(disk, asked, dir[cur], e, base, from)
  /\ pos \in dir[cur].begin..e
  /\ g \in 0..Len(dir[cur].ids)
  /\ got = Records(asked, base, g)
  /\ status = "eod" => g = Len(dir[cur].ids)
  /\ status = "reading" =>
       \/ line_num = 0 /\ g = 0 /\ pos = dir[cur].begin
       \/ InBlockOf(base, from, g)

ReaderInv ==
  /\ cur = 0 => status = "reading" /\ got = <<>>
  /\ cur # 0 => cur \in 1..Len(dir) /\ \E e, base, from, g : ReaderAt(e, base, from, g)

\* The blocks of a member, and what follows them.
LEMMA MemberBlocks ==
  ASSUME TypeOK, LayoutInv, NEW entry \in Entries, NEW e, NEW base, NEW from,
         Entered(disk, asked, entry, e, base, from)
  PROVE  /\ entry.begin \in Nat \ {0} /\ e \in Nat /\ entry.begin <= e /\ e <= Len(disk)
         /\ base \in Nat /\ Len(entry.ids) \in Nat /\ Len(disk) \in Nat
         /\ base + Len(entry.ids) <= Len(asked)
         /\ from[entry.begin] = base /\ from[e] = base + Len(entry.ids)
         /\ disk[e] = EofMark
         /\ \A k \in entry.begin..e - 1 :
              /\ k \in 1..Len(disk)
              /\ disk[k] # EofMark
              /\ Readable(disk[k], asked, from[k])
              /\ from[k] \in Nat
              /\ from[k + 1] = from[k] + Len(disk[k].recs)
              /\ from[k + 1] <= base + Len(entry.ids)
<1> DEFINE n == Len(entry.ids)
<1>1. /\ Holds(disk, asked, entry.begin, e, base, n, from)
      /\ e <= Len(disk) /\ disk[e] = EofMark
  BY DEF Entered
<1>2. /\ entry.begin \in Nat \ {0} /\ e \in Nat /\ entry.begin <= e
      /\ base \in Nat /\ n \in Nat /\ base + n <= Len(asked)
      /\ from[entry.begin] = base /\ from[e] = base + n
      /\ \A k \in entry.begin..e : from[k] \in Nat
  BY <1>1 DEF Holds
<1>3. disk \in Seq(Blocks) /\ Len(disk) \in Nat
  BY LenProperties DEF TypeOK
<1>4. ASSUME NEW k \in entry.begin..e - 1
      PROVE  /\ k \in 1..Len(disk)
             /\ disk[k] # EofMark
             /\ Readable(disk[k], asked, from[k])
             /\ from[k] \in Nat
             /\ from[k + 1] = from[k] + Len(disk[k].recs)
             /\ from[k + 1] <= base + n
  <2>1. k \in 1..Len(disk) /\ k \in entry.begin..e
    BY <1>1, <1>2, <1>3
  <2>2. /\ disk[k] # EofMark
        /\ from[k + 1] = from[k] + Len(disk[k].recs)
        /\ from[k + 1] <= base + n
        /\ BlockHolds(disk[k].recs, asked, from[k])
    BY <1>1 DEF Holds
  <2>3. disk[k] \in Blocks
    BY <1>3, <2>1, ElementOfSeq
  <2>4. WalksTo(disk[k].recs, disk[k].size)
    BY <2>1, <2>2 DEF LayoutInv, BlocksValidate
  <2>5. QED
    BY <1>2, <2>1, <2>2, <2>3, <2>4 DEF Readable
<1>5. QED
  BY <1>1, <1>2, <1>3, <1>4

\* Where the writing handle is at work a reader is not disturbed: what it reads
\* stays as it is.
LEMMA ReaderUndisturbed ==
  ASSUME TypeOK, TypeOK', LayoutInv, [Next]_vars, UNCHANGED readervars, ReaderInv
  PROVE  ReaderInv'
<1>1. /\ UNCHANGED <<next_record_start, next_record_len, line_num, buffer, residual, pos,
                     cur, got, status>>
  BY DEF readervars
<1>2. Extends(disk, disk') /\ Extends(asked, asked') /\ Extends(dir, dir')
  BY GrowStep
<1>3. /\ disk \in Seq(Blocks) /\ disk' \in Seq(Blocks)
      /\ asked \in Seq(Nat) /\ asked' \in Seq(Nat)
      /\ dir \in Seq(Entries) /\ dir' \in Seq(Entries)
  BY DEF TypeOK
<1>4. CASE cur = 0
  BY <1>1, <1>4 DEF ReaderInv
<1>5. CASE cur # 0
  <2>1. cur \in 1..Len(dir)
    BY <1>5 DEF ReaderInv
  <2>2. PICK e, base, from, g : ReaderAt(e, base, from, g)
    BY <1>5 DEF ReaderInv
  <2>3. dir'[cur] = dir[cur] /\ cur \in 1..Len(dir') /\ dir[cur] \in Entries
    BY <1>2, <1>3, <2>1, LenProperties, ElementOfSeq DEF Extends
  <2> DEFINE entry == dir[cur]
  <2>4. /\ Entered(disk, asked, entry, e, base, from)
        /\ pos \in entry.begin..e
        /\ g \in 0..Len(entry.ids)
        /\ got = Records(asked, base, g)
        /\ status = "eod" => g = Len(entry.ids)
        /\ status = "reading" =>
             \/ line_num = 0 /\ g = 0 /\ pos = entry.begin
             \/ InBlockOf(base, from, g)
    BY <2>2 DEF ReaderAt
  <2>5. Entered(disk', asked', entry, e, base, from)
    BY <1>2, <1>3, <2>3, <2>4, EnteredStays
  <2>6. /\ entry.begin \in Nat \ {0} /\ e \in Nat /\ e <= Len(disk) /\ Len(disk) \in Nat
        /\ base \in Nat /\ Len(entry.ids) \in Nat /\ base + Len(entry.ids) <= Len(asked)
    BY <2>3, <2>4, MemberBlocks
  <2>7. Records(asked', base, g) = Records(asked, base, g)
    <3>1. g \in Nat /\ base \in Nat /\ base + g <= Len(asked)
      BY SMTT(20), <1>3, <2>4, <2>6, LenProperties
    <3>2. asked \in Seq(Nat) /\ asked' \in Seq(Nat) /\ Extends(asked, asked')
      BY <1>2, <1>3
    <3> HIDE DEF entry
    <3>3. QED
      BY <3>1, <3>2, RecordsStay
  <2>8. InBlockOf(base, from, g) => InBlockOf(base, from, g)'
    <3>1. SUFFICES ASSUME InBlockOf(base, from, g) PROVE InBlockOf(base, from, g)'
      OBVIOUS
    <3>2. pos - 1 \in 1..Len(disk)
      BY <2>4, <2>6, <3>1 DEF InBlockOf
    <3>3. disk'[pos - 1] = disk[pos - 1]
      BY <1>2, <3>2 DEF Extends
    <3>4. dir'[cur'].begin = dir[cur].begin /\ disk'[pos' - 1] = disk[pos - 1]
      BY <1>1, <2>3, <3>3
    <3>5. PICK i \in 1..Len(buffer.recs) :
            /\ base + g = from[pos - 1] + i
            /\ AtRecord(buffer, i, next_record_start, next_record_len)
      BY <3>1 DEF InBlockOf
    <3>6. \E j \in 1..Len(buffer'.recs) :
            /\ base + g = from[pos' - 1] + j
            /\ AtRecord(buffer', j, next_record_start', next_record_len')
      BY <1>1, <3>5
    <3>7. line_num' # 0 /\ dir[cur].begin < pos' /\ buffer' = disk[pos - 1]
          /\ residual' = BlkSize - buffer'.size
      BY <1>1, <3>1 DEF InBlockOf
    <3>8. QED
      BY <3>4, <3>6, <3>7 DEF InBlockOf
  <2> HIDE DEF entry
  <2>9. ReaderAt(e, base, from, g)'
    <3>1. entry = dir'[cur]
      BY <2>3 DEF entry
    <3>2. QED
      BY <1>1, <2>4, <2>5, <2>7, <2>8, <3>1 DEF ReaderAt
  <2>10. QED
    BY <1>1, <1>5, <2>3, <2>9 DEF ReaderInv
<1>6. QED
  BY <1>4, <1>5

\* When the block, if there is one, is used up, the next READ brings the record
\* after the last one delivered.
LEMMA BlockUsedUp ==
  ASSUME TypeOK, LayoutInv, cur \in 1..Len(dir), NEW e, NEW base, NEW from, NEW g,
         ReaderAt(e, base, from, g), status = "reading", R!NeedsBlock
  PROVE  from[pos] = base + g
<1>1. dir[cur] \in Entries
  BY ElementOfSeq DEF TypeOK
<1> DEFINE b == dir[cur].begin
           n == Len(dir[cur].ids)
<1>2. /\ Entered(disk, asked, dir[cur], e, base, from)
      /\ pos \in b..e /\ g \in 0..n
      /\ \/ line_num = 0 /\ g = 0 /\ pos = b
         \/ InBlockOf(base, from, g)
  BY DEF ReaderAt
<1>3. /\ b \in Nat \ {0} /\ e \in Nat /\ base \in Nat /\ n \in Nat
      /\ from[b] = base
      /\ \A k \in b..e - 1 :
           /\ Readable(disk[k], asked, from[k])
           /\ from[k] \in Nat
           /\ from[k + 1] = from[k] + Len(disk[k].recs)
  BY <1>1, <1>2, MemberBlocks
<1>4. CASE line_num = 0 /\ g = 0 /\ pos = b
  <2> HIDE DEF b
  <2>1. QED
    BY <1>3, <1>4
<1>5. CASE InBlockOf(base, from, g)
  <2>1. /\ line_num # 0 /\ b < pos
        /\ buffer = disk[pos - 1] /\ residual = BlkSize - buffer.size
    BY <1>5 DEF InBlockOf
  <2>2. PICK i \in 1..Len(buffer.recs) :
          /\ base + g = from[pos - 1] + i
          /\ AtRecord(buffer, i, next_record_start, next_record_len)
    BY <1>5 DEF InBlockOf
  <2> HIDE DEF b, n
  <2>3. pos - 1 \in b..e - 1 /\ (pos - 1) + 1 = pos
    BY <1>2, <1>3, <2>1
  <2>4. /\ Readable(buffer, asked, from[pos - 1])
        /\ from[pos - 1] \in Nat
        /\ from[pos] = from[pos - 1] + Len(buffer.recs)
    BY <1>3, <2>1, <2>3
  <2>5. asked \in Seq(Nat)
    BY DEF TypeOK
  <2>6. ~R!next_record(buffer, residual, next_record_start, next_record_len).more
    BY <2>1 DEF R!NeedsBlock
  <2>7. LookAt(next_record_start, next_record_len) =
          IF i = Len(buffer.recs) THEN buffer.size ELSE buffer.recs[i + 1].at
    BY <2>2, <2>4, <2>5, LooksAtNext
  <2>8. i = Len(buffer.recs)
    <3>1. SUFFICES ASSUME i # Len(buffer.recs) PROVE FALSE
      OBVIOUS
    <3>2. Len(buffer.recs) \in Nat
      BY <2>4, <2>5, RecordsDistinct
    <3>3. i + 1 \in 1..Len(buffer.recs)
      BY <2>2, <3>1, <3>2
    <3> DEFINE j == i + 1
    <3>4. LookAt(next_record_start, next_record_len) = buffer.recs[j].at /\ j \in 1..Len(buffer.recs)
      BY <2>7, <3>1, <3>3
    <3> HIDE DEF j
    <3>5. R!next_record(buffer, residual, next_record_start, next_record_len).more
      BY <2>1, <2>4, <2>5, <3>4, FindsRecord
    <3>6. QED
      BY <2>6, <3>5
  <2>9. QED
    BY <2>2, <2>4, <2>8
<1>6. QED
  BY <1>2, <1>4, <1>5

\* A run delivered grows by the record returned.
LEMMA ReturnExtends ==
  ASSUME TypeOK, NEW base \in Nat, NEW g \in Nat, base + g + 1 <= Len(asked),
         got = Records(asked, base, g), status = "reading",
         NEW blk, NEW f \in Nat, Readable(blk, asked, f), NEW i \in 1..Len(blk.recs),
         f + i = base + g + 1,
         NEW nr, AtRecord(blk, i, nr.start, nr.len), R!Return(blk, nr)
  PROVE  /\ got' = Records(asked, base, g + 1)
         /\ AtRecord(blk, i, next_record_start', next_record_len')
<1>1. asked \in Seq(Nat)
  BY DEF TypeOK
<1>2. R!Delivered(blk, nr.start, nr.len) = Numbered(asked, f + i)
  BY <1>1, DeliveredRecord
<1>3. /\ got' = Append(got, R!Delivered(blk, nr.start, nr.len))
      /\ next_record_start' = nr.start /\ next_record_len' = nr.len
  BY DEF R!Return
<1>4. Records(asked, base, g + 1) = Append(got, Numbered(asked, base + g + 1))
  BY <1>1, RecordsAppend
<1>5. QED
  BY <1>2, <1>3, <1>4

\* Every step of the reading handle keeps to the member it found.
LEMMA ReaderStep ==
  ASSUME TypeOK, LayoutInv, DirInv, ReaderInv, R!Next, UNCHANGED asked
  PROVE  ReaderInv'
<1>0. /\ asked \in Seq(Nat) /\ dir \in Seq(Entries) /\ UNCHANGED <<disk, dir, asked>>
      /\ Len(asked) \in Nat
  BY LenProperties
     DEF TypeOK, R!Next, R!FindMember, R!ReadFromBlock, R!ReadNextBlock, R!EndOfData, R!ReadError
<1>1. ASSUME NEW m \in 1..Len(dir), R!FindMember(m)
      PROVE  ReaderInv'
  <2>1. dir[m] \in Entries
    BY <1>0, ElementOfSeq
  <2>2. PICK e, base, from : Entered(disk, asked, dir[m], e, base, from)
    BY DEF DirInv
  <2>3. /\ dir[m].begin \in Nat \ {0} /\ e \in Nat /\ dir[m].begin <= e
        /\ Len(dir[m].ids) \in Nat
    BY <2>1, <2>2, MemberBlocks
  <2>4. /\ cur' = m /\ pos' = dir[m].begin /\ line_num' = 0 /\ got' = <<>>
        /\ status' = "reading"
    BY <1>1 DEF R!FindMember
  <2>5. Records(asked, base, 0) = <<>>
    BY EmptySeq DEF Records
  <2>6. pos' \in dir[m].begin..e /\ 0 \in 0..Len(dir[m].ids)
    BY <2>3, <2>4
  <2>7. ReaderAt(e, base, from, 0)'
    BY <1>0, <2>2, <2>4, <2>5, <2>6 DEF ReaderAt
  <2>8. m # 0
    OBVIOUS
  <2>9. QED
    BY <1>0, <2>4, <2>7, <2>8 DEF ReaderInv
<1>2. ASSUME cur # 0, UNCHANGED cur,
             \A e, base, from, g : ReaderAt(e, base, from, g) =>
               \E h : ReaderAt(e, base, from, h)'
      PROVE  ReaderInv'
  BY <1>0, <1>2 DEF ReaderInv
<1> DEFINE b == dir[cur].begin
           n == Len(dir[cur].ids)
<1>3. ASSUME cur # 0, NEW e, NEW base, NEW from, NEW g, ReaderAt(e, base, from, g)
      PROVE  /\ cur \in 1..Len(dir)
             /\ Entered(disk, asked, dir[cur], e, base, from)
             /\ pos \in b..e
             /\ g \in 0..n
             /\ got = Records(asked, base, g)
             /\ status = "eod" => g = n
             /\ status = "reading" =>
                  \/ line_num = 0 /\ g = 0 /\ pos = b
                  \/ InBlockOf(base, from, g)
             /\ b \in Nat \ {0} /\ e \in Nat /\ base \in Nat /\ n \in Nat
             /\ base + n <= Len(asked)
             /\ from[b] = base /\ from[e] = base + n
             /\ disk[e] = EofMark
             /\ \A k \in b..e - 1 :
                  /\ disk[k] # EofMark
                  /\ Readable(disk[k], asked, from[k])
                  /\ from[k] \in Nat
                  /\ from[k + 1] = from[k] + Len(disk[k].recs)
                  /\ from[k + 1] <= base + n
  <2>1. cur \in 1..Len(dir)
    BY <1>3 DEF ReaderInv
  <2>2. dir[cur] \in Entries
    BY <1>0, <2>1, ElementOfSeq
  <2>3. Entered(disk, asked, dir[cur], e, base, from)
    BY <1>3 DEF ReaderAt
  <2>4. /\ b \in Nat \ {0} /\ e \in Nat /\ base \in Nat /\ n \in Nat
        /\ base + n <= Len(asked)
        /\ from[b] = base /\ from[e] = base + n
        /\ disk[e] = EofMark
    BY <2>2, <2>3, MemberBlocks
  <2>5. \A k \in b..e - 1 :
                  /\ disk[k] # EofMark
                  /\ Readable(disk[k], asked, from[k])
                  /\ from[k] \in Nat
                  /\ from[k + 1] = from[k] + Len(disk[k].recs)
                  /\ from[k + 1] <= base + n
    BY <2>2, <2>3, MemberBlocks
  <2>6. QED
    BY <1>3, <2>1, <2>3, <2>4, <2>5 DEF ReaderAt
<1>4. CASE R!ReadFromBlock
  <2>1. SUFFICES ASSUME NEW e, NEW base, NEW from, NEW g, ReaderAt(e, base, from, g)
                 PROVE  \E h : ReaderAt(e, base, from, h)'
    BY <1>2, <1>4 DEF R!ReadFromBlock
  <2>2. /\ cur # 0 /\ ~R!NeedsBlock
        /\ R!Return(buffer, R!next_record(buffer, residual, next_record_start, next_record_len))
        /\ UNCHANGED <<line_num, buffer, residual, pos, cur, status, disk, dir>>
    BY <1>4 DEF R!ReadFromBlock
  <2>3. CASE status # "reading"
    <3>1. got' = got
      BY <2>2, <2>3 DEF R!Return
    <3>2. ReaderAt(e, base, from, g)'
      BY <1>0, <2>1, <2>2, <2>3, <3>1 DEF ReaderAt
    <3>3. QED
      BY <3>2
  <2>4. CASE status = "reading"
    <3> DEFINE nr == R!next_record(buffer, residual, next_record_start, next_record_len)
    <3>1. line_num # 0 /\ nr.more
      BY <2>2 DEF R!NeedsBlock
    <3>2. InBlockOf(base, from, g)
      BY <1>3, <2>1, <2>2, <2>4, <3>1
    <3>3. /\ b < pos /\ buffer = disk[pos - 1] /\ residual = BlkSize - buffer.size
      BY <3>2 DEF InBlockOf
    <3>4. PICK i \in 1..Len(buffer.recs) :
            /\ base + g = from[pos - 1] + i
            /\ AtRecord(buffer, i, next_record_start, next_record_len)
      BY <3>2 DEF InBlockOf
    <3> HIDE DEF b, n
    <3> DEFINE f == from[pos - 1]
    <3>5. pos - 1 \in b..e - 1 /\ (pos - 1) + 1 = pos
      BY SMTT(20), <1>3, <2>1, <2>2, <3>3
    <3>6. /\ Readable(buffer, asked, f) /\ f \in Nat
          /\ from[pos] = f + Len(buffer.recs)
          /\ from[pos] <= base + n
      <4>1. \A k \in b..e - 1 :
              /\ Readable(disk[k], asked, from[k])
              /\ from[k] \in Nat
              /\ from[k + 1] = from[k] + Len(disk[k].recs)
              /\ from[k + 1] <= base + n
        BY <1>3, <2>1, <2>2
      <4> DEFINE q == pos - 1
      <4>2. q \in b..e - 1 /\ q + 1 = pos /\ buffer = disk[q] /\ f = from[q]
        BY <3>3, <3>5
      <4> HIDE DEF q, f
      <4>3. QED
        BY <4>1, <4>2
    <3> HIDE DEF f
    <3>7. LookAt(next_record_start, next_record_len) =
            IF i = Len(buffer.recs) THEN buffer.size ELSE buffer.recs[i + 1].at
      BY <1>0, <3>4, <3>6, LooksAtNext
    <3>8. i # Len(buffer.recs)
      <4>1. SUFFICES ASSUME i = Len(buffer.recs) PROVE FALSE
        OBVIOUS
      <4>2. LookAt(next_record_start, next_record_len) = buffer.size
        BY <3>7, <4>1
      <4>3. ~nr.more
        BY <1>0, <3>3, <3>6, <4>2, FindsEnd
      <4>4. QED
        BY <3>1, <4>3
    <3> DEFINE j == i + 1
    <3>9. Len(buffer.recs) \in Nat
      BY <1>0, <3>6, RecordsDistinct
    <3>10. j \in 1..Len(buffer.recs)
      BY <3>4, <3>8, <3>9
    <3>11. LookAt(next_record_start, next_record_len) = buffer.recs[j].at
      BY <3>7, <3>8
    <3>12. f + j = base + g + 1
      <4>1. base + g = f + i /\ i \in Nat
        BY <3>4, <3>9 DEF f
      <4>2. base \in Nat /\ g \in Nat
        BY <1>3, <2>1, <2>2
      <4>3. QED
        BY <3>6, <4>1, <4>2
    <3>13. base + g + 1 <= base + n /\ base + g + 1 <= Len(asked) /\ g \in Nat /\ g + 1 \in 0..n
      <4>1. /\ base \in Nat /\ n \in Nat /\ g \in 0..n
            /\ base + n <= Len(asked) /\ Len(asked) \in Nat
        BY <1>0, <1>3, <2>1, <2>2
      <4>2. f + j <= base + n
        <5> HIDE DEF j
        <5>1. f \in Nat /\ f + Len(buffer.recs) <= base + n
          BY <3>6
        <5>2. QED
          BY <3>9, <3>10, <4>1, <5>1
      <4>3. base + g + 1 <= base + n
        BY <3>12, <4>2
      <4>4. QED
        BY <4>1, <4>3
    <3> HIDE DEF j
    <3>14. AtRecord(buffer, j, nr.start, nr.len)
      BY <1>0, <3>3, <3>6, <3>10, <3>11, FindsRecord
    <3> HIDE DEF nr
    <3>15. /\ got' = Records(asked, base, g + 1)
           /\ AtRecord(buffer, j, next_record_start', next_record_len')
      <4>1. R!Return(buffer, nr) /\ got = Records(asked, base, g) /\ base \in Nat
        BY <1>3, <2>1, <2>2 DEF nr
      <4>2. QED
        BY <2>4, <3>6, <3>10, <3>12, <3>13, <3>14, <4>1, ReturnExtends
    <3>16. InBlockOf(base, from, g + 1)'
      <4>1. base + (g + 1) = from[pos - 1] + j
        BY <1>3, <2>1, <2>2, <3>12, <3>13 DEF f
      <4>2. QED
        BY <2>2, <3>1, <3>3, <3>10, <3>15, <4>1 DEF InBlockOf, b
    <3>17. ReaderAt(e, base, from, g + 1)'
      BY <1>0, <1>3, <2>1, <2>2, <2>4, <3>13, <3>15, <3>16 DEF ReaderAt, b, n
    <3>18. QED
      BY <3>17
  <2>5. QED
    BY <2>3, <2>4
<1>5. CASE R!ReadNextBlock
  <2>1. SUFFICES ASSUME NEW e, NEW base, NEW from, NEW g, ReaderAt(e, base, from, g)
                 PROVE  \E h : ReaderAt(e, base, from, h)'
    BY <1>2, <1>5 DEF R!ReadNextBlock
  <2> DEFINE nr == R!next_record(disk[pos], BlkSize - disk[pos].size, R!NULL, 0)
  <2>2. /\ cur # 0 /\ R!NeedsBlock /\ disk[pos] # EofMark
        /\ buffer' = disk[pos] /\ residual' = BlkSize - disk[pos].size
        /\ pos' = pos + 1 /\ line_num' = 1
        /\ R!Return(disk[pos], nr)
        /\ UNCHANGED <<cur, status, disk, dir>>
    BY <1>5, SameLayout DEF R!ReadNextBlock
  <2> HIDE DEF nr, b, n
  <2>3. pos # e /\ pos \in b..e /\ b \in Nat \ {0} /\ e \in Nat
    BY <1>3, <2>1, <2>2
  <2>4. pos \in b..e - 1 /\ pos + 1 \in b..e
    BY <2>3
  <2>5. CASE status # "reading"
    <3>1. got' = got
      BY <2>2, <2>5 DEF R!Return
    <3>2. ReaderAt(e, base, from, g)'
      BY <1>0, <2>1, <2>2, <2>4, <2>5, <3>1 DEF ReaderAt, b
    <3>3. QED
      BY <3>2
  <2>6. CASE status = "reading"
    <3> DEFINE blk == disk[pos]
               f == from[pos]
    <3>1. f = base + g
      BY <1>3, <2>1, <2>2, <2>6, BlockUsedUp
    <3>2. /\ Readable(blk, asked, f) /\ f \in Nat
          /\ from[pos + 1] = f + Len(blk.recs)
          /\ from[pos + 1] <= base + n
      BY <1>3, <2>1, <2>2, <2>4
    <3> HIDE DEF blk, f
    <3>3. Len(blk.recs) \in Nat \ {0}
      BY <1>0, <3>2, RecordsDistinct
    <3>4. 1 \in 1..Len(blk.recs)
      BY <3>3
    <3>5. LookAt(R!NULL, 0) = blk.recs[1].at
      BY <3>2, LooksAtFirst DEF Readable
    <3>6. AtRecord(blk, 1, nr.start, nr.len)
      BY <1>0, <3>2, <3>4, <3>5, FindsRecord DEF nr, blk
    <3>7. f + 1 = base + g + 1
      BY <1>3, <2>1, <2>2, <3>1
    <3>8. base + g + 1 <= base + n /\ base + g + 1 <= Len(asked) /\ g \in Nat /\ g + 1 \in 0..n
      <4>1. /\ base \in Nat /\ n \in Nat /\ g \in 0..n
            /\ base + n <= Len(asked) /\ Len(asked) \in Nat
        BY <1>0, <1>3, <2>1, <2>2
      <4>2. f \in Nat /\ f + Len(blk.recs) <= base + n
        BY <3>2
      <4>3. f + 1 <= base + n
        BY <3>3, <4>1, <4>2
      <4>4. base + g + 1 <= base + n
        BY <3>7, <4>3
      <4>5. QED
        BY <4>1, <4>4
    <3>9. /\ got' = Records(asked, base, g + 1)
          /\ AtRecord(blk, 1, next_record_start', next_record_len')
      <4>1. R!Return(blk, nr) /\ got = Records(asked, base, g) /\ base \in Nat
        BY <1>3, <2>1, <2>2 DEF blk
      <4>2. QED
        BY <2>6, <3>2, <3>4, <3>6, <3>7, <3>8, <4>1, ReturnExtends
    <3>10. InBlockOf(base, from, g + 1)'
      <4>1. base + (g + 1) = from[pos] + 1
        BY <1>3, <2>1, <2>2, <3>7, <3>8 DEF f
      <4>2. pos' - 1 = pos /\ b < pos'
        BY <2>2, <2>3
      <4>3. \E i \in 1..Len(buffer'.recs) :
              /\ base + (g + 1) = from[pos' - 1] + i
              /\ AtRecord(buffer', i, next_record_start', next_record_len')
        BY <2>2, <3>4, <3>9, <4>1, <4>2 DEF blk
      <4>4. line_num' # 0 /\ buffer' = disk'[pos' - 1] /\ residual' = BlkSize - buffer'.size
            /\ dir'[cur'].begin < pos'
        BY <2>2, <4>2 DEF b
      <4>5. QED
        BY <4>3, <4>4 DEF InBlockOf
    <3>11. ReaderAt(e, base, from, g + 1)'
      <4>1. /\ Entered(disk, asked, dir[cur], e, base, from)'
            /\ pos' \in dir'[cur'].begin..e
            /\ g + 1 \in 0..Len(dir'[cur'].ids)
            /\ got' = Records(asked', base, g + 1)
            /\ status' = "reading"
        BY SMTT(20), <1>0, <1>3, <2>1, <2>2, <2>4, <2>6, <3>8, <3>9 DEF b, n
      <4>2. QED
        BY <3>10, <4>1 DEF ReaderAt
    <3>12. QED
      BY <3>11
  <2>7. QED
    BY <2>5, <2>6
<1>6. CASE R!EndOfData
  <2>1. SUFFICES ASSUME NEW e, NEW base, NEW from, NEW g, ReaderAt(e, base, from, g)
                 PROVE  \E h : ReaderAt(e, base, from, h)'
    BY <1>2, <1>6 DEF R!EndOfData
  <2>2. /\ cur # 0 /\ R!NeedsBlock /\ disk[pos] = EofMark
        /\ status' = (IF status = "reading" THEN "eod" ELSE status)
        /\ UNCHANGED <<got, pos, cur, disk, dir>>
    BY <1>6, SameLayout DEF R!EndOfData, R!ReturnNegative
  <2>3. status = "reading" => g = n
    <3>1. SUFFICES ASSUME status = "reading" PROVE g = n
      OBVIOUS
    <3>2. from[pos] = base + g
      BY <1>3, <2>1, <2>2, <3>1, BlockUsedUp
    <3> HIDE DEF b, n
    <3>3. pos = e
      <4>1. pos \in b..e /\ b \in Nat \ {0} /\ e \in Nat /\ ~(pos \in b..e - 1)
        BY <1>3, <2>1, <2>2
      <4>2. QED
        BY <4>1
    <3>4. base + g = base + n /\ g \in 0..n /\ base \in Nat /\ n \in Nat
      BY <1>3, <2>1, <2>2, <3>2, <3>3
    <3>5. QED
      BY <3>4
  <2>4. ReaderAt(e, base, from, g)'
    BY <1>0, <2>1, <2>2, <2>3 DEF ReaderAt
  <2>5. QED
    BY <2>4
<1>7. CASE R!ReadError
  <2>1. SUFFICES ASSUME NEW e, NEW base, NEW from, NEW g, ReaderAt(e, base, from, g)
                 PROVE  \E h : ReaderAt(e, base, from, h)'
    BY <1>2, <1>7 DEF R!ReadError
  <2>2. /\ cur # 0 /\ disk[pos] # EofMark
        /\ pos' = pos + 1
        /\ status' = (IF status = "reading" THEN "error" ELSE status)
        /\ UNCHANGED <<got, cur, disk, dir>>
    BY <1>7, SameLayout DEF R!ReadError, R!ReturnNegative
  <2> HIDE DEF b, n
  <2>3. pos + 1 \in b..e
    <3>1. pos # e /\ pos \in b..e /\ b \in Nat \ {0} /\ e \in Nat
      BY <1>3, <2>1, <2>2
    <3>2. QED
      BY <3>1
  <2>4. ReaderAt(e, base, from, g)'
    BY <1>0, <2>1, <2>2, <2>3 DEF ReaderAt, b
  <2>5. QED
    BY <2>4
<1>8. QED
  BY <1>1, <1>4, <1>5, <1>6, <1>7 DEF R!Next

-----------------------------------------------------------------------------
(* Records are read back as they were written *)

MemberInv ==
  /\ TypeOK /\ LayoutInv /\ NothingLost
  /\ OpenInv
  /\ DirInv
  /\ ReaderInv

\* The two handles share nothing the reading one writes: seen from the writing
\* handle a step is one of its own or none at all.
LEMMA TwoHandles ==
  [MemberNext]_allvars =>
    /\ [Next]_vars
    /\ UNCHANGED readervars \/ (R!Next /\ UNCHANGED asked)
<1> SUFFICES ASSUME [MemberNext]_allvars
             PROVE  /\ [Next]_vars
                    /\ UNCHANGED readervars \/ (R!Next /\ UNCHANGED asked)
  OBVIOUS
<1>1. CASE Next /\ UNCHANGED readervars
  BY <1>1
<1>2. CASE R!Next /\ UNCHANGED <<handle, begin, asked, accepted, written>>
  <2>1. UNCHANGED <<disk, dir>>
    BY <1>2 DEF R!Next, R!FindMember, R!ReadFromBlock, R!ReadNextBlock, R!EndOfData, R!ReadError
  <2>2. UNCHANGED vars
    BY <1>2, <2>1 DEF vars, handle
  <2>3. QED
    BY <1>2, <2>2
<1>3. CASE UNCHANGED allvars
  BY <1>3 DEF allvars
<1>4. QED
  BY <1>1, <1>2, <1>3 DEF MemberNext

\* Every step of either handle keeps what both rely on.
LEMMA MemberStep == MemberInv /\ [MemberNext]_allvars => MemberInv'
<1> SUFFICES ASSUME MemberInv, [MemberNext]_allvars
             PROVE  MemberInv'
  OBVIOUS
<1>1. [Next]_vars /\ (UNCHANGED readervars \/ (R!Next /\ UNCHANGED asked))
  BY TwoHandles
<1>2. TypeOK /\ LayoutInv /\ NothingLost /\ OpenInv /\ DirInv /\ ReaderInv
  BY DEF MemberInv
<1>3. TypeOK' /\ LayoutInv' /\ NothingLost'
  BY <1>1, <1>2, TypeStep, LayoutStep, NothingLostStep
<1>4. OpenInv' /\ DirInv'
  BY <1>1, <1>2, <1>3, OpenStep, DirStep
<1>5. ReaderInv'
  BY <1>1, <1>2, <1>3, ReaderUndisturbed, ReaderStep
<1>6. QED
  BY <1>3, <1>4, <1>5 DEF MemberInv

\* Both handles are opened before anything is written or found.
LEMMA InitMember == MemberInit => MemberInv
<1> SUFFICES ASSUME MemberInit PROVE MemberInv
  OBVIOUS
<1>1. Init /\ cur = 0 /\ got = <<>> /\ status = "reading"
  BY DEF MemberInit, R!Init
<1>2. ReaderInv
  BY <1>1 DEF ReaderInv
<1>3. QED
  BY <1>1, <1>2, InitTypes, InitLayout, InitNothingLost, InitOpen DEF MemberInv

\* Both handles keep to the invariant.
LEMMA MemberInvariant == MemberSpec => []MemberInv
BY InitMember, MemberStep, PTL DEF MemberSpec

\* What a caller expects of a member are the records of its run.
LEMMA ExpectedRun ==
  ASSUME NEW e, NEW base, NEW from, NEW g, ReaderAt(e, base, from, g)
  PROVE  Expected(cur) = Records(asked, base, Len(dir[cur].ids))
<1> DEFINE n == Len(dir[cur].ids)
<1>1. dir[cur].ids = Numbers(base, n)
  BY DEF ReaderAt, Entered
<1> HIDE DEF n
<1>2. \A i \in 1..n : dir[cur].ids[i] = base + i
  BY <1>1, Zenon DEF Numbers
<1>3. \A i \in 1..n : [id |-> dir[cur].ids[i], len |-> LengthReadBack(asked[dir[cur].ids[i]])]
                        = Numbered(asked, base + i)
  BY <1>2 DEF Numbered
<1>4. Expected(cur) = [i \in 1..n |-> Numbered(asked, base + i)]
  BY <1>3 DEF Expected, n
<1>5. QED
  BY <1>4 DEF Records, n

\* What is known of a reader that found a member.
LEMMA ReaderFacts ==
  ASSUME MemberInv, cur # 0
  PROVE  \E base, n, g \in Nat :
           /\ g <= n
           /\ base + n <= Len(asked)
           /\ Expected(cur) = Records(asked, base, n)
           /\ got = Records(asked, base, g)
           /\ status = "eod" => g = n
<1>1. cur \in 1..Len(dir)
  BY DEF MemberInv, ReaderInv
<1>2. PICK e, base, from, g : ReaderAt(e, base, from, g)
  BY DEF MemberInv, ReaderInv
<1>3. dir[cur] \in Entries
  BY <1>1, ElementOfSeq DEF MemberInv, TypeOK
<1> DEFINE n == Len(dir[cur].ids)
<1>4. Entered(disk, asked, dir[cur], e, base, from)
  BY <1>2 DEF ReaderAt
<1>5. base \in Nat /\ n \in Nat /\ base + n <= Len(asked)
  BY <1>3, <1>4, MemberBlocks DEF MemberInv
<1>6. g \in Nat /\ g <= n /\ got = Records(asked, base, g) /\ (status = "eod" => g = n)
  BY <1>2, <1>5 DEF ReaderAt
<1>7. Expected(cur) = Records(asked, base, n)
  BY <1>2, ExpectedRun
<1> HIDE DEF n
<1>8. QED
  BY <1>5, <1>6, <1>7

\* A beginning of a run is a prefix of it.
LEMMA RunPrefix ==
  ASSUME NEW a \in Seq(Nat), NEW base \in Nat, NEW n \in Nat, NEW g \in Nat, g <= n,
         base + n <= Len(a)
  PROVE  IsPrefix(Records(a, base, g), Records(a, base, n))
<1> DEFINE s == Records(a, base, g)
           t == Records(a, base, n)
<1>1. g \in Nat /\ g <= n /\ Len(a) \in Nat /\ base + g <= Len(a)
  BY LenProperties
<1>2. s \in Seq(Delivery) /\ Len(s) = g /\ \A j \in 1..g : s[j] = Numbered(a, base + j)
  BY <1>1, RecordsType
<1>3. t \in Seq(Delivery) /\ Len(t) = n /\ \A j \in 1..n : t[j] = Numbered(a, base + j)
  BY <1>1, RecordsType
<1> HIDE DEF s, t
<1>4. \A j \in 1..g : j \in 1..n
  BY <1>1
<1>5. SubSeq(s, 1, g) = SubSeq(t, 1, g)
  <2>1. SubSeq(s, 1, g) = [i \in 1..g |-> s[i]]
    BY <1>1, <1>2
  <2>2. SubSeq(t, 1, g) = [i \in 1..g |-> t[i]]
    BY <1>1, <1>3
  <2>3. \A i \in 1..g : s[i] = t[i]
    BY <1>2, <1>3, <1>4
  <2>4. QED
    BY <2>1, <2>2, <2>3
<1>6. IsPrefix(s, t)
  BY <1>1, <1>2, <1>3, <1>5 DEF IsPrefix
<1>7. QED
  BY <1>6 DEF s, t

\* read_record_direct after find_member gives the records write_record took for
\* that member, in order, cut or filled up to what the data set can hold: for
\* every record format and block size, whatever writes and reads failed, and
\* whatever members are written meanwhile.
THEOREM RecordsReadBack == MemberSpec => []ReadBack
<1>1. MemberInv => ReadBack
  <2> SUFFICES ASSUME MemberInv, cur # 0 PROVE IsPrefix(got, Expected(cur))
    BY DEF ReadBack
  <2>1. asked \in Seq(Nat)
    BY DEF MemberInv, TypeOK
  <2>2. PICK base, n, g \in Nat :
           /\ g <= n
           /\ base + n <= Len(asked)
           /\ Expected(cur) = Records(asked, base, n)
           /\ got = Records(asked, base, g)
    BY ReaderFacts
  <2>3. QED
    BY <2>1, <2>2, RunPrefix
<1>2. QED
  BY <1>1, MemberInvariant, PTL

\* Its end of data comes when every record of the member has been delivered.
THEOREM EndAfterAll == MemberSpec => []EndMeansAll
<1>1. MemberInv => EndMeansAll
  <2> SUFFICES ASSUME MemberInv, status = "eod" PROVE got = Expected(cur)
    BY DEF EndMeansAll
  <2>1. cur # 0
    BY DEF MemberInv, ReaderInv
  <2>2. QED
    BY <2>1, ReaderFacts
<1>2. QED
  BY <1>1, MemberInvariant, PTL

-----------------------------------------------------------------------------
(* Members as they are found on disk *)

\* The recursion of FlattenSeq has a solution for any number of sequences.
LEMMA FlattenFunction ==
  ASSUME NEW seqs, NEW n \in Nat
  PROVE  \E g : g = [i \in 1..n |-> IF i = 1 THEN seqs[i] ELSE g[i - 1] \o seqs[i]]
<1> DEFINE Solves(g, m) == g = [i \in 1..m |-> IF i = 1 THEN seqs[i] ELSE g[i - 1] \o seqs[i]]
           Bad == {m \in Nat : ~(\E g : Solves(g, m))}
<1>1. SUFFICES ASSUME Bad # {} PROVE FALSE
  OBVIOUS
<1>2. PICK m \in Bad : \A k \in Bad : m <= k
  <2>1. Bad \subseteq Nat
    OBVIOUS
  <2> HIDE DEF Bad
  <2>2. QED
    BY <1>1, <2>1, LeastNumber
<1>3. m \in Nat /\ ~(\E g : Solves(g, m))
  OBVIOUS
<1>4. m # 0
  <2>1. 1..0 = {}
    OBVIOUS
  <2>2. Solves([i \in {} |-> 0], 0)
    BY <2>1
  <2> HIDE DEF Solves
  <2>3. QED
    BY <1>3, <2>2
<1>5. m - 1 \in Nat /\ ~(m - 1 \in Bad)
  <2> HIDE DEF Bad
  <2>1. m - 1 \in Nat /\ ~(m <= m - 1)
    BY <1>3, <1>4
  <2>2. QED
    BY <1>2, <2>1
<1>6. PICK h : Solves(h, m - 1)
  BY <1>5
<1> DEFINE new == IF m = 1 THEN seqs[m] ELSE h[m - 1] \o seqs[m]
           g == [i \in 1..m |-> IF i = m THEN new ELSE h[i]]
<1> HIDE DEF new
<1>7. ASSUME NEW i \in 1..m
      PROVE  g[i] = IF i = 1 THEN seqs[i] ELSE g[i - 1] \o seqs[i]
  <2>1. CASE i = m
    <3>1. g[i] = new
      BY <2>1
    <3>2. i # 1 => i - 1 \in 1..m /\ i - 1 # m
      BY <1>3, <2>1
    <3>3. i # 1 => g[i - 1] = h[i - 1]
      BY <3>2
    <3>4. QED
      BY <2>1, <3>1, <3>3 DEF new
  <2>2. CASE i # m
    <3>1. i \in 1..m - 1
      BY <1>3, <2>2
    <3>2. h[i] = IF i = 1 THEN seqs[i] ELSE h[i - 1] \o seqs[i]
      BY <1>6, <3>1, Zenon
    <3>3. g[i] = h[i]
      BY <2>2
    <3>4. i # 1 => i - 1 \in 1..m /\ i - 1 # m
      BY <1>3, <3>1
    <3>5. i # 1 => g[i - 1] = h[i - 1]
      BY <3>4
    <3> HIDE DEF g
    <3>6. QED
      BY <3>2, <3>3, <3>5
  <2>3. QED
    BY <2>1, <2>2
<1>8. g = [i \in 1..m |-> g[i]]
  OBVIOUS
<1> HIDE DEF g
<1>9. [i \in 1..m |-> g[i]] = [i \in 1..m |-> IF i = 1 THEN seqs[i] ELSE g[i - 1] \o seqs[i]]
  BY <1>7, Zenon
<1>10. Solves(g, m)
  BY <1>8, <1>9
<1> HIDE DEF Solves
<1>11. QED
  BY <1>3, <1>10

\* Flattening puts each sequence behind the ones before it.
LEMMA FlattenSteps ==
  ASSUME NEW seqs, Len(seqs) \in Nat, Len(seqs) # 0
  PROVE  \E g : /\ FlattenSeq(seqs) = g[Len(seqs)]
                /\ \A i \in 1..Len(seqs) :
                     g[i] = IF i = 1 THEN seqs[i] ELSE g[i - 1] \o seqs[i]
<1> DEFINE n == Len(seqs)
           g == CHOOSE f : f = [i \in 1..n |-> IF i = 1 THEN seqs[i] ELSE f[i - 1] \o seqs[i]]
<1>1. g = [i \in 1..n |-> IF i = 1 THEN seqs[i] ELSE g[i - 1] \o seqs[i]]
  <2>1. \E f : f = [i \in 1..n |-> IF i = 1 THEN seqs[i] ELSE f[i - 1] \o seqs[i]]
    BY FlattenFunction
  <2> HIDE DEF n
  <2>2. QED
    BY <2>1, Zenon
<1>2. FlattenSeq(seqs) = g[n]
  BY DEF FlattenSeq
<1> HIDE DEF g, n
<1>3. \A i \in 1..n : g[i] = IF i = 1 THEN seqs[i] ELSE g[i - 1] \o seqs[i]
  BY <1>1, Zenon
<1>4. QED
  BY <1>2, <1>3 DEF n

\* A run of records behind another is one run.
LEMMA RunsJoin ==
  ASSUME NEW s \in Seq(Record), NEW t \in Seq(Record), NEW a, NEW f \in Nat, NEW h,
         h = f + Len(s), BlockHolds(s, a, f), BlockHolds(t, a, h)
  PROVE  BlockHolds(s \o t, a, f)
<1> DEFINE n == Len(s)
           p == Len(t)
<1>1. n \in Nat /\ p \in Nat
  BY LenProperties
<1>2. /\ Len(s \o t) = n + p
      /\ \A i \in 1..n + p : (s \o t)[i] = IF i <= n THEN s[i] ELSE t[i - n]
  BY ConcatProperties
<1> HIDE DEF n, p
<1>3. SUFFICES ASSUME NEW i \in 1..n + p
               PROVE  /\ (s \o t)[i].id = f + i
                      /\ f + i <= Len(a)
                      /\ (s \o t)[i].rdw = Header + LengthReadBack(a[f + i])
  BY <1>2 DEF BlockHolds
<1>4. CASE i <= n
  <2>1. i \in 1..n /\ (s \o t)[i] = s[i]
    BY <1>1, <1>2, <1>4
  <2>2. QED
    BY <2>1 DEF BlockHolds, n
<1>5. CASE ~(i <= n)
  <2> DEFINE j == i - n
  <2>1. j \in 1..p /\ h + j = f + i
    BY <1>1, <1>5 DEF n
  <2>2. (s \o t)[i] = t[j]
    BY <1>2, <1>5
  <2> HIDE DEF j
  <2>3. /\ t[j].id = h + j
        /\ h + j <= Len(a)
        /\ t[j].rdw = Header + LengthReadBack(a[h + j])
    BY <2>1 DEF BlockHolds, p
  <2>4. QED
    BY <2>1, <2>2, <2>3
<1>6. QED
  BY <1>4, <1>5

\* Flattened, sequences that hold runs of records one after another hold one run.
LEMMA FlattenRun ==
  ASSUME NEW seqs \in Seq(Seq(Record)), NEW a, NEW from,
         \A k \in 1..Len(seqs) + 1 : from[k] \in Nat,
         \A k \in 1..Len(seqs) : /\ from[k + 1] = from[k] + Len(seqs[k])
                                 /\ BlockHolds(seqs[k], a, from[k])
  PROVE  /\ FlattenSeq(seqs) \in Seq(Record)
         /\ from[1] + Len(FlattenSeq(seqs)) = from[Len(seqs) + 1]
         /\ BlockHolds(FlattenSeq(seqs), a, from[1])
<1> DEFINE n == Len(seqs)
           Run(s, k) == /\ s \in Seq(Record)
                        /\ from[1] + Len(s) = from[k + 1]
                        /\ BlockHolds(s, a, from[1])
<1>1. n \in Nat
  BY LenProperties
<1>2. CASE n = 0
  <2>1. seqs = <<>> /\ FlattenSeq(seqs) = seqs
    BY <1>2, EmptySeq DEF FlattenSeq
  <2>2. <<>> \in Seq(Record) /\ Len(<<>>) = 0 /\ 0 + 1 = 1
    BY EmptySeq
  <2>3. BlockHolds(<<>>, a, from[1])
    BY <2>2 DEF BlockHolds
  <2>4. from[1] \in Nat
    BY <1>1
  <2>5. from[1] + 0 = from[1]
    BY <2>4
  <2>6. QED
    BY <1>2, <2>1, <2>2, <2>3, <2>5
<1>3. CASE n # 0
  <2>1. PICK g : /\ FlattenSeq(seqs) = g[n]
                 /\ \A i \in 1..n : g[i] = IF i = 1 THEN seqs[i] ELSE g[i - 1] \o seqs[i]
    BY <1>1, <1>3, FlattenSteps
  <2> DEFINE Bad == {k \in 1..n : ~Run(g[k], k)}
  <2>2. Bad = {}
    <3>1. SUFFICES ASSUME Bad # {} PROVE FALSE
      OBVIOUS
    <3>2. PICK k \in Bad : \A l \in Bad : k <= l
      <4>1. Bad \subseteq Nat
        BY <1>1
      <4> HIDE DEF Bad
      <4>2. QED
        BY <3>1, <4>1, LeastNumber
    <3>3. k \in 1..n /\ ~Run(g[k], k)
      OBVIOUS
    <3>4. /\ seqs[k] \in Seq(Record)
          /\ from[k + 1] = from[k] + Len(seqs[k])
          /\ BlockHolds(seqs[k], a, from[k])
      BY <3>3, ElementOfSeq
    <3>5. CASE k = 1
      <4>1. g[k] = seqs[k]
        BY <2>1, <3>3, <3>5
      <4> HIDE DEF n
      <4>2. QED
        BY <3>3, <3>4, <3>5, <4>1
    <3>6. CASE k # 1
      <4> DEFINE j == k - 1
      <4>1. j \in 1..n /\ ~(k <= j) /\ j + 1 = k
        BY <1>1, <3>3, <3>6
      <4>2. g[k] = g[j] \o seqs[k]
        BY <2>1, <3>3, <3>6
      <4> HIDE DEF j
      <4>3. Run(g[j], j)
        <5>1. ~(j \in Bad)
          <6> HIDE DEF Bad, Run
          <6>1. QED
            BY <3>2, <4>1
        <5>2. QED
          BY <4>1, <5>1
      <4>4. /\ g[j] \in Seq(Record)
            /\ from[1] + Len(g[j]) = from[k]
            /\ BlockHolds(g[j], a, from[1])
        BY <4>1, <4>3
      <4>5. from[1] \in Nat /\ from[k] \in Nat
        BY <1>1, <3>3
      <4>6. BlockHolds(g[j] \o seqs[k], a, from[1])
        BY <3>4, <4>4, <4>5, RunsJoin
      <4>7. g[j] \o seqs[k] \in Seq(Record) /\ Len(g[j] \o seqs[k]) = Len(g[j]) + Len(seqs[k])
        BY <3>4, <4>4, ConcatProperties
      <4>8. from[1] + (Len(g[j]) + Len(seqs[k])) = from[k + 1]
        <5>1. Len(g[j]) \in Nat /\ Len(seqs[k]) \in Nat
          BY <3>4, <4>4, LenProperties
        <5>2. from[1] + Len(g[j]) = from[k] /\ from[k + 1] = from[k] + Len(seqs[k])
          BY <3>4, <4>4
        <5>3. \A x, y, z \in Nat : x + (y + z) = (x + y) + z
          OBVIOUS
        <5> HIDE DEF n, Run, Bad
        <5>4. from[1] + (Len(g[j]) + Len(seqs[k])) = (from[1] + Len(g[j])) + Len(seqs[k])
          BY <4>5, <5>1, <5>3
        <5>5. QED
          BY <5>2, <5>4
      <4>9. Run(g[k], k)
        BY <4>2, <4>6, <4>7, <4>8
      <4>10. QED
        BY <3>3, <4>9
    <3>7. QED
      BY <3>5, <3>6
  <2>3. n \in 1..n
    BY <1>1, <1>3
  <2>4. Run(g[n], n)
    BY <2>2, <2>3
  <2>5. QED
    BY <2>1, <2>4
<1>4. QED
  BY <1>2, <1>3

\* The lengths and numbers of a run of records are what Records says.
LEMMA RunIsRecords ==
  ASSUME NEW recs \in Seq(Record), NEW a \in Seq(Nat), NEW base \in Nat, BlockHolds(recs, a, base)
  PROVE  [i \in 1..Len(recs) |-> [id |-> recs[i].id, len |-> recs[i].rdw - Header]]
           = Records(a, base, Len(recs))
<1> DEFINE n == Len(recs)
<1>1. n \in Nat /\ Len(a) \in Nat
  BY LenProperties
<1>2. ASSUME NEW i \in 1..n
      PROVE  [id |-> recs[i].id, len |-> recs[i].rdw - Header] = Numbered(a, base + i)
  <2>1. /\ recs[i].id = base + i
        /\ base + i <= Len(a)
        /\ recs[i].rdw = Header + LengthReadBack(a[base + i])
    BY DEF BlockHolds
  <2>2. base + i \in 1..Len(a)
    BY <1>1, <2>1
  <2>3. LengthReadBack(a[base + i]) \in Nat /\ Header \in Nat
    BY <2>2, ElementOfSeq, ReadBackType, SameLayout
  <2>4. recs[i].rdw - Header = LengthReadBack(a[base + i])
    BY <2>1, <2>3
  <2>5. QED
    BY <2>1, <2>4 DEF Numbered
<1> HIDE DEF n
<1>3. [i \in 1..n |-> [id |-> recs[i].id, len |-> recs[i].rdw - Header]]
        = [i \in 1..n |-> Numbered(a, base + i)]
  BY <1>2, Zenon
<1>4. QED
  BY <1>3 DEF Records, n

\* The records of the blocks of d from b to the next end-of-file mark, whatever the
\* disk is.
OnDiskOf(d, b) ==
  LET marks == {k \in b..Len(d) : d[k] = EofMark}
      last  == IF marks = {} THEN Len(d)
               ELSE (CHOOSE k \in marks : \A j \in marks : k <= j) - 1
      recs  == FlattenSeq([k \in 1..(last - b + 1) |-> d[b + k - 1].recs])
  IN  [i \in 1..Len(recs) |-> [id |-> recs[i].id, len |-> recs[i].rdw - Header]]

\* What blocks hold is what is found on the disk from the first of them on, when an
\* end-of-file mark or the end of the disk follows them.
LEMMA OnDiskRun ==
  ASSUME NEW d \in Seq(Blocks), NEW a \in Seq(Nat),
         NEW b, NEW e, NEW base, NEW n, NEW from, Holds(d, a, b, e, base, n, from),
         e = Len(d) + 1 \/ (e <= Len(d) /\ d[e] = EofMark)
  PROVE  OnDiskOf(d, b) = Records(a, base, n)
<1> DEFINE marks == {k \in b..Len(d) : d[k] = EofMark}
           least == CHOOSE k \in marks : \A j \in marks : k <= j
           last == IF marks = {} THEN Len(d) ELSE least - 1
           seqs == [k \in 1..(last - b + 1) |-> d[b + k - 1].recs]
           recs == FlattenSeq(seqs)
<1>1. /\ b \in Nat \ {0} /\ e \in Nat /\ b <= e /\ e <= Len(d) + 1
      /\ base \in Nat /\ n \in Nat /\ base + n <= Len(a)
      /\ from[b] = base /\ from[e] = base + n
      /\ \A k \in b..e : from[k] \in Nat
      /\ \A k \in b..e - 1 :
           /\ d[k] # EofMark
           /\ from[k + 1] = from[k] + Len(d[k].recs)
           /\ BlockHolds(d[k].recs, a, from[k])
  BY DEF Holds
<1>2. Len(d) \in Nat
  BY LenProperties
<1>3. last = e - 1
  <2>1. CASE e = Len(d) + 1
    <3>1. \A k \in b..Len(d) : k \in b..e - 1
      BY <1>1, <1>2, <2>1
    <3>2. marks = {}
      BY <1>1, <3>1
    <3>3. last = Len(d)
      BY <3>2
    <3> HIDE DEF last
    <3>4. QED
      BY <1>2, <2>1, <3>3
  <2>2. CASE e <= Len(d) /\ d[e] = EofMark
    <3>1. e \in marks
      BY <1>1, <1>2, <2>2
    <3>2. \A k \in marks : e <= k /\ k \in Nat
      <4>1. \A k \in b..Len(d) : k \in Nat /\ (~(e <= k) => k \in b..e - 1)
        BY <1>1, <1>2
      <4>2. QED
        BY <1>1, <4>1
    <3> HIDE DEF marks
    <3>3. least \in marks /\ \A j \in marks : least <= j
      BY <3>1, <3>2
    <3> HIDE DEF least
    <3>4. least = e
      <4>1. least <= e /\ e <= least /\ least \in Nat
        BY <3>1, <3>2, <3>3
      <4>2. QED
        BY <1>1, <4>1
    <3>5. last = least - 1
      BY <3>1
    <3>6. QED
      BY <3>4, <3>5
  <2>3. QED
    BY <2>1, <2>2
<1> HIDE DEF last, least, marks
<1> DEFINE N == e - b
           at == [k \in 1..N + 1 |-> from[b + k - 1]]
<1>4. N \in Nat /\ last - b + 1 = N
  BY <1>1, <1>3
<1>5. seqs = [k \in 1..N |-> d[b + k - 1].recs]
  BY <1>4
<1>6. ASSUME NEW k \in 1..N
      PROVE  /\ d[b + k - 1].recs \in Seq(Record)
             /\ b + k - 1 \in b..e - 1
  <2>1. b + k - 1 \in 1..Len(d) /\ b + k - 1 \in b..e - 1
    BY <1>1, <1>2
  <2>2. d[b + k - 1] \in Blocks
    BY <2>1, ElementOfSeq
  <2>3. QED
    BY <2>1, <2>2 DEF Blocks
<1>7. seqs \in Seq(Seq(Record)) /\ Len(seqs) = N /\ \A k \in 1..N : seqs[k] = d[b + k - 1].recs
  <2> DEFINE T == Seq(Record)
  <2> HIDE DEF T, N
  <2>1. seqs \in [1..N -> T]
    BY <1>5, <1>6 DEF T
  <2>2. seqs \in Seq(T) /\ Len(seqs) = N
    <3> HIDE DEF seqs
    <3>1. QED
      BY <1>4, <2>1
  <2>3. \A k \in 1..N : seqs[k] = d[b + k - 1].recs
    <3> HIDE DEF seqs
    <3>1. QED
      BY <1>5
  <2>4. QED
    BY <2>2, <2>3 DEF T
<1> HIDE DEF seqs
<1>8. \A k \in 1..N + 1 : at[k] = from[b + k - 1]
  OBVIOUS
<1>9. at[1] = base /\ at[N + 1] = base + n
  <2>1. 1 \in 1..N + 1 /\ N + 1 \in 1..N + 1 /\ b + 1 - 1 = b /\ b + (N + 1) - 1 = e
    BY <1>1, <1>4
  <2>2. QED
    BY <1>1, <1>8, <2>1
<1>10. \A k \in 1..N + 1 : at[k] \in Nat
  <2>1. \A k \in 1..N + 1 : b + k - 1 \in b..e
    BY <1>1, <1>4
  <2>2. QED
    BY <1>1, <1>8, <2>1
<1>11. ASSUME NEW k \in 1..N
       PROVE  at[k + 1] = at[k] + Len(seqs[k]) /\ BlockHolds(seqs[k], a, at[k])
  <2> DEFINE c == b + k - 1
  <2>1. c \in b..e - 1 /\ b + (k + 1) - 1 = c + 1 /\ k \in 1..N + 1 /\ k + 1 \in 1..N + 1
    BY <1>1, <1>4, <1>6
  <2>2. at[k] = from[c] /\ at[k + 1] = from[c + 1] /\ seqs[k] = d[c].recs
    BY <1>7, <1>8, <2>1
  <2> HIDE DEF c
  <2>3. QED
    BY <1>1, <2>1, <2>2
<1> HIDE DEF at, N
<1>12. /\ recs \in Seq(Record)
       /\ base + Len(recs) = base + n
       /\ BlockHolds(recs, a, base)
  BY <1>7, <1>9, <1>10, <1>11, FlattenRun
<1> HIDE DEF recs
<1>13. Len(recs) = n
  BY <1>1, <1>12, LenProperties
<1>14. [i \in 1..Len(recs) |-> [id |-> recs[i].id, len |-> recs[i].rdw - Header]]
         = Records(a, base, n)
  BY <1>1, <1>12, <1>13, RunIsRecords
<1>15. QED
  BY <1>14, Zenon DEF OnDiskOf, recs, seqs, last, least, marks

-----------------------------------------------------------------------------
(* The handles implement MemberStore *)

\* A member that was entered is on disk as it is expected.
LEMMA EnteredOnDisk ==
  ASSUME NEW d \in Seq(Blocks), NEW a \in Seq(Nat), NEW entry, NEW e, NEW base, NEW from,
         Entered(d, a, entry, e, base, from)
  PROVE  OnDiskOf(d, entry.begin) = Records(a, base, Len(entry.ids))
<1>1. /\ Holds(d, a, entry.begin, e, base, Len(entry.ids), from)
      /\ e <= Len(d) /\ d[e] = EofMark
  BY DEF Entered
<1>2. QED
  BY <1>1, OnDiskRun

\* The records taken for the member being written: those before the ones in the
\* buffer are on disk.
OpenMember ==
  /\ Len(written) \in Nat /\ Len(block) \in Nat /\ Len(asked) \in Nat
  /\ Len(accepted) = Len(written) + Len(block)
  /\ Len(accepted) <= Len(asked)
  /\ OnDiskOf(disk, begin) = Records(asked, Len(asked) - Len(accepted), Len(written))
  /\ InBlock = Records(asked, Len(asked) - Len(block), Len(block))

\* So it is whenever the writing handle keeps the member in order.
LEMMA OpenOnDisk == TypeOK /\ NothingLost /\ OpenInv => OpenMember
<1> SUFFICES ASSUME TypeOK, NothingLost, OpenInv PROVE OpenMember
  OBVIOUS
<1>0. PICK base, from : Written(base, from)
  BY DEF OpenInv
<1>1. /\ disk \in Seq(Blocks) /\ asked \in Seq(Nat) /\ block \in Seq(Record)
      /\ written \in Seq(Nat)
  BY DEF TypeOK
<1>2. /\ base \in Nat /\ base + Len(accepted) = Len(asked)
      /\ BlockHolds(block, asked, base + Len(written))
      /\ Holds(disk, asked, begin, Len(disk) + 1, base, Len(written), from)
  BY <1>0 DEF Written
<1>3. Len(written) \in Nat /\ Len(block) \in Nat /\ Len(asked) \in Nat
  BY <1>1, LenProperties
<1>4. Len(accepted) = Len(written) + Len(block)
  <2>1. Ids(block) \in Seq(Nat) /\ Len(Ids(block)) = Len(block)
    BY <1>1, IdsOf
  <2>2. Len(written \o Ids(block)) = Len(written) + Len(Ids(block))
    BY <1>1, <2>1, ConcatProperties
  <2>3. QED
    BY <2>1, <2>2 DEF NothingLost
<1>5. OnDiskOf(disk, begin) = Records(asked, base, Len(written))
  BY <1>1, <1>2, OnDiskRun
<1>6. /\ base + Len(written) \in Nat
      /\ base + Len(written) = Len(asked) - Len(block)
      /\ base = Len(asked) - Len(accepted)
      /\ Len(accepted) <= Len(asked)
  BY <1>2, <1>3, <1>4
<1>7. InBlock = Records(asked, base + Len(written), Len(block))
  BY <1>1, <1>2, <1>6, RunIsRecords DEF InBlock
<1>8. QED
  BY <1>3, <1>4, <1>5, <1>6, <1>7 DEF OpenMember

\* The members on disk, as MemberStore has them.
Members(d, entries) == [m \in 1..Len(entries) |-> OnDiskOf(d, entries[m].begin)]

\* A member on disk has the same records after any step of the writing handle.
LEMMA MembersStay ==
  ASSUME TypeOK, TypeOK', DirInv, [Next]_vars, NEW m \in 1..Len(dir)
  PROVE  OnDiskOf(disk', dir[m].begin) = OnDiskOf(disk, dir[m].begin)
<1>1. /\ disk \in Seq(Blocks) /\ disk' \in Seq(Blocks)
      /\ asked \in Seq(Nat) /\ asked' \in Seq(Nat)
      /\ dir[m] \in Entries
  BY ElementOfSeq DEF TypeOK
<1>2. Extends(disk, disk') /\ Extends(asked, asked')
  BY GrowStep
<1>3. PICK e, base, from : Entered(disk, asked, dir[m], e, base, from)
  BY DEF DirInv
<1>4. Entered(disk', asked', dir[m], e, base, from)
  BY <1>1, <1>2, <1>3, EnteredStays
<1> DEFINE n == Len(dir[m].ids)
<1>5. OnDiskOf(disk, dir[m].begin) = Records(asked, base, n)
  BY <1>1, <1>3, EnteredOnDisk
<1>6. OnDiskOf(disk', dir[m].begin) = Records(asked', base, n)
  BY <1>1, <1>4, EnteredOnDisk
<1>7. base \in Nat /\ n \in Nat /\ base + n <= Len(asked)
  BY <1>3 DEF Entered, Holds
<1> HIDE DEF n
<1>8. Records(asked', base, n) = Records(asked, base, n)
  BY <1>1, <1>2, <1>7, RecordsStay
<1>9. QED
  BY <1>5, <1>6, <1>8

\* The variables of MemberStore in terms of the disk.
LEMMA StoreState ==
  /\ OnDisk(begin) = OnDiskOf(disk, begin)
  /\ [m \in 1..Len(dir) |-> OnDisk(dir[m].begin)] = Members(disk, dir)
BY Zenon DEF OnDisk, OnDiskOf, Members

\* The same after a step.
LEMMA StoreStatePrimed ==
  /\ (OnDisk(begin))' = OnDiskOf(disk', begin')
  /\ [m \in 1..Len(dir) |-> OnDisk(dir[m].begin)]' = Members(disk', dir')
BY Zenon DEF OnDisk, OnDiskOf, Members

\* A record copied into a buffer holding recs becomes the last one buffered.
LEMMA BufferGrows ==
  ASSUME TypeOK, TypeOK', OpenMember', NEW len \in Lens,
         NEW recs \in Seq(Record), NEW used, copy_record_to_block(recs, used, len),
         NEW f \in Nat, f + Len(recs) = Len(asked)
  PROVE  /\ Len(asked') = Len(asked) + 1
         /\ InBlock' = Append(Records(asked, f, Len(recs)),
                              [id |-> Len(asked'), len |-> LengthReadBack(len)])
<1>1. asked \in Seq(Nat) /\ asked' \in Seq(Nat) /\ len \in Nat /\ block' \in Seq(Record)
  BY WriteAssumption DEF TypeOK
<1>2. /\ asked' = Append(asked, len)
      /\ block' = Append(recs, Placed(used, Len(asked) + 1, len))
  BY DEF copy_record_to_block
<1>3. /\ Len(asked') = Len(asked) + 1 /\ asked'[Len(asked) + 1] = len
      /\ Extends(asked, asked')
  BY <1>1, <1>2, AppendProperties, AppendExtends
<1>4. Len(recs) \in Nat /\ Len(asked) \in Nat
  BY <1>1, LenProperties
<1>5. Len(block') = Len(recs) + 1
  <2>1. Placed(used, Len(asked) + 1, len) \in Record
    <3>1. Len(block') \in 1..Len(block') /\ block'[Len(block')] = Placed(used, Len(asked) + 1, len)
      BY <1>2, <1>4
    <3>2. QED
      BY <1>1, <3>1, ElementOfSeq
  <2>2. QED
    BY <1>2, <2>1, AppendProperties
<1>6. Len(asked') - Len(block') = f
  BY <1>3, <1>4, <1>5
<1>7. InBlock' = Records(asked', f, Len(recs) + 1)
  BY <1>5, <1>6 DEF OpenMember
<1>8. Records(asked', f, Len(recs) + 1)
        = Append(Records(asked', f, Len(recs)), Numbered(asked', f + Len(recs) + 1))
  <2> DEFINE p == Len(recs)
  <2>1. p \in Nat /\ f + p + 1 <= Len(asked')
    BY <1>3, <1>4
  <2> HIDE DEF p
  <2>2. Records(asked', f, p + 1) = Append(Records(asked', f, p), Numbered(asked', f + p + 1))
    BY <1>1, <2>1, RecordsAppend
  <2>3. QED
    BY <2>2 DEF p
<1>9. Records(asked', f, Len(recs)) = Records(asked, f, Len(recs))
  <2> DEFINE p == Len(recs)
  <2>1. p \in Nat /\ f + p <= Len(asked)
    BY <1>4
  <2> HIDE DEF p
  <2>2. Records(asked', f, p) = Records(asked, f, p)
    BY <1>1, <1>3, <2>1, RecordsStay
  <2>3. QED
    BY <2>2 DEF p
<1>10. Numbered(asked', f + Len(recs) + 1) = [id |-> Len(asked'), len |-> LengthReadBack(len)]
  <2>1. f + Len(recs) + 1 = Len(asked') /\ Len(asked') = Len(asked) + 1
    BY <1>3
  <2>2. QED
    BY <1>3, <2>1 DEF Numbered
<1>11. QED
  BY <1>3, <1>7, <1>8, <1>9, <1>10

\* A block written makes durable all that was buffered.
LEMMA StoredGrows ==
  ASSUME TypeOK, TypeOK', OpenMember, OpenMember', Extends(asked, asked'),
         Len(written') = Len(accepted), Len(asked') - Len(accepted') = Len(asked) - Len(accepted)
  PROVE  OnDiskOf(disk', begin') = OnDiskOf(disk, begin) \o InBlock
<1> DEFINE base == Len(asked) - Len(accepted)
           n == Len(written)
           p == Len(block)
<1>1. asked \in Seq(Nat) /\ asked' \in Seq(Nat)
  BY DEF TypeOK
<1>2. /\ n \in Nat /\ p \in Nat /\ Len(asked) \in Nat /\ Len(accepted) = n + p
      /\ Len(accepted) <= Len(asked)
      /\ OnDiskOf(disk, begin) = Records(asked, base, n)
      /\ InBlock = Records(asked, Len(asked) - p, p)
  BY DEF OpenMember
<1>3. base \in Nat /\ base + n = Len(asked) - p /\ base + n + p <= Len(asked)
      /\ n + p \in Nat /\ base + (n + p) <= Len(asked)
  BY <1>2
<1>4. OnDiskOf(disk', begin') = Records(asked', base, n + p)
  <2>1. OnDiskOf(disk', begin') = Records(asked', Len(asked') - Len(accepted'), Len(written'))
    BY DEF OpenMember
  <2>2. QED
    BY <1>2, <2>1
<1> HIDE DEF base, n, p
<1>5. Records(asked', base, n + p) = Records(asked, base, n + p)
  <2> DEFINE q == n + p
  <2>1. q \in Nat /\ base + q <= Len(asked)
    BY <1>3
  <2> HIDE DEF q
  <2>2. Records(asked', base, q) = Records(asked, base, q)
    BY <1>1, <1>3, <2>1, RecordsStay
  <2>3. QED
    BY <2>2 DEF q
<1>6. Records(asked, base, n) \o Records(asked, base + n, p) = Records(asked, base, n + p)
  <2>1. asked \in Seq(Nat) /\ base \in Nat /\ n \in Nat /\ p \in Nat /\ base + n + p <= Len(asked)
    BY <1>1, <1>2, <1>3
  <2>2. QED
    BY <2>1, RecordsConcat, Zenon
<1>7. QED
  BY <1>2, <1>3, <1>4, <1>5, <1>6

\* A block written becomes the last of the member, without records in the buffer
\* or with the one that did not fit.
LEMMA WriteStores ==
  ASSUME TypeOK, TypeOK', LayoutInv, NothingLost, OpenInv, OpenMember, OpenMember',
         Extends(asked, asked'), write_block,
         Len(asked') - Len(accepted') = Len(asked) - Len(accepted)
  PROVE  OnDiskOf(disk', begin') = OnDiskOf(disk, begin) \o InBlock
<1>1. PICK base, from : Written(base, from)
  BY DEF OpenInv
<1>2. Len(written') = Len(accepted)
  BY <1>1, WriteContinues
<1>3. QED
  BY <1>2, StoredGrows

\* Steps of the writing handle that leave every variable of MemberStore as it is.
LEMMA StoreUnchanged ==
  ASSUME UNCHANGED <<disk, dir, begin, asked, block, cur, got, status>>
  PROVE  UNCHANGED Store!vars
<1>1. UNCHANGED <<asked, cur, got, status>> /\ InBlock' = InBlock
  BY Zenon DEF InBlock
<1>2. (OnDisk(begin))' = OnDisk(begin)
  BY StoreState, StoreStatePrimed
<1>3. [m \in 1..Len(dir) |-> OnDisk(dir[m].begin)]' = [m \in 1..Len(dir) |-> OnDisk(dir[m].begin)]
  BY StoreState, StoreStatePrimed
<1>4. QED
  BY <1>1, <1>2, <1>3 DEF Store!vars

\* Nor do the members change unless one is entered.
LEMMA SameMembers ==
  ASSUME TypeOK, TypeOK', DirInv, [Next]_vars, dir' = dir
  PROVE  Members(disk', dir') = Members(disk, dir)
<1>1. \A m \in 1..Len(dir) : OnDiskOf(disk', dir[m].begin) = OnDiskOf(disk, dir[m].begin)
  BY MembersStay
<1>2. QED
  BY <1>1, Zenon DEF Members

\* A member entered is the next of the members, and nothing is left of it.
LEMMA StowEnters ==
  ASSUME TypeOK, TypeOK', LayoutInv, NothingLost, OpenInv, DirInv, DirInv', OpenMember', StowMember
  PROVE  /\ Members(disk', dir') = Append(Members(disk, dir), OnDiskOf(disk, begin))
         /\ OnDiskOf(disk', begin') = <<>>
         /\ block = <<>> /\ block' = <<>> /\ asked' = asked
<1>1. /\ block = <<>> /\ block' = <<>> /\ asked' = asked /\ written' = <<>>
      /\ disk' = Append(disk, EofMark)
      /\ dir' = Append(dir, [begin |-> begin, ttr |-> memstart_ttr, ids |-> accepted])
  BY DEF StowMember, EnterMember, LayoutInv, BlocksValidate
<1>2. OnDiskOf(disk', begin') = <<>>
  <2>1. Len(<<>>) = 0
    BY EmptySeq
  <2>2. OnDiskOf(disk', begin') = Records(asked', Len(asked') - Len(accepted'), 0)
    BY <1>1, <2>1 DEF OpenMember
  <2>3. QED
    BY <2>2 DEF Records
<1>3. /\ disk \in Seq(Blocks) /\ disk' \in Seq(Blocks) /\ asked \in Seq(Nat)
      /\ dir \in Seq(Entries) /\ begin \in Nat
  BY DEF TypeOK
<1>4. [Next]_vars
  BY DEF Next
<1> DEFINE entry == [begin |-> begin, ttr |-> memstart_ttr, ids |-> accepted]
           n == Len(dir)
<1>5. entry \in Entries /\ entry.begin = begin
  BY DEF Entries, TypeOK
<1>6. n \in Nat /\ Len(dir') = n + 1 /\ dir'[n + 1] = entry
      /\ \A m \in 1..n : dir'[m] = dir[m]
  <2> HIDE DEF entry
  <2>1. dir' = Append(dir, entry)
    BY <1>1 DEF entry
  <2>2. QED
    BY <1>3, <1>5, <2>1, AppendProperties, LenProperties
<1>7. OnDiskOf(disk', begin) = OnDiskOf(disk, begin)
  <2>1. PICK base, from : Written(base, from)
    BY DEF OpenInv
  <2> DEFINE last == Len(disk) + 1
             w == Len(written)
  <2>2. Holds(disk, asked, begin, last, base, w, from)
    BY <2>1 DEF Written
  <2>3. EofMark \in Blocks
    BY EmptySeq DEF EofMark, DataBlock, Blocks
  <2>4. Len(disk') = Len(disk) + 1 /\ disk'[Len(disk) + 1] = EofMark /\ Len(disk) \in Nat
    BY <1>1, <1>3, <2>3, AppendProperties, LenProperties
  <2>5. Extends(disk, disk') /\ Extends(asked, asked)
    BY <1>1, <1>3, <1>4, GrowStep
  <2>6. last <= Len(disk') /\ disk'[last] = EofMark /\ last = Len(disk) + 1
    BY <2>4
  <2> HIDE DEF last, w
  <2>7. Holds(disk', asked, begin, last, base, w, from)
    BY <1>3, <2>2, <2>5, HoldsStays
  <2>8. OnDiskOf(disk, begin) = Records(asked, base, w)
    BY <1>3, <2>2, <2>6, OnDiskRun
  <2>9. OnDiskOf(disk', begin) = Records(asked, base, w)
    BY <1>3, <2>6, <2>7, OnDiskRun
  <2>10. QED
    BY <2>8, <2>9
<1>8. \A m \in 1..n : OnDiskOf(disk', dir[m].begin) = OnDiskOf(disk, dir[m].begin)
  BY <1>4, MembersStay
<1> HIDE DEF entry
<1>9. \A m \in 1..n + 1 : OnDiskOf(disk', dir'[m].begin) =
                            IF m = n + 1 THEN OnDiskOf(disk, begin) ELSE OnDiskOf(disk, dir[m].begin)
  <2>1. \A m \in 1..n + 1 : m = n + 1 \/ m \in 1..n
    BY <1>6
  <2>2. \A m \in 1..n : m # n + 1
    BY <1>6
  <2> HIDE DEF n
  <2>3. QED
    BY <1>5, <1>6, <1>7, <1>8, <2>1, <2>2, Zenon
<1>10. Members(disk', dir') = [m \in 1..n + 1 |->
          IF m = n + 1 THEN OnDiskOf(disk, begin) ELSE OnDiskOf(disk, dir[m].begin)]
  BY <1>6, <1>9 DEF Members
<1>11. Append(Members(disk, dir), OnDiskOf(disk, begin)) = [m \in 1..n + 1 |->
          IF m = n + 1 THEN OnDiskOf(disk, begin) ELSE OnDiskOf(disk, dir[m].begin)]
  <2> DEFINE M == Members(disk, dir)
             x == OnDiskOf(disk, begin)
  <2>1. M = [m \in 1..n |-> OnDiskOf(disk, dir[m].begin)]
    BY DEF Members
  <2>2. Len(M) = n
    BY <1>6, <2>1
  <2>3. \A m \in 1..n : M[m] = OnDiskOf(disk, dir[m].begin)
    BY <2>1, Zenon
  <2> HIDE DEF M, x, n
  <2>4. Append(M, x) = [m \in 1..n + 1 |-> IF m = n + 1 THEN x ELSE M[m]]
    BY <1>6, <2>1, <2>2
  <2>5. \A m \in 1..n + 1 : m = n + 1 \/ m \in 1..n
    BY <1>6
  <2>6. \A m \in 1..n + 1 : (IF m = n + 1 THEN x ELSE M[m])
                              = IF m = n + 1 THEN x ELSE OnDiskOf(disk, dir[m].begin)
    BY <2>3, <2>5, Zenon
  <2>7. QED
    BY <2>4, <2>6, Zenon DEF M, x
<1>12. QED
  BY <1>1, <1>2, <1>10, <1>11, Zenon

\* Every operation of the writing handle is one of MemberStore, or none.
LEMMA WriterSimulates ==
  ASSUME TypeOK, TypeOK', LayoutInv, NothingLost, OpenInv, DirInv, DirInv', OpenMember, OpenMember',
         [Next]_vars, UNCHANGED readervars
  PROVE  [Store!Next]_(Store!vars)
<1>1. UNCHANGED <<cur, got, status>>
  BY DEF readervars
<1>2. /\ OnDisk(begin) = OnDiskOf(disk, begin)
      /\ (OnDisk(begin))' = OnDiskOf(disk', begin')
      /\ [m \in 1..Len(dir) |-> OnDisk(dir[m].begin)] = Members(disk, dir)
      /\ [m \in 1..Len(dir) |-> OnDisk(dir[m].begin)]' = Members(disk', dir')
  BY StoreState, StoreStatePrimed
<1>3. /\ block \in Seq(Record) /\ asked \in Seq(Nat) /\ accepted \in Seq(Nat)
      /\ Len(asked) \in Nat /\ Len(block) \in Nat /\ Len(accepted) \in Nat
      /\ Len(block) <= Len(asked)
      /\ InBlock = Records(asked, Len(asked) - Len(block), Len(block))
  BY DEF TypeOK, OpenMember
<1>4. Extends(disk, disk') /\ Extends(asked, asked')
  BY GrowStep
<1>5. ASSUME write_block_fails PROVE [Store!Next]_(Store!vars)
  <2>1. UNCHANGED <<disk, dir, begin, asked, block>>
    BY <1>5 DEF write_block_fails
  <2>2. QED
    BY <1>1, <2>1, StoreUnchanged
<1>6. ASSUME NEW len \in Lens, AddToBlock(len) PROVE [Store!Next]_(Store!vars)
  <2>1. copy_record_to_block(block, bytes_used, len) /\ UNCHANGED <<disk, dir, begin>>
    BY <1>6 DEF AddToBlock
  <2> DEFINE f == Len(asked) - Len(block)
  <2>2. f \in Nat /\ f + Len(block) = Len(asked)
    BY <1>3
  <2> HIDE DEF f
  <2>3. /\ Len(asked') = Len(asked) + 1
        /\ InBlock' = Append(Records(asked, f, Len(block)),
                             [id |-> Len(asked'), len |-> LengthReadBack(len)])
    BY <1>3, <2>1, <2>2, BufferGrows
  <2>4. InBlock' = Append(InBlock, [id |-> Len(asked'), len |-> LengthReadBack(len)])
    BY <1>3, <2>3 DEF f
  <2>5. UNCHANGED <<OnDisk(begin), [m \in 1..Len(dir) |-> OnDisk(dir[m].begin)]>>
    BY <1>2, <2>1
  <2>6. Store!Take(LengthReadBack(len))
    BY <1>1, <2>3, <2>4, <2>5 DEF Store!Take, Store!readvars
  <2>7. QED
    BY <2>6 DEF Store!Next
<1>7. ASSUME NEW len \in Lens, WriteThenAdd(len) PROVE [Store!Next]_(Store!vars)
  <2>1. write_block /\ copy_record_to_block(<<>>, 0, len) /\ UNCHANGED <<dir, begin>>
    BY <1>7 DEF WriteThenAdd
  <2>2. <<>> \in Seq(Record) /\ Len(<<>>) = 0 /\ Len(asked) + Len(<<>>) = Len(asked)
    BY <1>3, EmptySeq
  <2>3. /\ Len(asked') = Len(asked) + 1
        /\ InBlock' = Append(Records(asked, Len(asked), Len(<<>>)),
                             [id |-> Len(asked'), len |-> LengthReadBack(len)])
    BY <1>3, <2>1, <2>2, BufferGrows
  <2>4. InBlock' = <<[id |-> Len(asked'), len |-> LengthReadBack(len)]>>
    <3>1. Records(asked, Len(asked), Len(<<>>)) = <<>>
      BY <2>2 DEF Records
    <3>2. \A x : Append(<<>>, x) = <<x>>
      BY EmptySeq
    <3>3. QED
      BY <2>3, <3>1, <3>2
  <2>5. Len(accepted') = Len(accepted) + 1
    <3>1. accepted' = Append(accepted, Len(asked) + 1) /\ Len(asked) + 1 \in Nat
      BY <1>3, <2>1 DEF copy_record_to_block
    <3>2. QED
      BY <1>3, <3>1, AppendProperties
  <2>6. Len(asked') - Len(accepted') = Len(asked) - Len(accepted)
    BY <1>3, <2>3, <2>5
  <2>7. OnDiskOf(disk', begin') = OnDiskOf(disk, begin) \o InBlock
    BY <1>4, <2>1, <2>6, WriteStores
  <2>8. (OnDisk(begin))' = OnDisk(begin) \o InBlock
    BY <1>2, <2>7
  <2>9. [m \in 1..Len(dir) |-> OnDisk(dir[m].begin)]' = [m \in 1..Len(dir) |-> OnDisk(dir[m].begin)]
    BY <1>2, <2>1, SameMembers
  <2>10. Store!Take(LengthReadBack(len))
    BY <1>1, <2>3, <2>4, <2>8, <2>9 DEF Store!Take, Store!readvars
  <2>11. QED
    BY <2>10 DEF Store!Next
<1>8. ASSUME NEW len \in Lens, RecordRefused(len) PROVE [Store!Next]_(Store!vars)
  BY <1>5, <1>8 DEF RecordRefused
<1>9. CASE Flush
  <2>1. write_block /\ block' = <<>> /\ UNCHANGED <<dir, begin, asked, accepted>>
    BY <1>9 DEF Flush
  <2>2. OnDiskOf(disk', begin') = OnDiskOf(disk, begin) \o InBlock
    <3>1. Len(asked') - Len(accepted') = Len(asked) - Len(accepted)
      BY <2>1
    <3>2. QED
      BY <1>4, <2>1, <3>1, WriteStores
  <2>3. InBlock' = <<>>
    <3>1. block' = <<>> => Len(block') = 0
      BY EmptySeq
    <3>2. QED
      BY <2>1, <3>1 DEF InBlock
  <2>4. (OnDisk(begin))' = OnDisk(begin) \o InBlock
    BY <1>2, <2>2
  <2>5. [m \in 1..Len(dir) |-> OnDisk(dir[m].begin)]' = [m \in 1..Len(dir) |-> OnDisk(dir[m].begin)]
    BY <1>2, <2>1, SameMembers
  <2>6. Store!Flush
    BY <1>1, <2>1, <2>3, <2>4, <2>5 DEF Store!Flush, Store!readvars
  <2>7. QED
    BY <2>6 DEF Store!Next
<1>10. CASE FlushFails
  BY <1>5, <1>10 DEF FlushFails
<1>11. CASE StowMember
  <2>1. /\ Members(disk', dir') = Append(Members(disk, dir), OnDiskOf(disk, begin))
        /\ OnDiskOf(disk', begin') = <<>>
        /\ block = <<>> /\ block' = <<>> /\ asked' = asked
    BY <1>11, StowEnters
  <2>2. InBlock = <<>> /\ InBlock' = <<>>
    <3>1. Len(<<>>) = 0
      BY EmptySeq
    <3>2. QED
      BY <2>1, <3>1 DEF InBlock
  <2>3. [m \in 1..Len(dir) |-> OnDisk(dir[m].begin)]' =
          Append([m \in 1..Len(dir) |-> OnDisk(dir[m].begin)], OnDisk(begin))
    BY <1>2, <2>1
  <2>4. (OnDisk(begin))' = <<>>
    BY <1>2, <2>1
  <2>5. Store!Enter
    BY <1>1, <2>1, <2>2, <2>3, <2>4 DEF Store!Enter, Store!readvars
  <2>6. QED
    BY <2>5 DEF Store!Next
<1>12. CASE UNCHANGED vars
  <2>1. UNCHANGED <<disk, dir, begin, asked, block>>
    BY <1>12 DEF vars
  <2>2. QED
    BY <1>1, <2>1, StoreUnchanged
<1>13. QED
  BY <1>6, <1>7, <1>8, <1>9, <1>10, <1>11, <1>12 DEF Next

\* What is on disk of the member found is what is expected of it, and what was
\* delivered is a beginning of that.
Delivering ==
  cur # 0 =>
    /\ cur \in 1..Len(dir)
    /\ OnDiskOf(disk, dir[cur].begin) = Expected(cur)
    /\ \E n, g \in Nat :
         /\ g <= n
         /\ Len(Expected(cur)) = n
         /\ got \in Seq(Delivery)
         /\ Len(got) = g
         /\ \A i \in 1..g : got[i] = Expected(cur)[i]
    /\ status = "eod" => got = Expected(cur)

\* So it is in every state the two handles reach.
LEMMA ReaderDelivers == MemberInv => Delivering
<1> SUFFICES ASSUME MemberInv, cur # 0
             PROVE  /\ cur \in 1..Len(dir)
                    /\ OnDiskOf(disk, dir[cur].begin) = Expected(cur)
                    /\ \E n, g \in Nat :
                         /\ g <= n
                         /\ Len(Expected(cur)) = n
                         /\ got \in Seq(Delivery)
                         /\ Len(got) = g
                         /\ \A i \in 1..g : got[i] = Expected(cur)[i]
                    /\ status = "eod" => got = Expected(cur)
  BY DEF Delivering
<1>1. cur \in 1..Len(dir) /\ disk \in Seq(Blocks) /\ asked \in Seq(Nat)
  BY DEF MemberInv, ReaderInv, TypeOK
<1>2. OnDiskOf(disk, dir[cur].begin) = Expected(cur)
  <2>1. PICK e, base, from, g : ReaderAt(e, base, from, g)
    BY DEF MemberInv, ReaderInv
  <2>2. Entered(disk, asked, dir[cur], e, base, from)
    BY <2>1 DEF ReaderAt
  <2>3. QED
    BY <1>1, <2>1, <2>2, EnteredOnDisk, ExpectedRun
<1>3. PICK base, n, g \in Nat :
         /\ g <= n
         /\ base + n <= Len(asked)
         /\ Expected(cur) = Records(asked, base, n)
         /\ got = Records(asked, base, g)
         /\ status = "eod" => g = n
  BY ReaderFacts
<1>4. Len(asked) \in Nat
  BY <1>1, LenProperties
<1>5. base + g <= Len(asked)
  BY <1>3, <1>4
<1>6. Len(Expected(cur)) = n /\ \A j \in 1..n : Expected(cur)[j] = Numbered(asked, base + j)
  BY SMTT(20), <1>1, <1>3, RecordsType
<1>7. got \in Seq(Delivery) /\ Len(got) = g /\ \A j \in 1..g : got[j] = Numbered(asked, base + j)
  BY <1>1, <1>3, <1>5, RecordsType
<1>8. \A j \in 1..g : j \in 1..n
  BY <1>3
<1>9. QED
  BY <1>1, <1>2, <1>3, <1>6, <1>7, <1>8

\* A record returned is the next one of the member.
LEMMA ReturnReads ==
  ASSUME Delivering, Delivering', cur # 0, UNCHANGED <<disk, dir, asked, cur>>,
         NEW x, got' = Append(got, x)
  PROVE  Len(got) < Len(Expected(cur)) /\ x = Expected(cur)[Len(got) + 1]
<1>1. Expected(cur)' = Expected(cur)
  BY DEF Expected
<1>2. got \in Seq(Delivery)
  BY DEF Delivering
<1>3. PICK n, g \in Nat :
         /\ g <= n
         /\ Len(Expected(cur)) = n
         /\ got' \in Seq(Delivery)
         /\ Len(got') = g
         /\ \A i \in 1..g : got'[i] = Expected(cur)[i]
  BY <1>1 DEF Delivering
<1>4. Len(got) \in Nat /\ Len(got') = Len(got) + 1 /\ got'[Len(got) + 1] = x
  BY <1>2
<1>5. Len(got) + 1 \in 1..g
  BY <1>3, <1>4
<1>6. QED
  BY <1>3, <1>4, <1>5

\* Every operation of the reading handle is one of MemberStore, or none.
LEMMA ReaderSimulates ==
  ASSUME Delivering, Delivering', R!Next,
         UNCHANGED <<handle, begin, asked, accepted, written>>
  PROVE  [Store!Next]_(Store!vars)
<1>1. UNCHANGED <<disk, dir, asked, begin, block>>
  BY DEF handle, R!Next, R!FindMember, R!ReadFromBlock, R!ReadNextBlock, R!EndOfData, R!ReadError
<1> DEFINE members == [m \in 1..Len(dir) |-> OnDisk(dir[m].begin)]
<1>2. /\ members = Members(disk, dir)
      /\ members' = Members(disk', dir')
      /\ OnDisk(begin) = OnDiskOf(disk, begin)
      /\ (OnDisk(begin))' = OnDiskOf(disk', begin')
  BY StoreState, StoreStatePrimed
<1>3. UNCHANGED Store!storevars
  <2>1. InBlock' = InBlock
    BY <1>1, Zenon DEF InBlock
  <2>2. QED
    BY <1>1, <1>2, <2>1 DEF Store!storevars
<1>4. Len(members) = Len(dir)
  BY <1>2 DEF Members
<1>5. cur # 0 => members[cur] = Expected(cur)
  BY <1>2 DEF Members, Delivering
<1>6. ASSUME NEW m \in 1..Len(dir), R!FindMember(m) PROVE [Store!Next]_(Store!vars)
  <2>1. cur' = m /\ got' = <<>> /\ status' = "reading"
    BY <1>6 DEF R!FindMember
  <2>2. Store!Find(m)
    BY <1>3, <2>1 DEF Store!Find
  <2>3. QED
    BY <1>4, <2>2 DEF Store!Next
<1>7. ASSUME UNCHANGED <<cur, got, status>> PROVE [Store!Next]_(Store!vars)
  BY <1>3, <1>7 DEF Store!vars, Store!storevars
<1>8. ASSUME cur # 0, UNCHANGED <<cur, status>>, NEW blk, NEW nr, R!Return(blk, nr)
      PROVE  [Store!Next]_(Store!vars)
  <2>1. CASE status # "reading"
    <3>1. got' = got
      BY <1>8, <2>1 DEF R!Return
    <3>2. QED
      BY <1>7, <1>8, <3>1
  <2>2. CASE status = "reading"
    <3> DEFINE x == R!Delivered(blk, nr.start, nr.len)
    <3>1. got' = Append(got, x)
      BY <1>8, <2>2 DEF R!Return
    <3> HIDE DEF x
    <3>2. Len(got) < Len(Expected(cur)) /\ x = Expected(cur)[Len(got) + 1]
      BY <1>1, <1>8, <3>1, ReturnReads
    <3>3. Store!Read
      <4> HIDE DEF members
      <4>1. Len(got) < Len(members[cur]) /\ got' = Append(got, members[cur][Len(got) + 1])
        BY <1>5, <1>8, <3>1, <3>2
      <4>2. QED
        BY <1>3, <1>8, <2>2, <4>1 DEF Store!Read, members
    <3>4. QED
      BY <3>3 DEF Store!Next
  <2>3. QED
    BY <2>1, <2>2
<1>9. CASE R!ReadFromBlock
  BY <1>8, <1>9 DEF R!ReadFromBlock
<1>10. CASE R!ReadNextBlock
  BY <1>8, <1>10 DEF R!ReadNextBlock
<1>11. CASE R!EndOfData
  <2>1. cur # 0 /\ UNCHANGED <<got, cur>> /\ status' = IF status = "reading" THEN "eod" ELSE status
    BY <1>11 DEF R!EndOfData, R!ReturnNegative
  <2>2. CASE status # "reading"
    BY <1>7, <2>1, <2>2
  <2>3. CASE status = "reading"
    <3>1. status' = "eod"
      BY <2>1, <2>3
    <3>2. Expected(cur)' = Expected(cur)
      BY <1>1, <2>1 DEF Expected
    <3>3. got = Expected(cur)
      BY <2>1, <3>1, <3>2 DEF Delivering
    <3>4. Store!End
      BY <1>3, <1>5, <2>1, <2>3, <3>1, <3>3 DEF Store!End
    <3>5. QED
      BY <3>4 DEF Store!Next
  <2>4. QED
    BY <2>2, <2>3
<1>12. CASE R!ReadError
  <2>1. cur # 0 /\ UNCHANGED <<got, cur>> /\ status' = IF status = "reading" THEN "error" ELSE status
    BY <1>12 DEF R!ReadError, R!ReturnNegative
  <2>2. CASE status # "reading"
    BY <1>7, <2>1, <2>2
  <2>3. CASE status = "reading"
    <3>1. Store!Fail
      BY <1>3, <2>1, <2>3 DEF Store!Fail
    <3>2. QED
      BY <3>1 DEF Store!Next
  <2>4. QED
    BY <2>2, <2>3
<1>13. QED
  BY <1>6, <1>9, <1>10, <1>11, <1>12 DEF R!Next

\* Both handles start as MemberStore does.
LEMMA InitStore == MemberInit => Store!Init
<1> SUFFICES ASSUME MemberInit PROVE Store!Init
  OBVIOUS
<1>1. /\ disk = <<>> /\ asked = <<>> /\ block = <<>> /\ dir = <<>> /\ begin = 1
      /\ written = <<>> /\ cur = 0 /\ got = <<>> /\ status = "reading"
  BY DEF MemberInit, Init, R!Init
<1>2. Len(<<>>) = 0
  BY EmptySeq
<1>3. OpenMember
  BY InitMember, OpenOnDisk DEF MemberInv
<1>4. OnDiskOf(disk, begin) = <<>> /\ InBlock = <<>>
  BY <1>1, <1>2, <1>3 DEF OpenMember, Records
<1>5. Members(disk, dir) = <<>>
  BY <1>1, <1>2 DEF Members
<1>6. OnDisk(begin) = <<>> /\ [m \in 1..Len(dir) |-> OnDisk(dir[m].begin)] = <<>>
  BY <1>4, <1>5, StoreState
<1>7. Len(asked) = 0
  BY <1>1, <1>2
<1>8. QED
  BY <1>1, <1>4, <1>6, <1>7 DEF Store!Init

\* Every step of either handle is a step of MemberStore or changes nothing there.
LEMMA StoreStep ==
  /\ MemberInv /\ OpenMember /\ Delivering
  /\ MemberInv' /\ OpenMember' /\ Delivering'
  /\ [MemberNext]_allvars
  => [Store!Next]_(Store!vars)
<1> SUFFICES ASSUME MemberInv, OpenMember, Delivering, MemberInv', OpenMember', Delivering',
                    [MemberNext]_allvars
             PROVE  [Store!Next]_(Store!vars)
  OBVIOUS
<1>1. TypeOK /\ TypeOK' /\ LayoutInv /\ NothingLost /\ OpenInv /\ DirInv /\ DirInv'
  BY DEF MemberInv
<1>2. CASE Next /\ UNCHANGED readervars
  BY <1>1, <1>2, WriterSimulates
<1>3. CASE R!Next /\ UNCHANGED <<handle, begin, asked, accepted, written>>
  BY <1>3, ReaderSimulates
<1>4. CASE UNCHANGED allvars
  BY <1>1, <1>4, WriterSimulates DEF allvars
<1>5. QED
  BY <1>2, <1>3, <1>4 DEF MemberNext

\* What bpamio.h promises of members is what the two handles do, for every format,
\* record length and block size, with any number of members and records.
THEOREM HandlesImplementStore == MemberSpec => ImplementsStore
<1>1. MemberInv => OpenMember /\ Delivering
  BY OpenOnDisk, ReaderDelivers DEF MemberInv
<1>2. QED
  BY <1>1, InitMember, MemberInvariant, InitStore, StoreStep, PTL DEF MemberSpec, ImplementsStore, Store!Spec
=============================================================================
