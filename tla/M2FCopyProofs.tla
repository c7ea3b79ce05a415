--------------------------- MODULE M2FCopyProofs ----------------------------
(***************************************************************************)
(* Proofs about M2FCopy, for all names, contents of members and sizes of   *)
(* the buffer.                                                             *)
(*                                                                         *)
(* NeverOverwrites and DescriptorsAccounted need only to know which file   *)
(* is open.  For FileIsMember the invariant says what the buffer holds     *)
(* while a member is read: pieces of records read so far, in order, and as *)
(* long as none was dropped all of them; that a file once made is not      *)
(* made again; and that the entries of the listing that have been passed   *)
(* are done with.                                                          *)
(***************************************************************************)
EXTENDS M2FCopy, TLAPS, FiniteSetTheorems, SequenceTheorems, WellFoundedInduction

Copying == pc \in {"find", "read", "write"}

-----------------------------------------------------------------------------
(* Types *)

\* buffer_write keeps the buffer within its size, and appends the piece or does not.
LEMMA WriteType ==
  ASSUME NEW b \in [data: Seq(Pieces), file_buffer_cur: 0..MAX_TEXT_FILE_SIZE],
         NEW piece \in Pieces, NEW len \in Nat
  PROVE  /\ buffer_write(b, piece, len) \in [data: Seq(Pieces), file_buffer_cur: 0..MAX_TEXT_FILE_SIZE]
         /\ buffer_write(b, piece, len).data \in {b.data, Append(b.data, piece)}
<1>1. CASE b.file_buffer_cur + len > MAX_TEXT_FILE_SIZE
  BY <1>1 DEF buffer_write
<1>2. CASE ~(b.file_buffer_cur + len > MAX_TEXT_FILE_SIZE)
  <2>1. b.file_buffer_cur + len \in 0..MAX_TEXT_FILE_SIZE
    BY <1>2, M2FAssumption
  <2>2. Append(b.data, piece) \in Seq(Pieces)
    BY AppendProperties
  <2> QED
    BY <1>2, <2>1, <2>2 DEF buffer_write
<1> QED
  BY <1>1, <1>2

\* What is put into the buffer of a file are pieces.
LEMMA PieceTypes ==
  ASSUME NEW i \in Nat, NEW ccsid
  PROVE  Record(i) \in Pieces /\ Newline(ccsid) \in Pieces
BY DEF Record, Newline, newline_char, Pieces

\* The listing openmemdir makes of the members there are.
LEMMA ListingType ==
  ASSUME TypeOK, ListMembers
  PROVE  listing' \in Seq([name: Names, ccsid: Ccsids, is_alias: BOOLEAN])
<1> DEFINE names == {n \in Names : dir[n] # Nothing}
           e(n) == [name |-> n, ccsid |-> dir[n].ccsid, is_alias |-> dir[n].alias]
<1>1. Cardinality(names) \in Nat
  BY M2FAssumption, FS_Subset, FS_CardinalityType
<1>2. ASSUME NEW n \in names
      PROVE  e(n) \in [name: Names, ccsid: Ccsids, is_alias: BOOLEAN]
  <2>1. dir[n] \in Entries
    BY DEF TypeOK
  <2> QED
    BY <2>1 DEF Entries
<1>3. PICK sorted \in [1..Cardinality(names) -> names] :
        listing' = [i \in DOMAIN sorted |-> e(sorted[i])]
  BY Zenon DEF ListMembers
<1> DEFINE T == [name: Names, ccsid: Ccsids, is_alias: BOOLEAN]
           n == Cardinality(names)
<1> HIDE DEF names, e, T
<1>4. listing' \in [1..n -> T]
  BY <1>2, <1>3 DEF T
<1> HIDE DEF n
<1>5. n \in Nat
  BY <1>1 DEF n
<1>6. listing' \in Seq(T)
  BY <1>4, <1>5
<1> QED
  BY <1>6 DEF T

\* Types at the beginning.
LEMMA InitTypes == Init => TypeOK
<1> SUFFICES ASSUME Init PROVE TypeOK
  OBVIOUS
<1>1. files \in [Names -> {Nothing} \cup Seq(Pieces)]
  <2>1. OldFile \in Seq(Pieces)
    <3>1. <<0, IBM1047_NL>> \in Pieces
      BY DEF Pieces
    <3> QED
      BY <3>1 DEF OldFile
  <2> QED
    BY <2>1 DEF Init
<1>2. buffer \in [data: Seq(Pieces), file_buffer_cur: 0..MAX_TEXT_FILE_SIZE]
  BY M2FAssumption DEF Init
<1>3. made \in [Names -> {Nothing} \cup Copies]
  BY DEF Init
<1>4. listing \in Seq([name: Names, ccsid: Ccsids, is_alias: BOOLEAN]) /\ Len(listing) = 0
  BY DEF Init
<1>5. found \in Contents \cup {<<>>} /\ line_num \in 0..Len(found) /\ cur \in 0..Len(listing)
  BY <1>4 DEF Init
<1>6. changes \in 0..MaxChanges
  BY M2FAssumption DEF Init
<1> QED
  BY <1>1, <1>2, <1>3, <1>4, <1>5, <1>6 DEF Init, TypeOK

\* The entry m2f has come to is one of the listing.
LEMMA EntryType ==
  ASSUME TypeOK, cur < Len(listing)
  PROVE  /\ cur + 1 \in 1..Len(listing)
         /\ Entry \in [name: Names, ccsid: Ccsids, is_alias: BOOLEAN]
<1>1. cur \in Nat /\ Len(listing) \in Nat
  BY LenProperties DEF TypeOK
<1>2. cur + 1 \in 1..Len(listing)
  BY <1>1
<1> QED
  BY <1>2, ElementOfSeq DEF TypeOK, Entry

\* The records of a member have lengths.
LEMMA RecordLength ==
  ASSUME TypeOK, NEW i \in 1..Len(found)
  PROVE  found[i] \in Nat
<1>1. found \in Seq(Nat)
  BY M2FAssumption DEF TypeOK
<1> QED
  BY <1>1

\* Nothing has been read of the listing before it is made.
AtStart == pc \in {"list", "open"} => cur = 0

\* No step breaks the types.
LEMMA StepTypes == TypeOK /\ AtStart /\ [Next]_vars => TypeOK'
<1> SUFFICES ASSUME TypeOK, AtStart, [Next]_vars PROVE TypeOK'
  OBVIOUS
<1> USE DEF world
<1>1. CASE ListMembers
  <2>1. listing' \in Seq([name: Names, ccsid: Ccsids, is_alias: BOOLEAN])
    BY <1>1, ListingType
  <2>2. cur \in 0..Len(listing')
    <3>1. cur = 0
      BY <1>1 DEF ListMembers, AtStart
    <3> QED
      BY <2>1, <3>1, LenProperties
  <2> QED
    BY <1>1, <2>1, <2>2 DEF ListMembers, TypeOK
<1>2. CASE CannotStart
  BY <1>2 DEF CannotStart, Exit, TypeOK
<1>3. CASE OpenDataset
  BY <1>3 DEF OpenDataset, TypeOK
<1>4. CASE Alias
  <2>1. cur + 1 \in 0..Len(listing)
    BY <1>4, EntryType DEF Alias
  <2> QED
    BY <1>4, <2>1 DEF Alias, NextEntry, TypeOK
<1>5. CASE CreateFile
  <2>1. files' \in [Names -> {Nothing} \cup Seq(Pieces)] /\ open' \subseteq Names
    BY <1>5, EntryType DEF CreateFile, open_file_create, TypeOK
  <2>2. buffer' \in [data: Seq(Pieces), file_buffer_cur: 0..MAX_TEXT_FILE_SIZE]
    BY <1>5, M2FAssumption DEF CreateFile, open_file_create
  <2> QED
    BY <1>5, <2>1, <2>2 DEF CreateFile, TypeOK
<1>6. CASE CreateFails
  <2>1. files' \in [Names -> {Nothing} \cup Seq(Pieces)]
    <3>1. CASE files' = files
      BY <3>1 DEF TypeOK
    <3>2. CASE files' = [files EXCEPT ![Entry.name] = <<>>]
      BY <3>2, EmptySeq DEF TypeOK
    <3> QED
      BY <1>6, <3>1, <3>2 DEF CreateFails
  <2> QED
    BY <1>6, <2>1 DEF CreateFails, Exit, TypeOK
<1>7. CASE Find
  <2>1. found' \in Contents
    BY <1>7, EntryType DEF Find, Entries, TypeOK
  <2>2. line_num' \in 0..Len(found')
    BY <1>7, <2>1, M2FAssumption, LenProperties DEF Find
  <2> QED
    BY <1>7, <2>1, <2>2 DEF Find, TypeOK
<1>8. CASE FindFails
  <2>1. cur + 1 \in 0..Len(listing) /\ missing' \subseteq Names
    BY <1>8, EntryType DEF FindFails, TypeOK
  <2> QED
    BY <1>8, <2>1 DEF FindFails, NextEntry, TypeOK
<1>9. CASE CopyRecord
  <2>1. Len(found) \in Nat /\ line_num + 1 \in 1..Len(found)
    BY <1>9, M2FAssumption, LenProperties DEF CopyRecord, TypeOK
  <2>2. found[line_num + 1] \in Nat /\ line_num + 1 \in Nat
    BY <2>1, RecordLength
  <2>3. buffer' \in [data: Seq(Pieces), file_buffer_cur: 0..MAX_TEXT_FILE_SIZE]
    BY <1>9, <2>2, WriteType, PieceTypes DEF CopyRecord, TypeOK
  <2> QED
    BY <1>9, <2>1, <2>3 DEF CopyRecord, TypeOK
<1>10. CASE EndOfMember
  BY <1>10 DEF EndOfMember, TypeOK
<1>11. CASE WriteFile
  <2>1. PICK n \in 0..Len(buffer.data) :
          /\ files' = [files EXCEPT ![Entry.name] = SubSeq(buffer.data, 1, n)]
          /\ made' = [made EXCEPT ![Entry.name] =
                        [recs |-> found, ccsid |-> Entry.ccsid, good |-> Whole /\ n = Len(buffer.data)]]
    BY <1>11 DEF WriteFile, WriteAndClose
  <2>2. cur < Len(listing)
    BY <1>11 DEF WriteFile, WriteAndClose, TypeOK
  <2>3. SubSeq(buffer.data, 1, n) \in Seq(Pieces)
    BY SubSeqProperties DEF TypeOK
  <2>4. files' \in [Names -> {Nothing} \cup Seq(Pieces)]
    BY <2>1, <2>3 DEF TypeOK
  <2>5. [recs |-> found, ccsid |-> Entry.ccsid, good |-> Whole /\ n = Len(buffer.data)] \in Copies
    BY <2>2, EntryType DEF Copies, Whole, TypeOK
  <2>6. made' \in [Names -> {Nothing} \cup Copies]
    BY <2>1, <2>5 DEF TypeOK
  <2>7. cur + 1 \in 0..Len(listing)
    BY <2>2, EntryType
  <2> QED
    BY <1>11, <2>4, <2>6, <2>7 DEF WriteFile, WriteAndClose, NextEntry, TypeOK
<1>12. CASE AllCopied
  BY <1>12 DEF AllCopied, Exit, TypeOK
<1>13. CASE Others
  <2>1. dir' \in [Names -> Entries \cup {Nothing}]
    BY <1>13 DEF Others, TypeOK
  <2>2. changes' \in 0..MaxChanges
    BY <1>13, M2FAssumption DEF Others, TypeOK
  <2> QED
    BY <1>13, <2>1, <2>2 DEF Others, TypeOK
<1>14. CASE UNCHANGED vars
  BY <1>14 DEF vars, TypeOK
<1> QED
  BY <1>1, <1>2, <1>3, <1>4, <1>5, <1>6, <1>7, <1>8, <1>9, <1>10, <1>11, <1>12, <1>13, <1>14
  DEF Next, m2f

\* The cursor does not move before the listing is made.
LEMMA StepAtStart == TypeOK /\ AtStart /\ [Next]_vars => AtStart'
<1> SUFFICES ASSUME TypeOK, AtStart, [Next]_vars PROVE AtStart'
  OBVIOUS
<1> USE DEF world, AtStart
<1>1. CASE ListMembers
  BY <1>1 DEF ListMembers
<1>2. CASE CannotStart \/ AllCopied
  BY <1>2 DEF CannotStart, AllCopied, Exit
<1>3. CASE OpenDataset
  BY <1>3 DEF OpenDataset
<1>4. CASE Alias \/ FindFails
  BY <1>4 DEF Alias, FindFails, NextEntry
<1>5. CASE CreateFile \/ CreateFails
  BY <1>5 DEF CreateFile, CreateFails, Exit
<1>6. CASE Find \/ CopyRecord \/ EndOfMember
  BY <1>6 DEF Find, CopyRecord, EndOfMember
<1>7. CASE WriteFile
  BY <1>7 DEF WriteFile, WriteAndClose, NextEntry
<1>8. CASE Others
  BY <1>8 DEF Others
<1>9. CASE UNCHANGED vars
  BY <1>9 DEF vars
<1> QED
  BY <1>1, <1>2, <1>3, <1>4, <1>5, <1>6, <1>7, <1>8, <1>9 DEF Next, m2f

\* Whatever the members, and whatever other programs do to them, nothing is put past the
\* end of file_buffer (fsio.c:192-211), and no entry is looked at behind the last one.
THEOREM TypeCorrect == Spec => []TypeOK
<1>1. Init => AtStart
  BY DEF Init, AtStart
<1> QED
  BY <1>1, InitTypes, StepTypes, StepAtStart, PTL DEF Spec

-----------------------------------------------------------------------------
(* Which files are open *)

\* The file of the entry being copied is open; those that are open besides were not found.
OpenFiles ==
  /\ Copying => Entry.name \in open
  /\ open \subseteq missing \cup (IF Copying THEN {Entry.name} ELSE {})

\* No step leaves another file open than that of the entry being copied.
LEMMA StepOpenFiles == TypeOK /\ OpenFiles /\ [Next]_vars => OpenFiles'
<1> SUFFICES ASSUME TypeOK, OpenFiles, [Next]_vars PROVE OpenFiles'
  OBVIOUS
<1> USE DEF world, OpenFiles, Copying
<1>1. CASE ListMembers
  BY <1>1 DEF ListMembers
<1>2. CASE CannotStart \/ AllCopied
  BY <1>2 DEF CannotStart, AllCopied, Exit
<1>3. CASE OpenDataset
  BY <1>3 DEF OpenDataset
<1>4. CASE Alias
  BY <1>4 DEF Alias, NextEntry
<1>5. CASE CreateFile
  BY <1>5 DEF CreateFile, open_file_create, Entry
<1>6. CASE CreateFails
  BY <1>6 DEF CreateFails, Exit
<1>7. CASE FindFails
  BY <1>7 DEF FindFails, NextEntry
<1>8. CASE Find \/ CopyRecord \/ EndOfMember
  BY <1>8 DEF Find, CopyRecord, EndOfMember, Entry
<1>9. CASE WriteFile
  BY <1>9 DEF WriteFile, WriteAndClose, NextEntry
<1>10. CASE Others
  BY <1>10 DEF Others, Entry
<1>11. CASE UNCHANGED vars
  BY <1>11 DEF vars, Entry
<1> QED
  BY <1>1, <1>2, <1>3, <1>4, <1>5, <1>6, <1>7, <1>8, <1>9, <1>10, <1>11 DEF Next, m2f

\* What is shown of the steps holds at any moment.
LEMMA InvariantHolds == Spec => [](TypeOK /\ OpenFiles)
<1>1. Init => OpenFiles
  BY DEF Init, OpenFiles, Copying
<1> QED
  BY <1>1, TypeCorrect, StepOpenFiles, PTL DEF Spec

\* However many members are not found, the descriptors and buffers that are kept are one for
\* each of them and one for the member being copied (m2f.c:164-167).
THEOREM DescriptorsAreAccounted == Spec => []DescriptorsAccounted
<1>1. OpenFiles => DescriptorsAccounted
  BY DEF OpenFiles, DescriptorsAccounted, Copying
<1> QED
  BY <1>1, InvariantHolds, PTL

\* A step leaves a file that is there alone, unless it is the one being written.
LEMMA StepKeepsFiles ==
  TypeOK /\ OpenFiles /\ [Next]_vars =>
    \A n \in Names : files[n] # Nothing /\ n \notin open => files'[n] = files[n]
<1> SUFFICES ASSUME TypeOK, OpenFiles, [Next]_vars, NEW n \in Names,
                    files[n] # Nothing, n \notin open
             PROVE  files'[n] = files[n]
  OBVIOUS
<1>1. CASE UNCHANGED files
  BY <1>1
<1>2. CASE CreateFile
  BY <1>2 DEF CreateFile, open_file_create, TypeOK
<1>3. CASE CreateFails
  BY <1>3 DEF CreateFails, TypeOK
<1>4. CASE WriteFile
  <2>1. n # Entry.name
    BY <1>4 DEF WriteFile, WriteAndClose, OpenFiles, Copying
  <2>2. PICK k \in 0..Len(buffer.data) : files' = [files EXCEPT ![Entry.name] = SubSeq(buffer.data, 1, k)]
    BY <1>4 DEF WriteFile, WriteAndClose
  <2> QED
    BY <2>1, <2>2 DEF TypeOK
<1> QED
  BY <1>1, <1>2, <1>3, <1>4
  DEF Next, m2f, vars, ListMembers, CannotStart, OpenDataset, Alias, Find, FindFails, CopyRecord,
      EndOfMember, AllCopied, Others

\* m2f changes no file that was there before it, nor one it has written (fsio.c, O_EXCL).
THEOREM FilesAreNotOverwritten == Spec => NeverOverwrites
<1>1. TypeOK /\ OpenFiles /\ [Next]_vars =>
        [\A n \in Names : files[n] # Nothing /\ n \notin open => files'[n] = files[n]]_vars
  BY StepKeepsFiles
<1> QED
  BY <1>1, InvariantHolds, PTL DEF Spec, NeverOverwrites

-----------------------------------------------------------------------------
(* The bytes of a file *)

\* A set of numbers has a least one.
LEMMA LeastNumber ==
  ASSUME NEW T, T \subseteq Nat, T # {}
  PROVE  \E n \in T : \A k \in T : n <= k
<1>1. IsWellFoundedOn(OpToRel(<, Nat), Nat)
  BY NatLessThanWellFounded
<1>2. PICK n \in T : \A k \in T : ~ (<<k, n>> \in OpToRel(<, Nat))
  BY <1>1, WFMin
<1>3. ASSUME NEW k \in T PROVE n <= k
  <2>1. n \in Nat /\ k \in Nat
    OBVIOUS
  <2>2. ~(k < n)
    BY <1>2, <2>1 DEF OpToRel
  <2>3. QED
    BY <2>1, <2>2
<1>4. QED
  BY <1>3

\* The function that FileBytes defines by recursion: the bytes of the first i records.
Step(recs, f, i) == IF i = 0 THEN 0 ELSE f[i - 1] + recs[i] + 1
Upto(recs) == CHOOSE f : f = [i \in 0..Len(recs) |-> Step(recs, f, i)]

\* The recursion has a solution as far as one likes.
LEMMA UptoFunction ==
  ASSUME NEW recs, NEW n \in Nat
  PROVE  \E f : f = [i \in 0..n |-> Step(recs, f, i)]
<1> DEFINE Solves(f, m) == f = [i \in 0..m |-> Step(recs, f, i)]
           Bad == {m \in Nat : ~(\E f : Solves(f, m))}
<1>1. SUFFICES ASSUME Bad # {} PROVE FALSE
  OBVIOUS
<1>2. PICK m \in Bad : \A k \in Bad : m <= k
  <2>1. Bad \subseteq Nat
    OBVIOUS
  <2> HIDE DEF Bad
  <2>2. QED
    BY <1>1, <2>1, LeastNumber
<1>3. m \in Nat /\ ~(\E f : Solves(f, m))
  OBVIOUS
<1>4. m # 0
  <2>1. Solves([i \in 0..0 |-> 0], 0)
    BY DEF Step
  <2> HIDE DEF Solves
  <2>2. QED
    BY <1>3, <2>1
<1>5. m - 1 \in Nat /\ ~(m - 1 \in Bad)
  <2> HIDE DEF Bad
  <2>1. m - 1 \in Nat /\ ~(m <= m - 1)
    BY <1>3, <1>4
  <2>2. QED
    BY <1>2, <2>1
<1>6. PICK h : Solves(h, m - 1)
  BY <1>5
<1> DEFINE g == [i \in 0..m |-> IF i = m THEN Step(recs, h, m) ELSE h[i]]
<1>7. ASSUME NEW i \in 0..m
      PROVE  g[i] = Step(recs, g, i)
  <2>1. i # 0 => i - 1 \in 0..m /\ i - 1 # m
    BY <1>3
  <2>2. i # 0 => g[i - 1] = h[i - 1]
    BY <2>1
  <2>3. CASE i = m
    BY <1>4, <2>2, <2>3 DEF Step
  <2>4. CASE i # m
    <3>1. i \in 0..m - 1
      BY <1>3, <2>4
    <3>2. h[i] = Step(recs, h, i)
      BY <1>6, <3>1, Zenon
    <3>3. g[i] = h[i]
      BY <2>4
    <3> HIDE DEF g
    <3>4. QED
      BY <2>2, <3>2, <3>3 DEF Step
  <2>5. QED
    BY <2>3, <2>4
<1>8. g = [i \in 0..m |-> g[i]]
  OBVIOUS
<1> HIDE DEF g
<1>9. [i \in 0..m |-> g[i]] = [i \in 0..m |-> Step(recs, g, i)]
  BY <1>7, Zenon
<1>10. Solves(g, m)
  BY <1>8, <1>9
<1> HIDE DEF Solves
<1>11. QED
  BY <1>3, <1>10

\* Each record and its newline add to the bytes before them, and all are the bytes of
\* the file.
LEMMA UptoSteps ==
  ASSUME NEW recs \in Seq(Nat)
  PROVE  /\ Upto(recs)[0] = 0
         /\ \A i \in 1..Len(recs) : Upto(recs)[i] = Upto(recs)[i - 1] + recs[i] + 1
         /\ FileBytes(recs) = Upto(recs)[Len(recs)]
<1> DEFINE n == Len(recs)
           f == Upto(recs)
<1>1. n \in Nat
  BY LenProperties
<1>2. f = [i \in 0..n |-> Step(recs, f, i)]
  <2>1. \E h : h = [i \in 0..n |-> Step(recs, h, i)]
    BY <1>1, UptoFunction
  <2> HIDE DEF n
  <2>2. f = CHOOSE h : h = [i \in 0..n |-> Step(recs, h, i)]
    BY Zenon DEF Upto, n
  <2> HIDE DEF f
  <2>3. QED
    BY <2>1, <2>2, Zenon
<1>3. FileBytes(recs) = f[n]
  BY Zenon DEF FileBytes, Upto, Step
<1> HIDE DEF f, n
<1>4. \A i \in 0..n : f[i] = Step(recs, f, i)
  BY <1>2, Zenon
<1>5. f[0] = 0
  BY <1>1, <1>4 DEF Step
<1>6. \A i \in 1..n : f[i] = f[i - 1] + recs[i] + 1
  <2>1. \A i \in 1..n : i \in 0..n /\ i # 0
    BY <1>1
  <2>2. QED
    BY <1>4, <2>1 DEF Step
<1>7. QED
  BY <1>3, <1>5, <1>6 DEF f, n

\* No beginning of a file has more bytes than the file.
LEMMA UptoBound ==
  ASSUME NEW recs \in Seq(Nat), NEW i \in 0..Len(recs)
  PROVE  Upto(recs)[i] \in Nat /\ Upto(recs)[i] <= FileBytes(recs)
<1> DEFINE n == Len(recs)
           f == Upto(recs)
<1>1. n \in Nat /\ \A j \in 1..n : recs[j] \in Nat
  BY LenProperties, ElementOfSeq
<1>2. /\ f[0] = 0 /\ FileBytes(recs) = f[n]
      /\ \A j \in 1..n : f[j] = f[j - 1] + recs[j] + 1
  BY UptoSteps
<1> HIDE DEF f, n
<1>3. \A j \in 0..n : f[j] \in Nat
  <2> DEFINE Bad == {j \in 0..n : f[j] \notin Nat}
  <2>1. SUFFICES ASSUME Bad # {} PROVE FALSE
    OBVIOUS
  <2>2. PICK j \in Bad : \A k \in Bad : j <= k
    <3>1. Bad \subseteq Nat
      BY <1>1
    <3> HIDE DEF Bad
    <3>2. QED
      BY <2>1, <3>1, LeastNumber
  <2>3. j \in 0..n /\ f[j] \notin Nat
    OBVIOUS
  <2>4. j # 0
    BY <1>2, <2>3
  <2>5. j \in 1..n /\ j - 1 \in 0..n /\ ~(j <= j - 1)
    BY <1>1, <2>3, <2>4
  <2>6. f[j - 1] \in Nat
    BY <2>2, <2>5
  <2>7. f[j] = f[j - 1] + recs[j] + 1 /\ recs[j] \in Nat
    BY <1>1, <1>2, <2>5
  <2>8. QED
    BY <2>3, <2>6, <2>7
<1>4. \A k \in 0..n : f[n - k] <= f[n]
  <2> DEFINE Bad == {k \in 0..n : ~(f[n - k] <= f[n])}
  <2>1. SUFFICES ASSUME Bad # {} PROVE FALSE
    OBVIOUS
  <2>2. PICK k \in Bad : \A l \in Bad : k <= l
    <3>1. Bad \subseteq Nat
      BY <1>1
    <3> HIDE DEF Bad
    <3>2. QED
      BY <2>1, <3>1, LeastNumber
  <2>3. k \in 0..n /\ ~(f[n - k] <= f[n])
    OBVIOUS
  <2>4. k # 0
    <3>1. n - 0 = n /\ f[n] \in Nat
      BY <1>1, <1>3
    <3>2. QED
      BY <2>3, <3>1
  <2> DEFINE j == n - (k - 1)
  <2>5. k - 1 \in 0..n /\ ~(k <= k - 1) /\ j \in 1..n /\ j - 1 = n - k /\ j - 1 \in 0..n /\ j \in 0..n /\ n \in 0..n
    BY <1>1, <2>3, <2>4
  <2>6. f[j] <= f[n]
    BY <2>2, <2>5
  <2> HIDE DEF j
  <2>7. f[j] = f[j - 1] + recs[j] + 1 /\ f[j] \in Nat /\ f[j - 1] \in Nat /\ f[n] \in Nat /\ recs[j] \in Nat
    BY <1>1, <1>2, <1>3, <2>5
  <2>8. ~(f[j - 1] <= f[n])
    BY <2>3, <2>5
  <2>9. QED
    BY <2>6, <2>7, <2>8
<1>5. i \in 0..n /\ n - i \in 0..n /\ n - (n - i) = i
  BY <1>1 DEF n
<1>6. f[i] <= f[n]
  BY <1>4, <1>5
<1>7. QED
  BY <1>2, <1>3, <1>5, <1>6 DEF f

-----------------------------------------------------------------------------
(* Files and the members they are made of *)

\* Pieces of the first m records and newlines, the records in order.
Ordered(data, m) ==
  /\ \A i \in 1..Len(data) : data[i][1] <= m
  /\ \A i, j \in 1..Len(data) :
       i < j /\ data[i][1] # 0 /\ data[j][1] # 0 => data[i][1] < data[j][1]

\* The piece i of a file none of whose pieces was dropped.
TextPiece(i, ccsid) == IF i % 2 = 1 THEN Record((i + 1) \div 2) ELSE Newline(ccsid)

\* What is in the buffer: of a file for which there is room, all that was read so far.
BufferInv ==
  /\ pc = "find" => buffer = [data |-> <<>>, file_buffer_cur |-> 0]
  /\ pc \in {"read", "write"} =>
       /\ Ordered(buffer.data, line_num)
       /\ FileBytes(found) <= MAX_TEXT_FILE_SIZE =>
            /\ buffer.file_buffer_cur = Upto(found)[line_num]
            /\ Len(buffer.data) = 2 * line_num
            /\ \A i \in 1..2 * line_num : buffer.data[i] = TextPiece(i, Entry.ccsid)

\* A file that was made is there, is not the one being written, and is as it was made.
MadeInv ==
  \A n \in Names : made[n] # Nothing =>
    /\ files[n] # Nothing /\ (Copying => n # Entry.name)
    /\ made[n].good => files[n] = Text(made[n].recs, made[n].ccsid)
    /\ \A i, j \in DOMAIN files[n] :
         i < j /\ files[n][i][1] # 0 /\ files[n][j][1] # 0 => files[n][i][1] < files[n][j][1]

\* The entries of the listing that have been passed are done with.
PassedInv ==
  /\ \A i \in 1..cur :
       listing[i].is_alias \/ made[listing[i].name] # Nothing \/ listing[i].name \in missing
  /\ pc = "exit" /\ rc \in {0, 8} => cur = Len(listing)

\* A piece behind pieces that are in order.
LEMMA OrderedAppend ==
  ASSUME NEW data \in Seq(Pieces), NEW m \in Nat, NEW k \in Nat, m <= k, Ordered(data, m),
         NEW piece \in Pieces, piece[1] = 0 \/ (m < piece[1] /\ piece[1] <= k)
  PROVE  Ordered(data, k) /\ Ordered(Append(data, piece), k)
<1> DEFINE n == Len(data)
           new == Append(data, piece)
<1>1. /\ n \in Nat /\ Len(new) = n + 1 /\ new[n + 1] = piece
      /\ \A i \in 1..n : new[i] = data[i]
  BY LenProperties, AppendProperties
<1>2. \A i \in 1..n : data[i][1] \in Nat /\ data[i][1] <= m
  <2>1. \A i \in 1..n : data[i] \in Pieces
    BY ElementOfSeq
  <2>2. QED
    BY <2>1 DEF Ordered, Pieces
<1>3. \A i, j \in 1..n : i < j /\ data[i][1] # 0 /\ data[j][1] # 0 => data[i][1] < data[j][1]
  BY DEF Ordered
<1>4. piece[1] \in Nat /\ (piece[1] = 0 \/ (m < piece[1] /\ piece[1] <= k))
  BY DEF Pieces
<1> HIDE DEF n, new
<1>5. \A i \in 1..n + 1 : i \in 1..n \/ i = n + 1
  BY <1>1
<1>6. \A i \in 1..n : data[i][1] <= k
  BY <1>2
<1>7. \A i \in 1..n + 1 : new[i][1] <= k
  BY <1>1, <1>4, <1>5, <1>6
<1>8. ASSUME NEW i \in 1..n + 1, NEW j \in 1..n + 1, i < j, new[i][1] # 0, new[j][1] # 0
      PROVE  new[i][1] < new[j][1]
  <2>1. i \in 1..n
    BY <1>1, <1>8
  <2>2. CASE j \in 1..n
    BY <1>1, <1>3, <1>8, <2>1, <2>2
  <2>3. CASE j = n + 1
    <3>1. new[j] = piece /\ new[i] = data[i] /\ data[i][1] \in Nat /\ data[i][1] <= m
      BY <1>1, <1>2, <2>1, <2>3
    <3>2. QED
      BY <1>4, <1>8, <3>1
  <2>4. QED
    BY <1>5, <2>2, <2>3
<1>9. QED
  BY <1>1, <1>3, <1>6, <1>7, <1>8 DEF Ordered, n, new

\* A line and its newline into the buffer.
LEMMA CopyKeepsBuffer ==
  ASSUME TypeOK, BufferInv, CopyRecord
  PROVE  BufferInv'
<1> DEFINE m == line_num
           k == m + 1
           len == found[k]
           b == buffer_write(buffer, Record(k), len)
           Room == FileBytes(found) <= MAX_TEXT_FILE_SIZE
           Buffers == [data: Seq(Pieces), file_buffer_cur: 0..MAX_TEXT_FILE_SIZE]
<1>1. /\ pc = "read" /\ pc' = "read" /\ m < Len(found) /\ line_num' = k
      /\ buffer' = buffer_write(b, Newline(Entry.ccsid), 1)
      /\ found' = found /\ Entry' = Entry
  BY DEF CopyRecord, Entry
<1>2. /\ found \in Seq(Nat) /\ Len(found) \in Nat /\ m \in Nat /\ k \in Nat /\ k \in 1..Len(found)
      /\ k \in 0..Len(found) /\ k - 1 = m
  <2>0. found \in Contents \cup {<<>>} /\ m \in 0..Len(found)
    BY DEF TypeOK
  <2>1. found \in Seq(Nat) /\ m \in 0..Len(found)
    <3>1. <<>> \in Seq(Nat) /\ Contents \subseteq Seq(Nat)
      BY M2FAssumption, EmptySeq
    <3> HIDE DEF m
    <3>2. QED
      BY <2>0, <3>1
  <2>2. Len(found) \in Nat
    BY <2>1, LenProperties
  <2>3. QED
    BY <1>1, <2>1, <2>2
<1>3. len \in Nat /\ buffer \in Buffers
  BY <1>2, RecordLength DEF TypeOK
<1>4. Record(k) \in Pieces /\ Newline(Entry.ccsid) \in Pieces
  BY <1>2, PieceTypes
<1>5. Record(k)[1] = k /\ Newline(Entry.ccsid)[1] = 0
  BY DEF Record, Newline
<1>6. /\ b \in Buffers /\ b.data \in {buffer.data, Append(buffer.data, Record(k))}
      /\ buffer' \in Buffers /\ buffer'.data \in {b.data, Append(b.data, Newline(Entry.ccsid))}
  <2>1. b \in Buffers /\ b.data \in {buffer.data, Append(buffer.data, Record(k))}
    BY <1>3, <1>4, WriteType
  <2> HIDE DEF b
  <2>2. QED
    BY <1>1, <1>4, <2>1, WriteType
<1>7. Ordered(buffer.data, m) /\ buffer.data \in Seq(Pieces) /\ b.data \in Seq(Pieces)
  BY <1>1, <1>3, <1>6 DEF BufferInv
<1>8. Ordered(buffer'.data, k)
  <2>1. m <= k /\ m < k /\ k <= k
    BY <1>2
  <2>2. Ordered(b.data, k)
    <3> HIDE DEF b, k, m
    <3>1. Ordered(buffer.data, k) /\ Ordered(Append(buffer.data, Record(k)), k)
      BY <1>2, <1>4, <1>5, <1>7, <2>1, OrderedAppend
    <3>2. QED
      BY <1>6, <3>1
  <2> HIDE DEF b, k, m
  <2>3. Ordered(Append(b.data, Newline(Entry.ccsid)), k)
    BY <1>2, <1>4, <1>5, <1>7, <2>1, <2>2, OrderedAppend
  <2>4. QED
    BY <1>6, <2>2, <2>3
<1>9. ASSUME Room
      PROVE  /\ buffer'.file_buffer_cur = Upto(found)[k]
             /\ Len(buffer'.data) = 2 * k
             /\ \A i \in 1..2 * k : buffer'.data[i] = TextPiece(i, Entry.ccsid)
  <2> DEFINE d == buffer.data
             used == buffer.file_buffer_cur
  <2>1. /\ used = Upto(found)[m] /\ Len(d) = 2 * m
        /\ \A i \in 1..2 * m : d[i] = TextPiece(i, Entry.ccsid)
    BY <1>1, <1>9 DEF BufferInv
  <2>2. /\ Upto(found)[k] = Upto(found)[k - 1] + found[k] + 1
        /\ Upto(found)[k] \in Nat /\ Upto(found)[k] <= FileBytes(found)
    <3> HIDE DEF k, m
    <3>1. QED
      BY <1>2, UptoSteps, UptoBound
  <2>3. FileBytes(found) = Upto(found)[Len(found)] /\ FileBytes(found) \in Nat
    <3>1. Len(found) \in 0..Len(found)
      BY <1>2
    <3>2. QED
      BY <1>2, <3>1, UptoSteps, UptoBound
  <2>4. used \in Nat /\ used + len + 1 = Upto(found)[k] /\ used + len + 1 <= MAX_TEXT_FILE_SIZE
        /\ MAX_TEXT_FILE_SIZE \in Nat
    <3>1. Upto(found)[k - 1] = used
      BY <1>2, <2>1
    <3>2. used \in Nat /\ MAX_TEXT_FILE_SIZE \in Nat
      BY <1>3, M2FAssumption
    <3> HIDE DEF used
    <3>3. QED
      BY <1>3, <1>9, <2>2, <2>3, <3>1, <3>2
  <2> HIDE DEF used, d
  <2>5. b = [data |-> Append(d, Record(k)), file_buffer_cur |-> used + len]
    <3>1. ~(used + len > MAX_TEXT_FILE_SIZE)
      BY <1>3, <2>4
    <3>2. QED
      BY <3>1, Zenon DEF buffer_write, used, d
  <2>6. buffer' = [data |-> Append(Append(d, Record(k)), Newline(Entry.ccsid)),
                   file_buffer_cur |-> used + len + 1]
    <3>1. b.file_buffer_cur = used + len /\ b.data = Append(d, Record(k))
      BY <2>5
    <3>2. ~((used + len) + 1 > MAX_TEXT_FILE_SIZE)
      BY <1>3, <2>4
    <3> HIDE DEF b
    <3>3. QED
      BY <1>1, <3>1, <3>2 DEF buffer_write
  <2> DEFINE e == Append(d, Record(k))
             g == Append(e, Newline(Entry.ccsid))
  <2>7. d \in Seq(Pieces)
    BY <1>7 DEF d
  <2>8. /\ e \in Seq(Pieces) /\ Len(e) = 2 * m + 1 /\ e[2 * m + 1] = Record(k)
        /\ \A i \in 1..2 * m : e[i] = d[i]
    <3> HIDE DEF k
    <3>1. /\ e \in Seq(Pieces) /\ Len(e) = Len(d) + 1 /\ e[Len(d) + 1] = Record(k)
          /\ \A i \in 1..Len(d) : e[i] = d[i]
      BY <1>4, <2>7, AppendProperties
    <3> HIDE DEF e
    <3>2. QED
      BY <2>1, <3>1
  <2>9. /\ Len(g) = (2 * m + 1) + 1 /\ g[(2 * m + 1) + 1] = Newline(Entry.ccsid)
        /\ \A i \in 1..2 * m + 1 : g[i] = e[i]
    <3> HIDE DEF e
    <3>1. /\ Len(g) = Len(e) + 1 /\ g[Len(e) + 1] = Newline(Entry.ccsid)
          /\ \A i \in 1..Len(e) : g[i] = e[i]
      BY <1>4, <2>8, AppendProperties
    <3> HIDE DEF g
    <3>2. QED
      BY <2>8, <3>1
  <2>10. buffer'.data = g /\ buffer'.file_buffer_cur = used + len + 1
    BY <2>6
  <2> HIDE DEF e, g
  <2>11. /\ TextPiece(2 * m + 1, Entry.ccsid) = Record(k)
         /\ TextPiece(2 * m + 2, Entry.ccsid) = Newline(Entry.ccsid)
    <3>1. (2 * m + 1) % 2 = 1 /\ ((2 * m + 1) + 1) \div 2 = k /\ (2 * m + 2) % 2 # 1
      BY <1>2
    <3>2. QED
      BY <3>1 DEF TextPiece
  <2>12. \A i \in 1..2 * k : i \in 1..2 * m \/ i = 2 * m + 1 \/ i = 2 * m + 2
    BY <1>2
  <2>13. 2 * k = 2 * m + 2 /\ (2 * m + 1) + 1 = 2 * m + 2 /\ 2 * m + 1 \in 1..2 * m + 1
         /\ \A i \in 1..2 * m : i \in 1..2 * m + 1
    BY <1>2
  <2> HIDE DEF k
  <2>14. \A i \in 1..2 * k : g[i] = TextPiece(i, Entry.ccsid)
    BY <2>1, <2>8, <2>9, <2>11, <2>12, <2>13
  <2>15. QED
    BY <2>4, <2>9, <2>10, <2>13, <2>14
<1> HIDE DEF k
<1>10. QED
  BY <1>1, <1>8, <1>9 DEF BufferInv

\* Every step keeps what is said of the buffer.
LEMMA StepBuffer == TypeOK /\ BufferInv /\ [Next]_vars => BufferInv'
<1> SUFFICES ASSUME TypeOK, BufferInv, [Next]_vars PROVE BufferInv'
  OBVIOUS
<1>1. CASE pc' \notin {"find", "read", "write"}
  BY <1>1 DEF BufferInv
<1>2. CASE CreateFile
  BY <1>2 DEF CreateFile, open_file_create, BufferInv
<1>3. CASE Find
  <2>1. /\ pc = "find" /\ pc' = "read" /\ line_num' = 0 /\ buffer' = buffer
        /\ buffer = [data |-> <<>>, file_buffer_cur |-> 0]
    BY <1>3 DEF Find, BufferInv
  <2>2. buffer'.data = <<>> /\ buffer'.file_buffer_cur = 0 /\ Len(<<>>) = 0
    BY <2>1, EmptySeq
  <2>3. found' \in Seq(Nat)
    <3>1. found' \in Contents
      BY <1>3, EntryType DEF Find, Entries, TypeOK
    <3>2. QED
      BY <3>1, M2FAssumption
  <2>4. Upto(found')[0] = 0
    BY <2>3, UptoSteps
  <2>5. QED
    BY <2>1, <2>2, <2>4 DEF BufferInv, Ordered
<1>4. CASE CopyRecord
  BY <1>4, CopyKeepsBuffer
<1>5. CASE EndOfMember
  BY <1>5 DEF EndOfMember, BufferInv, Entry
<1>6. CASE Others
  BY <1>6 DEF Others, BufferInv, Entry
<1>7. CASE UNCHANGED vars
  BY <1>7 DEF vars, BufferInv, Entry
<1>8. QED
  BY <1>1, <1>2, <1>3, <1>4, <1>5, <1>6, <1>7
  DEF Next, m2f, ListMembers, CannotStart, OpenDataset, Alias, CreateFails, FindFails, WriteFile,
      WriteAndClose, NextEntry, AllCopied, Exit

\* What write_file puts into a file is in order, and if it is good it is the member.
LEMMA WrittenFile ==
  ASSUME TypeOK, BufferInv, pc = "write", NEW n \in 0..Len(buffer.data),
         NEW file, file = SubSeq(buffer.data, 1, n)
  PROVE  /\ Whole /\ n = Len(buffer.data) => file = Text(found, Entry.ccsid)
         /\ \A i, j \in DOMAIN file :
              i < j /\ file[i][1] # 0 /\ file[j][1] # 0 => file[i][1] < file[j][1]
<1> DEFINE d == buffer.data
<1>1. d \in Seq(Pieces) /\ Len(d) \in Nat /\ n \in Nat /\ n <= Len(d)
  <2>1. d \in Seq(Pieces)
    BY DEF TypeOK
  <2>2. Len(d) \in Nat
    BY <2>1, LenProperties
  <2>3. QED
    BY <2>1, <2>2
<1>2. /\ Ordered(d, line_num)
      /\ FileBytes(found) <= MAX_TEXT_FILE_SIZE =>
           /\ Len(d) = 2 * line_num
           /\ \A i \in 1..2 * line_num : d[i] = TextPiece(i, Entry.ccsid)
  BY DEF BufferInv
<1> HIDE DEF d
<1>3. file = [i \in 1..n |-> d[i]]
  <2>1. file = SubSeq(d, 1, n)
    BY DEF d
  <2>2. QED
    BY <1>1, <2>1
<1>4. \A i, j \in 1..n : i < j /\ d[i][1] # 0 /\ d[j][1] # 0 => d[i][1] < d[j][1]
  <2>1. \A i \in 1..n : i \in 1..Len(d)
    BY <1>1
  <2>2. QED
    BY <1>2, <2>1 DEF Ordered
<1>5. ASSUME Whole, n = Len(buffer.data) PROVE file = Text(found, Entry.ccsid)
  <2>1. /\ n = 2 * Len(found)
        /\ \A i \in 1..n : d[i] = TextPiece(i, Entry.ccsid)
    BY <1>2, <1>5 DEF Whole, d
  <2>2. Text(found, Entry.ccsid) = [i \in 1..n |-> TextPiece(i, Entry.ccsid)]
    BY <2>1 DEF Text, TextPiece
  <2>3. QED
    BY <1>3, <2>1, <2>2
<1>6. QED
  BY <1>3, <1>4, <1>5

\* Every step keeps what is said of the files that were made.
LEMMA StepMade == TypeOK /\ BufferInv /\ MadeInv /\ [Next]_vars => MadeInv'
<1> SUFFICES ASSUME TypeOK, BufferInv, MadeInv, [Next]_vars PROVE MadeInv'
  OBVIOUS
<1>1. CASE /\ UNCHANGED <<files, made>>
           /\ ~Copying' \/ (Copying /\ UNCHANGED <<listing, cur>>)
  BY <1>1 DEF MadeInv, Copying, Entry
<1>2. CASE CreateFile
  <2>1. /\ UNCHANGED <<made, listing, cur>> /\ files[Entry.name] = Nothing
        /\ files' = [files EXCEPT ![Entry.name] = <<>>]
    BY <1>2 DEF CreateFile, open_file_create
  <2>2. \A n \in Names : made[n] # Nothing => n # Entry.name
    BY <2>1 DEF MadeInv
  <2>3. \A n \in Names : n # Entry.name => files'[n] = files[n]
    BY <2>1 DEF TypeOK
  <2>4. QED
    BY <2>1, <2>2, <2>3 DEF MadeInv, Entry
<1>3. CASE CreateFails
  <2>1. /\ UNCHANGED made /\ ~Copying'
        /\ UNCHANGED files \/ (files[Entry.name] = Nothing /\ files' = [files EXCEPT ![Entry.name] = <<>>])
    BY <1>3 DEF CreateFails, Exit, Copying
  <2>2. \A n \in Names : made[n] # Nothing => files'[n] = files[n]
    BY <2>1 DEF MadeInv, TypeOK
  <2>3. QED
    BY <2>1, <2>2 DEF MadeInv
<1>4. CASE WriteFile
  <2>1. pc = "write" /\ ~Copying'
    BY <1>4 DEF WriteFile, WriteAndClose, NextEntry, Copying
  <2>2. PICK k \in 0..Len(buffer.data) :
          /\ files' = [files EXCEPT ![Entry.name] = SubSeq(buffer.data, 1, k)]
          /\ made' = [made EXCEPT ![Entry.name] =
                        [recs |-> found, ccsid |-> Entry.ccsid, good |-> Whole /\ k = Len(buffer.data)]]
    BY <1>4 DEF WriteFile, WriteAndClose
  <2>3. ASSUME NEW n \in Names, n # Entry.name
        PROVE  files'[n] = files[n] /\ made'[n] = made[n]
    BY <2>2, <2>3 DEF TypeOK
  <2>4. Entry.name \in Names
    BY <2>1, EntryType DEF TypeOK
  <2> DEFINE file == SubSeq(buffer.data, 1, k)
             good == Whole /\ k = Len(buffer.data)
  <2>5. /\ files'[Entry.name] = file
        /\ made'[Entry.name] = [recs |-> found, ccsid |-> Entry.ccsid, good |-> good]
    BY <2>2, <2>4 DEF TypeOK
  <2>6. /\ good => file = Text(found, Entry.ccsid)
        /\ \A i, j \in DOMAIN file :
             i < j /\ file[i][1] # 0 /\ file[j][1] # 0 => file[i][1] < file[j][1]
    BY <2>1, WrittenFile
  <2>7. file # Nothing
    <3>1. file \in Seq(Pieces)
      BY SubSeqProperties DEF TypeOK
    <3>2. QED
      BY <3>1, M2FAssumption
  <2> HIDE DEF file, good
  <2>8. QED
    <3>1. SUFFICES ASSUME NEW n \in Names, made'[n] # Nothing
                   PROVE  /\ files'[n] # Nothing
                          /\ made'[n].good => files'[n] = Text(made'[n].recs, made'[n].ccsid)
                          /\ \A i, j \in DOMAIN files'[n] :
                               i < j /\ files'[n][i][1] # 0 /\ files'[n][j][1] # 0
                                 => files'[n][i][1] < files'[n][j][1]
      BY <2>1 DEF MadeInv
    <3>2. CASE n = Entry.name
      BY <2>5, <2>6, <2>7, <3>2
    <3>3. CASE n # Entry.name
      BY <2>3, <3>1, <3>3 DEF MadeInv
    <3>4. QED
      BY <3>2, <3>3
<1>5. QED
  BY <1>1, <1>2, <1>3, <1>4
  DEF Next, m2f, vars, world, ListMembers, CannotStart, OpenDataset, Alias, Find, FindFails, CopyRecord,
      EndOfMember, NextEntry, AllCopied, Exit, Others, Copying

\* Every entry that is passed is done with.
LEMMA StepPassed == TypeOK /\ AtStart /\ PassedInv /\ [Next]_vars => PassedInv'
<1> SUFFICES ASSUME TypeOK, AtStart, PassedInv, [Next]_vars PROVE PassedInv'
  OBVIOUS
<1> DEFINE Done(i) == listing[i].is_alias \/ made[listing[i].name] # Nothing \/ listing[i].name \in missing
<1>0. PICK next \in Nat : next = cur + 1 /\ \A i \in 1..next : i \in 1..cur \/ i = next
  <2>1. cur \in Nat
    BY LenProperties DEF TypeOK
  <2>2. cur + 1 \in Nat /\ \A i \in 1..cur + 1 : i \in 1..cur \/ i = cur + 1
    BY <2>1
  <2>3. QED
    BY <2>2
<1>1. ASSUME UNCHANGED listing, cur' = next, pc' = "next",
             \A i \in 1..cur : Done(i) => Done(i)', Done(next)'
      PROVE  PassedInv'
  <2>1. \A i \in 1..cur : Done(i)
    BY DEF PassedInv
  <2>2. \A i \in 1..next : Done(i)'
    BY <1>0, <1>1, <2>1
  <2>3. QED
    BY <1>1, <2>2 DEF PassedInv
<1>2. CASE ListMembers
  <2>1. cur' = 0 /\ pc' = "open"
    BY <1>2 DEF ListMembers, AtStart
  <2>2. 1..0 = {}
    OBVIOUS
  <2>3. QED
    BY <2>1, <2>2 DEF PassedInv
<1>3. CASE CannotStart
  BY <1>3 DEF CannotStart, Exit, PassedInv
<1>4. CASE AllCopied
  BY <1>4 DEF AllCopied, Exit, PassedInv
<1>5. CASE CreateFails
  BY <1>5 DEF CreateFails, Exit, PassedInv
<1>6. CASE Alias
  <2>1. /\ UNCHANGED <<listing, made, missing>> /\ cur' = next /\ pc' = "next"
        /\ listing[next].is_alias
    BY <1>0, <1>6 DEF Alias, NextEntry, Entry
  <2>2. QED
    BY <1>1, <2>1
<1>7. CASE FindFails
  <2>1. /\ UNCHANGED <<listing, made>> /\ cur' = next /\ pc' = "next"
        /\ missing' = missing \cup {listing[next].name}
    BY <1>0, <1>7 DEF FindFails, NextEntry, Entry
  <2>2. QED
    BY <1>1, <2>1
<1>8. CASE WriteFile
  <2>1. PICK k \in 0..Len(buffer.data) :
          made' = [made EXCEPT ![Entry.name] =
                     [recs |-> found, ccsid |-> Entry.ccsid, good |-> Whole /\ k = Len(buffer.data)]]
    BY <1>8 DEF WriteFile, WriteAndClose
  <2> DEFINE new == [recs |-> found, ccsid |-> Entry.ccsid, good |-> Whole /\ k = Len(buffer.data)]
  <2>2. cur < Len(listing) /\ UNCHANGED <<listing, missing>> /\ cur' = next /\ pc' = "next"
    BY <1>0, <1>8 DEF WriteFile, WriteAndClose, NextEntry, TypeOK
  <2>3. Entry.name \in Names /\ new # Nothing
    <3>1. Entry.name \in Names /\ Entry.ccsid \in Ccsids /\ found \in Contents \cup {<<>>}
      BY <2>2, EntryType DEF TypeOK
    <3>2. new \in Copies
      BY <3>1 DEF Copies, Whole
    <3> HIDE DEF new
    <3>3. QED
      BY <3>1, <3>2, M2FAssumption
  <2> HIDE DEF new
  <2>4. made' = [made EXCEPT ![Entry.name] = new]
    BY <2>1 DEF new
  <2>6. made'[Entry.name] # Nothing /\ \A n \in Names : made[n] # Nothing => made'[n] # Nothing
    BY <2>3, <2>4 DEF TypeOK
  <2>7. \A i \in 1..cur : listing[i].name \in Names
    <3> DEFINE E == [name: Names, ccsid: Ccsids, is_alias: BOOLEAN]
    <3>1. listing \in Seq(E) /\ \A i \in 1..cur : i \in 1..Len(listing)
      BY DEF TypeOK
    <3> HIDE DEF E
    <3>2. \A i \in 1..cur : listing[i] \in E
      BY <3>1, ElementOfSeq
    <3>3. QED
      BY <3>2 DEF E
  <2>8. \A i \in 1..cur : Done(i) => Done(i)'
    BY <2>2, <2>6, <2>7
  <2>9. Done(next)'
    BY <1>0, <2>2, <2>6 DEF Entry
  <2>10. QED
    BY <1>1, <2>2, <2>8, <2>9
<1>9. CASE OpenDataset \/ CreateFile \/ Find \/ CopyRecord \/ EndOfMember
  BY <1>9 DEF OpenDataset, CreateFile, Find, CopyRecord, EndOfMember, PassedInv
<1>10. CASE Others
  BY <1>10 DEF Others, PassedInv
<1>11. CASE UNCHANGED vars
  BY <1>11 DEF vars, PassedInv
<1>12. QED
  BY <1>2, <1>3, <1>4, <1>5, <1>6, <1>7, <1>8, <1>9, <1>10, <1>11 DEF Next, m2f

\* Whatever members there are, however large, and whatever other programs do to them
\* meanwhile: a file is the whole member in order if its buffer was large enough and no
\* call failed, and no member of the listing is passed over (m2f.c:130-178).
THEOREM FilesAreMembers == Spec => []FileIsMember
<1>1. Init => AtStart /\ BufferInv /\ MadeInv /\ PassedInv
  <2>1. 1..0 = {}
    OBVIOUS
  <2>2. QED
    BY <2>1 DEF Init, AtStart, BufferInv, MadeInv, PassedInv
<1>2. TypeOK /\ MadeInv /\ PassedInv => FileIsMember
  <2> SUFFICES ASSUME TypeOK, MadeInv, PassedInv PROVE FileIsMember
    OBVIOUS
  <2>1. DOMAIN listing = 1..Len(listing)
    BY LenProperties DEF TypeOK
  <2>2. pc = "exit" /\ rc \in {0, 8} =>
          \A i \in DOMAIN listing :
            listing[i].is_alias \/ made[listing[i].name] # Nothing \/ listing[i].name \in missing
    <3>1. SUFFICES ASSUME pc = "exit", rc \in {0, 8}, NEW i \in DOMAIN listing
                   PROVE  listing[i].is_alias \/ made[listing[i].name] # Nothing \/ listing[i].name \in missing
      BY Zenon
    <3>2. i \in 1..cur
      BY <2>1, <3>1 DEF PassedInv
    <3>3. QED
      BY <3>2 DEF PassedInv
  <2>3. \A n \in Names : made[n] # Nothing =>
          /\ made[n].good => files[n] = Text(made[n].recs, made[n].ccsid)
          /\ \A i, j \in DOMAIN files[n] :
               i < j /\ files[n][i][1] # 0 /\ files[n][j][1] # 0 => files[n][i][1] < files[n][j][1]
    BY DEF MadeInv
  <2>4. QED
    BY <2>2, <2>3, Zenon DEF FileIsMember
<1>3. QED
  BY <1>1, <1>2, TypeCorrect, StepAtStart, StepBuffer, StepMade, StepPassed, PTL DEF Spec
=============================================================================
