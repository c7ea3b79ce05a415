--------------------------- MODULE F2MCopyProofs ----------------------------
(***************************************************************************)
(* Proof that f2m drives its BPAM handles the way BpamWrite takes callers  *)
(* to, that what is proved of a handle in BpamWriteProofs therefore holds  *)
(* of every handle f2m opens, and that what it enters in a data set is     *)
(* each file once, whole and under its own member name.                    *)
(***************************************************************************)
EXTENDS F2MCopy, BpamWriteProofs, FiniteSetTheorems, FunctionTheorems

\* What makes it so: the directory entry is reached only past a flush that emptied
\* the block.
OrderInv == pc = "stow" => bytes_used = 0

\* The places copy_files can return to are not the one before the directory entry.
LEMMA ReturnPlaces ==
  ASSUME CopyFilesReturns
  PROVE  pc' \in {"file", "close", "exit"}
BY DEF CopyFilesReturns, NextExtension

\* Every step of f2m keeps OrderInv.
LEMMA OrderStep == OrderInv /\ [CopyNext]_copyvars => OrderInv'
<1> SUFFICES ASSUME OrderInv, [CopyNext]_copyvars PROVE OrderInv'
  OBVIOUS
<1>1. CASE OpenDataset
  BY <1>1 DEF OpenDataset, OrderInv
<1>2. CASE DatasetUnavailable
  BY <1>2 DEF DatasetUnavailable, NextExtension, OrderInv
<1>3. CASE CloseDataset
  BY <1>3 DEF CloseDataset, NextExtension, OrderInv
<1>4. CASE FilesDone \/ FileUnreadable \/ FlushMemberFails \/ EnterFileFails
  BY <1>4, ReturnPlaces DEF FilesDone, FileUnreadable, FlushMemberFails, EnterFileFails,
     CopyFails, OrderInv
<1>5. CASE FileUnmapped
  BY <1>5 DEF FileUnmapped, NextFile, OrderInv
<1>6. CASE OpenFile \/ EndOfFile
  BY <1>6 DEF OpenFile, EndOfFile, OrderInv
<1>7. ASSUME NEW len \in Lens, AddLine(len) PROVE OrderInv'
  BY <1>7 DEF AddLine, place, OrderInv
<1>8. CASE FlushMember
  BY <1>8 DEF FlushMember, Flush, vars, OrderInv
<1>9. CASE EnterFile
  BY <1>9, ReturnPlaces DEF EnterFile, CopyFails, NextFile, OrderInv
<1>10. CASE UNCHANGED copyvars
  BY <1>10 DEF copyvars, vars, OrderInv
<1>11. CASE CopyFilesToMembers
  BY <1>11 DEF CopyFilesToMembers, OrderInv
<1>12. QED
  BY <1>1, <1>2, <1>3, <1>4, <1>5, <1>6, <1>7, <1>8, <1>9, <1>10, <1>11 DEF CopyNext

\* Every step of f2m opens a handle, is one of the operations of the open one at a
\* point where it may be called, or leaves it alone.
LEMMA OrderSimulates ==
  ASSUME OrderInv, [CopyNext]_copyvars
  PROVE  [Next \/ Opened]_vars
<1>1. CASE OpenDataset
  BY <1>1 DEF OpenDataset, Opened
<1>2. CASE CopyFilesToMembers \/ DatasetUnavailable \/ CloseDataset \/ FilesDone \/ FileUnmapped
           \/ FileUnreadable \/ OpenFile \/ EndOfFile \/ EnterFileFails
  BY <1>2 DEF CopyFilesToMembers, DatasetUnavailable, CloseDataset, FilesDone, FileUnmapped, FileUnreadable,
     OpenFile, EndOfFile, EnterFileFails
<1>3. ASSUME NEW len \in Lens, AddLine(len) PROVE Next
  BY <1>3 DEF AddLine, Next
<1>4. CASE FlushMember
  BY <1>4 DEF FlushMember, Next
<1>5. CASE FlushMemberFails
  BY <1>5 DEF FlushMemberFails, Next
<1>6. CASE EnterFile
  BY <1>6 DEF EnterFile, OrderInv, StowMember, Next
<1>7. CASE UNCHANGED copyvars
  BY <1>7 DEF copyvars
<1>8. QED
  BY <1>1, <1>2, <1>3, <1>4, <1>5, <1>6, <1>7 DEF CopyNext

\* f2m is a caller that BpamWrite allows: it never has a member entered while records
\* of it are in the block, whichever of its steps fail and however it goes on after.
THEOREM F2MKeepsOrder == CopySpec => KeepsOrder
<1>1. CopyInit => OrderInv
  BY DEF CopyInit, OrderInv
<1>2. CopyInit => Init
  BY DEF CopyInit
<1>3. OrderInv /\ [CopyNext]_copyvars => OrderInv'
  BY OrderStep
<1>4. OrderInv /\ [CopyNext]_copyvars => [Next \/ Opened]_vars
  BY OrderSimulates
<1>5. QED
  BY <1>1, <1>2, <1>3, <1>4, PTL DEF CopySpec, KeepsOrder

-----------------------------------------------------------------------------
\* A handle that has just been opened is as its invariants say.
LEMMA FreshHandleIsSound ==
  ASSUME TypeOK, Opened
  PROVE  TypeOK' /\ LayoutInv' /\ NothingLost' /\ TtrInv'
<1>1. TypeOK'
  <2>1. <<>> \in Seq(Record) /\ <<>> \in Seq(Blocks) /\ <<>> \in Seq(Entries) /\ <<>> \in Seq(Nat)
    BY EmptySeq
  <2>2. 0 \in Nat /\ 1 \in Nat /\ FALSE \in BOOLEAN /\ BlkSize \in Nat
    BY GeometryAssumption
  <2>3. QED
    BY <2>1, <2>2, Zenon DEF Opened, FreshHandle, TypeOK
<1>2. LayoutInv'
  BY GeometryAssumption DEF Opened, FreshHandle, LayoutInv, BlockNeverOverflows, BlocksValidate
<1>3. NothingLost'
  <2>1. Ids(<<>>) = <<>> /\ <<>> \o <<>> = <<>>
    BY EmptySeq, ConcatEmptySeq DEF Ids
  <2>2. QED
    BY <2>1 DEF Opened, FreshHandle, NothingLost, Ids
<1>4. TtrInv'
  BY DEF Opened, FreshHandle, TtrInv, FirstMemberTtr
<1>5. QED
  BY <1>1, <1>2, <1>3, <1>4

\* Through all the handles f2m opens, whatever fails and wherever it goes on: no block
\* overflows or becomes unwalkable, no accepted line is lost or written twice, and the
\* first member of a handle is entered with its own TTR.
THEOREM F2MHandlesSound ==
  CopySpec => [](BlockNeverOverflows /\ BlocksValidate /\ NothingLost /\ FirstMemberTtr)
<1> DEFINE Sound == TypeOK /\ LayoutInv /\ NothingLost /\ TtrInv
<1>1. Init => Sound
  BY InitTypes, InitLayout, InitNothingLost DEF Init, TtrInv, FirstMemberTtr
<1>2. Sound /\ [Next \/ Opened]_vars => Sound'
  <2> SUFFICES ASSUME Sound, [Next \/ Opened]_vars PROVE Sound'
    OBVIOUS
  <2>1. CASE Opened
    BY <2>1, FreshHandleIsSound
  <2>2. CASE [Next]_vars
    BY <2>2, TypeStep, LayoutStep, NothingLostStep, TtrStep
  <2>3. QED
    BY <2>1, <2>2
<1>3. Sound => BlockNeverOverflows /\ BlocksValidate /\ NothingLost /\ FirstMemberTtr
  BY DEF LayoutInv, TtrInv
<1>4. QED
  BY <1>1, <1>2, <1>3, F2MKeepsOrder, PTL DEF KeepsOrder

-----------------------------------------------------------------------------
(* The table of files *)

\* A finite set of numbers is put in ascending order, each once.
LEMMA AscendingOrder ==
  ASSUME NEW S, S \subseteq Nat, IsFiniteSet(S)
  PROVE  /\ Cardinality(S) \in Nat
         /\ Ascending(S) \in [1..Cardinality(S) -> S]
         /\ \A i, j \in 1..Cardinality(S) : i < j => Ascending(S)[i] < Ascending(S)[j]
         /\ \A i, j \in 1..Cardinality(S) : Ascending(S)[i] = Ascending(S)[j] => i = j
<1> DEFINE n == Cardinality(S)
           Up(x) == {y \in S : y <= x}
           rank == [x \in S |-> Cardinality(Up(x))]
           a == Ascending(S)
<1>0. \A x \in S : x \in Nat
  OBVIOUS
<1>1. n \in Nat
  BY FS_CardinalityType
<1>2. ASSUME NEW x \in S PROVE IsFiniteSet(Up(x)) /\ rank[x] \in 1..n
  <2>1. Up(x) \subseteq S /\ x \in Up(x)
    OBVIOUS
  <2> HIDE DEF Up
  <2>2. IsFiniteSet(Up(x)) /\ Cardinality(Up(x)) <= n
    BY <2>1, FS_Subset
  <2>3. Cardinality(Up(x)) \in Nat /\ Cardinality(Up(x)) # 0
    BY <2>1, <2>2, FS_CardinalityType, FS_EmptySet
  <2>4. rank[x] = Cardinality(Up(x))
    OBVIOUS
  <2> HIDE DEF rank
  <2>5. QED
    BY <1>1, <2>2, <2>3, <2>4
<1>3. ASSUME NEW x \in S, NEW y \in S, x < y PROVE rank[x] < rank[y]
  <2>1. Up(x) \subseteq Up(y) /\ y \in Up(y) /\ y \notin Up(x)
    <3>1. x \in Nat /\ y \in Nat /\ y <= y /\ ~(y <= x)
      BY <1>0, <1>3
    <3>2. \A z \in S : z <= x => z <= y
      BY <1>0, <1>3
    <3>3. QED
      BY <3>1, <3>2
  <2>2. IsFiniteSet(Up(x)) /\ IsFiniteSet(Up(y))
    BY <1>2
  <2>3. rank[x] = Cardinality(Up(x)) /\ rank[y] = Cardinality(Up(y))
    OBVIOUS
  <2> HIDE DEF Up, rank
  <2>4. Cardinality(Up(x)) <= Cardinality(Up(y)) /\ Cardinality(Up(x)) # Cardinality(Up(y))
    BY <2>1, <2>2, FS_Subset
  <2>5. Cardinality(Up(x)) \in Nat /\ Cardinality(Up(y)) \in Nat
    BY <2>2, FS_CardinalityType
  <2>6. QED
    BY <2>3, <2>4, <2>5
<1>4. rank \in [S -> 1..n]
  BY <1>2
<1>5. \A x \in S : \A y \in S : rank[x] = rank[y] => x = y
  <2> HIDE DEF rank
  <2>1. SUFFICES ASSUME NEW x \in S, NEW y \in S, rank[x] = rank[y], x # y PROVE FALSE
    OBVIOUS
  <2>2. x < y \/ y < x
    <3>1. x \in Nat /\ y \in Nat
      BY <1>0, Zenon
    <3>2. QED
      BY <2>1, <3>1
  <2>3. rank[x] \in Nat
    <3>1. rank[x] \in 1..n
      BY <1>2, Zenon
    <3> HIDE DEF n
    <3>2. QED
      BY <1>1, <3>1
  <2>4. QED
    BY <1>3, <2>1, <2>2, <2>3
<1>6. \A i \in 1..n : \E x \in S : rank[x] = i
  <2>1. IsFiniteSet(1..n) /\ Cardinality(1..n) = n
    BY <1>1, FS_Interval
  <2>2. rank \in Injection(S, 1..n)
    <3> HIDE DEF rank, n
    <3>1. QED
      BY <1>4, <1>5, Fun_IsInj
  <2>3. rank \in Surjection(S, 1..n)
    BY <2>1, <2>2, FS_Injection
  <2> HIDE DEF rank, n
  <2>4. QED
    BY <2>3, Fun_SurjectionProperties
<1>7. \A i \in 1..n : a[i] = CHOOSE x \in S : Cardinality(Up(x)) = i
  BY DEF Ascending
<1>8. \A x \in S : rank[x] = Cardinality(Up(x))
  OBVIOUS
<1>9. a = [i \in 1..n |-> CHOOSE x \in S : Cardinality(Up(x)) = i]
  BY DEF Ascending
<1> HIDE DEF rank, Up
<1>10. ASSUME NEW i \in 1..n PROVE a[i] \in S /\ rank[a[i]] = i
  <2>1. \E x \in S : Cardinality(Up(x)) = i
    BY <1>6, <1>8
  <2>2. QED
    BY <1>7, <1>8, <2>1
<1>11. a \in [1..n -> S]
  <2> HIDE DEF n
  <2>1. \A i \in 1..n : (CHOOSE x \in S : Cardinality(Up(x)) = i) \in S
    BY <1>7, <1>10
  <2> HIDE DEF a
  <2>2. QED
    BY <1>9, <2>1
<1> HIDE DEF a, n
<1>12. ASSUME NEW i \in 1..n, NEW j \in 1..n, i < j PROVE a[i] < a[j]
  <2>1. a[i] \in S /\ a[j] \in S /\ rank[a[i]] = i /\ rank[a[j]] = j
    BY <1>10
  <2>2. a[i] \in Nat /\ a[j] \in Nat /\ i \in Nat /\ j \in Nat
    <3>1. a[i] \in Nat /\ a[j] \in Nat
      BY <1>0, <2>1, Zenon
    <3>2. i \in Nat /\ j \in Nat
      BY <1>1
    <3>3. QED
      BY <3>1, <3>2
  <2>3. a[j] < a[i] => j < i
    BY <1>3, <2>1
  <2>4. a[i] # a[j]
    BY <1>12, <2>1, <2>2
  <2>5. QED
    BY <1>12, <2>2, <2>3, <2>4
<1>13. ASSUME NEW i \in 1..n, NEW j \in 1..n, a[i] = a[j] PROVE i = j
  BY <1>10, <1>13
<1>14. QED
  BY <1>1, <1>11, <1>12, <1>13 DEF a, n

\* The files f2m is given, of which opts->map and the table are made.
File == [dots: BOOLEAN, base: Nat, ext: Nat \cup {NoName}]

\* The keys are numbers, and finitely many.
LEMMA KeysFinite ==
  ASSUME NEW g \in Seq(File)
  PROVE  Keys(g) \subseteq Nat /\ IsFiniteSet(Keys(g))
<1>1. Len(g) \in Nat /\ DOMAIN g = 1..Len(g)
  BY LenProperties
<1> DEFINE all == {extension(g[i]) : i \in DOMAIN g}
           key == [i \in DOMAIN g |-> extension(g[i])]
<1>2. ASSUME NEW i \in DOMAIN g PROVE extension(g[i]) \in Nat \cup {NoName}
  <2>1. g[i] \in File
    BY <1>1, ElementOfSeq
  <2>2. g[i].base \in Nat /\ g[i].ext \in Nat \cup {NoName}
    BY <2>1 DEF File
  <2>3. QED
    BY <2>2 DEF extension
<1>3. Keys(g) \subseteq Nat
  BY <1>2 DEF Keys
<1>4. IsFiniteSet(DOMAIN g)
  BY <1>1, FS_Interval
<1>5. key \in Surjection(DOMAIN g, all)
  <2>1. key \in [DOMAIN g -> all]
    OBVIOUS
  <2>2. \A x \in all : \E i \in DOMAIN g : key[i] = x
    OBVIOUS
  <2> HIDE DEF key, all
  <2>3. QED
    BY <2>1, <2>2, Fun_IsSurj
<1>6. IsFiniteSet(all)
  <2> HIDE DEF key, all
  <2>1. QED
    BY <1>4, <1>5, FS_Surjection
<1>7. Keys(g) \subseteq all
  BY DEF Keys
<1> HIDE DEF all
<1>8. IsFiniteSet(Keys(g))
  BY <1>6, <1>7, FS_Subset
<1>9. QED
  BY <1>3, <1>8

\* The files of one key are found at different places of glob's result.
LEMMA PlacesOfKey ==
  ASSUME NEW g \in Seq(File), NEW key
  PROVE  LET places == {i \in DOMAIN g : extension(g[i]) = key}
         IN  /\ Cardinality(places) \in Nat
             /\ PlacesOf(g, key) \in [1..Cardinality(places) -> places]
             /\ \A i, j \in 1..Cardinality(places) : PlacesOf(g, key)[i] = PlacesOf(g, key)[j] => i = j
<1> DEFINE places == {i \in DOMAIN g : extension(g[i]) = key}
<1>1. Len(g) \in Nat /\ DOMAIN g = 1..Len(g)
  BY LenProperties
<1>2. places \subseteq Nat /\ places \subseteq 1..Len(g)
  BY <1>1
<1>3. PlacesOf(g, key) = Ascending(places)
  BY DEF PlacesOf
<1> HIDE DEF places
<1>4. IsFiniteSet(places)
  <2>1. IsFiniteSet(1..Len(g))
    BY <1>1, FS_Interval
  <2>2. QED
    BY <1>2, <2>1, FS_Subset
<1>5. QED
  BY ZenonT(20), <1>2, <1>3, <1>4, AscendingOrder DEF places

\* The table has one row for each key.
LEMMA TableRows ==
  ASSUME NEW g \in Seq(File)
  PROVE  /\ Len(create_table(g)) \in Nat
         /\ Len(create_table(g)) = 0 => create_table(g) = <<>>
         /\ \A e \in 1..Len(create_table(g)) :
              /\ Len(create_table(g)[e]) \in Nat
              /\ \A f \in 1..Len(create_table(g)[e]) :
                   \E i \in DOMAIN g :
                     /\ create_table(g)[e][f] = g[i]
                     /\ i = PlacesOf(g, Ascending(Keys(g))[e])[f]
                     /\ extension(g[i]) = Ascending(Keys(g))[e]
         /\ \A d, e \in 1..Len(create_table(g)) :
              Ascending(Keys(g))[d] = Ascending(Keys(g))[e] => d = e
         /\ \A e \in 1..Len(create_table(g)) : \A f, h \in 1..Len(create_table(g)[e]) :
              PlacesOf(g, Ascending(Keys(g))[e])[f] = PlacesOf(g, Ascending(Keys(g))[e])[h] => f = h
<1> DEFINE keys == Ascending(Keys(g))
           n == Cardinality(Keys(g))
           T == create_table(g)
           row(e) == PlacesOf(g, keys[e])
           places(e) == {i \in DOMAIN g : extension(g[i]) = keys[e]}
<1>1. n \in Nat /\ keys \in [1..n -> Keys(g)] /\ \A i, j \in 1..n : keys[i] = keys[j] => i = j
  BY KeysFinite, AscendingOrder
<1>2. T = [e \in 1..n |-> [f \in DOMAIN row(e) |-> g[row(e)[f]]]]
  <2>1. DOMAIN keys = 1..n
    BY <1>1
  <2> HIDE DEF keys, n
  <2>2. create_table(g) = [e \in DOMAIN keys |-> [f \in DOMAIN row(e) |-> g[row(e)[f]]]]
    BY Zenon DEF create_table, keys
  <2>3. QED
    BY <2>1, <2>2
<1>3. \A e \in 1..n :
        LET m == Cardinality(places(e))
        IN  /\ m \in Nat
            /\ row(e) \in [1..m -> places(e)]
            /\ \A i, j \in 1..m : row(e)[i] = row(e)[j] => i = j
  <2> HIDE DEF keys, n
  <2>1. QED
    BY PlacesOfKey
<1> HIDE DEF row, keys, n, T
<1>4. Len(T) = n
  BY <1>1, <1>2
<1>40. Len(T) = 0 => T = <<>>
  BY <1>2, <1>4
<1>5. ASSUME NEW e \in 1..n
      PROVE  /\ Len(T[e]) \in Nat
             /\ row(e) \in [1..Len(T[e]) -> places(e)]
             /\ \A i, j \in 1..Len(T[e]) : row(e)[i] = row(e)[j] => i = j
             /\ \A f \in 1..Len(T[e]) : T[e][f] = g[row(e)[f]]
  <2> DEFINE m == Cardinality(places(e))
  <2>1. /\ m \in Nat
        /\ row(e) \in [1..m -> places(e)]
        /\ \A i, j \in 1..m : row(e)[i] = row(e)[j] => i = j
    BY <1>3
  <2> HIDE DEF m, places
  <2>2. T[e] = [f \in 1..m |-> g[row(e)[f]]]
    <3>1. DOMAIN row(e) = 1..m
      BY <2>1
    <3>2. T[e] = [f \in DOMAIN row(e) |-> g[row(e)[f]]]
      BY <1>2
    <3>3. QED
      BY <3>1, <3>2
  <2>3. Len(T[e]) = m /\ \A f \in 1..m : T[e][f] = g[row(e)[f]]
    BY <2>1, <2>2
  <2>4. QED
    BY <2>1, <2>3
<1>6. ASSUME NEW e \in 1..n, NEW f \in 1..Len(T[e])
      PROVE  \E i \in DOMAIN g : T[e][f] = g[i] /\ i = row(e)[f] /\ extension(g[i]) = keys[e]
  <2>1. row(e)[f] \in places(e) /\ T[e][f] = g[row(e)[f]]
    BY <1>5
  <2>2. row(e)[f] \in DOMAIN g /\ extension(g[row(e)[f]]) = keys[e]
    BY <2>1
  <2>3. QED
    BY <2>1, <2>2
<1> HIDE DEF places
<1>7. QED
  BY <1>1, <1>4, <1>40, <1>5, <1>6 DEF row, keys, T

\* Files at different places of the table are different files, so no two of them have
\* the same member unless check_for_duplicate_members says so.
LEMMA MembersApart ==
  ASSUME NEW g \in Seq(File), ~check_for_duplicate_members(g)
  PROVE  \A d, e \in 1..Len(create_table(g)) :
           \A c \in 1..Len(create_table(g)[d]), f \in 1..Len(create_table(g)[e]) :
             (d # e \/ c # f) /\ map_file_to_member(create_table(g)[d][c]) # NoName
               => map_file_to_member(create_table(g)[d][c]) # map_file_to_member(create_table(g)[e][f])
<1> SUFFICES ASSUME NEW d \in 1..Len(create_table(g)), NEW c \in 1..Len(create_table(g)[d]),
                    NEW e \in 1..Len(create_table(g)), NEW f \in 1..Len(create_table(g)[e]),
                    d # e \/ c # f,
                    map_file_to_member(create_table(g)[d][c]) # NoName
             PROVE  map_file_to_member(create_table(g)[d][c]) # map_file_to_member(create_table(g)[e][f])
  OBVIOUS
<1> DEFINE keys == Ascending(Keys(g))
<1>0. /\ \A k \in 1..Len(create_table(g)) : \A h \in 1..Len(create_table(g)[k]) :
           \E i \in DOMAIN g : /\ create_table(g)[k][h] = g[i]
                               /\ i = PlacesOf(g, keys[k])[h]
                               /\ extension(g[i]) = keys[k]
      /\ keys[d] = keys[e] => d = e
      /\ d = e /\ PlacesOf(g, keys[d])[c] = PlacesOf(g, keys[d])[f] => c = f
  <2>1. \A k \in 1..Len(create_table(g)) :
          /\ Len(create_table(g)[k]) \in Nat
          /\ \A h \in 1..Len(create_table(g)[k]) :
               \E i \in DOMAIN g : /\ create_table(g)[k][h] = g[i]
                                   /\ i = PlacesOf(g, Ascending(Keys(g))[k])[h]
                                   /\ extension(g[i]) = Ascending(Keys(g))[k]
    BY TableRows, Zenon
  <2>2. \A k, l \in 1..Len(create_table(g)) :
          Ascending(Keys(g))[k] = Ascending(Keys(g))[l] => k = l
    BY TableRows, Zenon
  <2>3. \A k \in 1..Len(create_table(g)) : \A h, l \in 1..Len(create_table(g)[k]) :
          PlacesOf(g, Ascending(Keys(g))[k])[h] = PlacesOf(g, Ascending(Keys(g))[k])[l] => h = l
    BY TableRows, Zenon
  <2>4. QED
    BY <2>1, <2>2, <2>3, Zenon
<1> HIDE DEF keys
<1>1. PICK i \in DOMAIN g : /\ create_table(g)[d][c] = g[i]
                            /\ i = PlacesOf(g, keys[d])[c]
                            /\ extension(g[i]) = keys[d]
  BY <1>0
<1>2. PICK j \in DOMAIN g : /\ create_table(g)[e][f] = g[j]
                            /\ j = PlacesOf(g, keys[e])[f]
                            /\ extension(g[j]) = keys[e]
  BY <1>0
<1>3. i # j
  BY <1>0, <1>1, <1>2
<1>4. DOMAIN g = 1..Len(g) /\ Len(g) \in Nat
  BY LenProperties
<1>5. i < j \/ j < i
  BY <1>3, <1>4
<1>6. QED
  BY <1>1, <1>2, <1>5 DEF check_for_duplicate_members

-----------------------------------------------------------------------------
(* Members and the files they are made of *)

\* A file of the table, as the place it has there; the one being copied; and which of
\* two is copied first.
Here == <<ext, file>>
Before(p, q) == p[1] < q[1] \/ (p[1] = q[1] /\ p[2] < q[2])
InTable(p) == p[1] \in 1..Len(Table) /\ p[2] \in 1..Len(Table[p[1]])

\* A file is being copied, into a data set no copy to which has left records behind.
InFile == pc \in {"lines", "flush", "stow"}
Trusted == map \/ ~failed

\* Where the loops of the callers are.
PlaceInv ==
  /\ pc = "file" \/ InFile => ext <= Len(Table)
  /\ map /\ pc \in {"open", "close"} => ext <= Len(Table)
  /\ ~map /\ pc = "open" => ext = 1
  /\ InFile => InTable(Here) /\ Member # NoName
  /\ pc = "start" => ext = 1 /\ dir = <<>> /\ asked = <<>> /\ ~failed
  /\ map /\ failed => pc \in {"open", "close", "exit"}
  /\ ~map /\ (dir # <<>> \/ pc \notin {"start", "exit"}) => ~check_for_duplicate_members(globset)

\* Files are copied in the order of the table, each at most once: the records taken so
\* far are of files before the one being copied, and of that one are the last ones,
\* which wait to be entered.
OriginInv ==
  /\ \A i \in 1..Len(accepted) : accepted[i] = Len(asked) - Len(accepted) + i
  /\ Len(accepted) <= Len(asked)
  /\ \A id \in 1..Len(origin) :
       Before(origin[id], Here) \/ (origin[id] = Here /\ (InFile \/ pc \in {"close", "exit"}))
  /\ Trusted /\ pc = "file" => accepted = <<>>
  /\ Trusted /\ InFile =>
       /\ \A id \in 1..Len(origin) : origin[id] = Here <=> id > Len(asked) - Len(accepted)
       /\ Len(accepted) + refused = lines

\* Each member is that of a file copied before, and no two are of the same.
EnteredInv ==
  \A k \in 1..Len(members) :
    LET f == members[k].file
    IN  /\ InTable(f)
        /\ Before(f, Here) \/ (f = Here /\ pc \in {"close", "exit"})
        /\ members[k].name = map_file_to_member(Table[f[1]][f[2]])
        /\ members[k].name # NoName
        /\ \A l \in 1..k - 1 : Before(members[l].file, f)

CopyInv == CopyTypeOK /\ PlaceInv /\ OriginInv /\ EnteredInv /\ MemberIsFile

\* The table and what it is made of, from the type invariant.
LEMMA TableType ==
  ASSUME CopyTypeOK
  PROVE  /\ globset \in Seq(File)
         /\ Len(Table) \in Nat
         /\ Len(Table) = 0 => Table = <<>>
         /\ \A e \in 1..Len(Table) : Len(Table[e]) \in Nat
         /\ ext \in Nat /\ file \in Nat /\ 1 <= file
<1>1. globset \in Seq(File)
  BY CopyAssumption DEF CopyTypeOK, File
<1>2. /\ Len(Table) \in Nat
      /\ Len(Table) = 0 => Table = <<>>
      /\ \A e \in 1..Len(Table) : Len(Table[e]) \in Nat
  BY <1>1, TableRows DEF Table
<1>3. QED
  BY <1>1, <1>2 DEF CopyTypeOK

\* The place of the loops moves on, or stays.
LEMMA Onward ==
  ASSUME NEW p \in Nat \X Nat, NEW q \in Nat \X Nat, NEW r \in Nat \X Nat
  PROVE  /\ Before(p, q) /\ Before(q, r) => Before(p, r)
         /\ Before(p, q) => p # q
BY DEF Before

\* Where f2m only moves on, what was copied stays as it is.
LEMMA MovesOn ==
  ASSUME CopyTypeOK, OriginInv, EnteredInv, MemberIsFile,
         UNCHANGED <<asked, accepted, dir, origin, members, globset, map>>,
         ext' \in Nat, file' \in Nat, Trusted' => Trusted,
         \/ Before(Here, Here') /\ ~InFile'
         \/ Here' = Here /\ pc' \in {"close", "exit"}
         \/ Here' = Here /\ InFile /\ InFile' /\ UNCHANGED <<lines, refused>>
         \/ Here' = Here /\ ~InFile /\ pc \notin {"close", "exit"} /\ ~InFile',
         Trusted' /\ pc' = "file" => accepted = <<>>
  PROVE  OriginInv' /\ EnteredInv' /\ MemberIsFile'
<1>1. Table' = Table /\ Len(origin) = Len(asked) /\ Here \in Nat \X Nat /\ Here' \in Nat \X Nat
  BY TableType DEF Table, Here, CopyTypeOK
<1>2. ASSUME NEW p \in Nat \X Nat
      PROVE  /\ Before(p, Here) => Before(p, Here')
             /\ (p = Here /\ pc \in {"close", "exit"}) =>
                  Before(p, Here') \/ (p = Here' /\ pc' \in {"close", "exit"})
             /\ (p = Here /\ InFile) =>
                  Before(p, Here') \/ (p = Here' /\ (InFile' \/ pc' \in {"close", "exit"}))
  <2>1. Before(p, Here) /\ Before(Here, Here') => Before(p, Here')
    BY <1>1, Onward
  <2> HIDE DEF Here
  <2>2. QED
    BY <2>1 DEF InFile
<1>3. OriginInv'
  <2>1. \A id \in 1..Len(origin) :
          Before(origin[id], Here') \/ (origin[id] = Here' /\ (InFile' \/ pc' \in {"close", "exit"}))
    <3>1. TAKE id \in 1..Len(origin)
    <3>2. origin[id] \in Nat \X Nat
      BY ElementOfSeq DEF CopyTypeOK
    <3>3. Before(origin[id], Here) \/ (origin[id] = Here /\ (InFile \/ pc \in {"close", "exit"}))
      BY DEF OriginInv
    <3>4. QED
      BY <1>2, <3>2, <3>3
  <2>2. Trusted' /\ InFile' =>
          /\ \A id \in 1..Len(origin) : origin[id] = Here' <=> id > Len(asked) - Len(accepted)
          /\ Len(accepted) + refused' = lines'
    <3>1. SUFFICES ASSUME Trusted', InFile'
                   PROVE  /\ \A id \in 1..Len(origin) : origin[id] = Here' <=> id > Len(asked) - Len(accepted)
                          /\ Len(accepted) + refused' = lines'
      OBVIOUS
    <3>2. Here' = Here /\ InFile /\ UNCHANGED <<lines, refused>> /\ Trusted
      BY <3>1 DEF InFile
    <3>3. QED
      BY <3>2 DEF OriginInv
  <2>3. QED
    BY <2>1, <2>2 DEF OriginInv
<1>4. EnteredInv'
  <2>1. SUFFICES ASSUME NEW k \in 1..Len(members)
                 PROVE  LET f == members[k].file
                        IN  /\ InTable(f)
                            /\ Before(f, Here') \/ (f = Here' /\ pc' \in {"close", "exit"})
                            /\ members[k].name = map_file_to_member(Table[f[1]][f[2]])
                            /\ members[k].name # NoName
                            /\ \A l \in 1..k - 1 : Before(members[l].file, f)
    BY <1>1 DEF EnteredInv, InTable
  <2> DEFINE f == members[k].file
  <2>2. f \in Nat \X Nat
    <3> DEFINE E == [file: Nat \X Nat, name: Nat \cup {NoName}, lines: Nat, refused: Nat]
    <3>1. members \in Seq(E)
      BY DEF CopyTypeOK
    <3> HIDE DEF E
    <3>2. members[k] \in E
      BY <3>1, ElementOfSeq
    <3>3. QED
      BY <3>2 DEF E
  <2>3. /\ InTable(f)
        /\ Before(f, Here) \/ (f = Here /\ pc \in {"close", "exit"})
        /\ members[k].name = map_file_to_member(Table[f[1]][f[2]])
        /\ members[k].name # NoName
        /\ \A l \in 1..k - 1 : Before(members[l].file, f)
    BY DEF EnteredInv
  <2> HIDE DEF f
  <2>4. Before(f, Here') \/ (f = Here' /\ pc' \in {"close", "exit"})
    BY <1>2, <2>2, <2>3
  <2>5. QED
    BY <2>3, <2>4 DEF f
<1>5. MemberIsFile'
  BY DEF MemberIsFile, Trusted, RecordsOf
<1>6. QED
  BY <1>3, <1>4, <1>5

\* Steps that take no record and enter no member: it is enough to know where they go.
LEMMA Skips ==
  ASSUME CopyInv, UNCHANGED <<asked, accepted, dir, origin, members, globset, map, lines, refused>>,
         failed' = failed \/ failed' = TRUE,
         pc' \in {"open", "file", "lines", "flush", "stow", "close", "exit"},
         ext' \in 1..Len(Table) + 1, file' \in Nat \ {0},
         \/ Before(Here, Here') /\ ~InFile'
         \/ Here' = Here /\ pc' \in {"close", "exit"}
         \/ Here' = Here /\ InFile /\ InFile'
         \/ Here' = Here /\ ~InFile /\ pc \notin {"close", "exit"} /\ ~InFile',
         Trusted' /\ pc' = "file" => accepted = <<>>,
         pc' = "file" \/ InFile' => ext' <= Len(Table),
         map /\ pc' \in {"open", "close"} => ext' <= Len(Table),
         ~map /\ pc' = "open" => ext' = 1,
         map /\ failed' => pc' \in {"open", "close", "exit"},
         ~map /\ pc' # "exit" => pc \notin {"start", "exit"} \/ ~check_for_duplicate_members(globset)
  PROVE  CopyInv'
<1>1. CopyTypeOK /\ PlaceInv /\ OriginInv /\ EnteredInv /\ MemberIsFile
  BY DEF CopyInv
<1>2. Table' = Table
  BY DEF Table
<1>3. CopyTypeOK'
  BY <1>1, <1>2 DEF CopyTypeOK
<1>4. Trusted' => Trusted
  BY DEF Trusted
<1>5. OriginInv' /\ EnteredInv' /\ MemberIsFile'
  <2>1. ext' \in Nat /\ file' \in Nat
    OBVIOUS
  <2>2. QED
    BY <1>1, <1>4, <2>1, MovesOn
<1>6. InFile' => InFile /\ Here' = Here
  BY DEF InFile
<1>7. InFile' => (InTable(Here) /\ Member # NoName)'
  <2>1. SUFFICES ASSUME InFile' PROVE InTable(Here)' /\ Member' # NoName
    OBVIOUS
  <2>2. InTable(Here) /\ Member # NoName /\ ext' = ext /\ file' = file
    BY <1>1, <1>6, <2>1 DEF PlaceInv, Here
  <2>3. QED
    BY <1>2, <2>2 DEF InTable, Here, Member
<1>8. PlaceInv'
  BY <1>1, <1>2, <1>7 DEF PlaceInv, InFile
<1>9. QED
  BY <1>3, <1>5, <1>8 DEF CopyInv

\* Where copy_files returns to.
LEMMA ReturnsTo ==
  ASSUME CopyTypeOK, CopyFilesReturns, UNCHANGED <<globset, map>>
  PROVE  /\ ext' \in 1..Len(Table) + 1 /\ file' \in Nat \ {0}
         /\ \/ ~map /\ pc' = "file" /\ ext' <= Len(Table) /\ Before(Here, Here')
            \/ pc' = "close" /\ ext' = ext /\ Here' = Here
<1>1. Len(Table) \in Nat /\ ext \in Nat /\ 1 <= ext
  BY TableType DEF CopyTypeOK
<1>2. CASE ~map /\ ext < Len(Table)
  BY <1>1, <1>2 DEF CopyFilesReturns, NextExtension, Before, Here
<1>3. CASE ~(~map /\ ext < Len(Table))
  BY <1>1, <1>3 DEF CopyFilesReturns, CopyTypeOK, Here
<1>4. QED
  BY <1>2, <1>3

\* Where the loop over the data sets goes on.
LEMMA GoesOn ==
  ASSUME CopyTypeOK, map, ext <= Len(Table), NextExtension("open"), UNCHANGED <<globset, map>>
  PROVE  /\ ext' \in 1..Len(Table) + 1 /\ file' \in Nat \ {0}
         /\ Before(Here, Here')
         /\ pc' = "exit" \/ (pc' = "open" /\ ext' <= Len(Table))
<1>1. Len(Table) \in Nat /\ ext \in Nat /\ 1 <= ext
  BY TableType DEF CopyTypeOK
<1>2. QED
  BY <1>1 DEF NextExtension, Before, Here

\* Opening a data set starts from nothing.
LEMMA OpenKeeps ==
  ASSUME TypeOK, CopyInv, OpenDataset, UNCHANGED <<globset, map>>
  PROVE  CopyInv'
<1>1. CopyTypeOK /\ PlaceInv /\ OriginInv
  BY DEF CopyInv
<1>2. /\ pc = "open" /\ dir' = <<>> /\ accepted' = <<>> /\ members' = <<>> /\ failed' = FALSE
      /\ pc' = IF Table = <<>> THEN "close" ELSE "file"
      /\ UNCHANGED <<asked, ext, file, lines, refused, origin>>
  BY DEF OpenDataset
<1>3. Table' = Table /\ Len(<<>>) = 0 /\ asked \in Seq(Nat)
  BY EmptySeq DEF Table, TypeOK
<1>4. Len(Table) \in Nat /\ (Len(Table) = 0 => Table = <<>>) /\ ext \in Nat /\ Len(asked) \in Nat
  BY <1>1, <1>3, TableType, LenProperties
<1>5. CopyTypeOK'
  <2> DEFINE E == [file: Nat \X Nat, name: Nat \cup {NoName}, lines: Nat, refused: Nat]
  <2>1. <<>> \in Seq(E)
    BY EmptySeq
  <2>2. members' \in Seq(E) /\ Len(members') = Len(dir')
    BY <1>2, <2>1
  <2> HIDE DEF E
  <2>3. QED
    BY <1>1, <1>2, <1>3, <2>2 DEF CopyTypeOK, E
<1>6. PlaceInv'
  BY <1>1, <1>2, <1>3, <1>4 DEF PlaceInv, InFile
<1>7. OriginInv'
  <2>1. \A id \in 1..Len(origin) : Before(origin[id], Here)
    BY <1>1, <1>2 DEF OriginInv, InFile
  <2>2. Here' = Here
    BY <1>2 DEF Here
  <2>3. QED
    BY <1>2, <1>3, <1>4, <2>1, <2>2 DEF OriginInv, InFile
<1>8. EnteredInv' /\ MemberIsFile'
  BY <1>2, <1>3 DEF EnteredInv, MemberIsFile
<1>9. QED
  BY <1>5, <1>6, <1>7, <1>8 DEF CopyInv

\* A file is opened when no record waits to be entered.
LEMMA OpenFileKeeps ==
  ASSUME TypeOK, CopyInv, OpenFile, UNCHANGED <<globset, map>>
  PROVE  CopyInv'
<1>1. CopyTypeOK /\ PlaceInv /\ OriginInv /\ EnteredInv /\ MemberIsFile
  BY DEF CopyInv
<1>2. /\ pc = "file" /\ file <= Len(Table[ext]) /\ Member # NoName
      /\ pc' = "lines" /\ lines' = 0 /\ refused' = 0
      /\ UNCHANGED <<asked, accepted, dir, ext, file, failed, origin, members>>
  BY DEF OpenFile, vars, history
<1>3. Table' = Table /\ Here' = Here /\ Member' = Member
  BY <1>2 DEF Table, Here, Member
<1>4. /\ Len(Table) \in Nat /\ \A e \in 1..Len(Table) : Len(Table[e]) \in Nat
      /\ ext \in Nat /\ file \in Nat /\ 1 <= file /\ 1 <= ext
      /\ asked \in Seq(Nat) /\ Len(asked) \in Nat /\ Len(origin) = Len(asked)
  BY <1>1, TableType, LenProperties DEF TypeOK, CopyTypeOK
<1>5. CopyTypeOK'
  BY <1>1, <1>2, <1>3 DEF CopyTypeOK
<1>6. PlaceInv'
  <2>1. ext <= Len(Table)
    BY <1>1, <1>2 DEF PlaceInv
  <2>2. InTable(Here)
    <3>1. ext \in 1..Len(Table)
      BY <1>4, <2>1
    <3>2. file \in 1..Len(Table[ext])
      BY <1>2, <1>4, <3>1
    <3>3. QED
      BY <3>1, <3>2 DEF InTable, Here
  <2>3. InTable(Here)'
    BY <1>3, <2>2 DEF InTable
  <2>4. QED
    BY <1>1, <1>2, <1>3, <2>1, <2>3 DEF PlaceInv, InFile
<1>7. OriginInv'
  <2>1. \A id \in 1..Len(origin) : Before(origin[id], Here) /\ origin[id] # Here
    <3>1. TAKE id \in 1..Len(origin)
    <3>2. origin[id] \in Nat \X Nat /\ Here \in Nat \X Nat
      BY <1>1, <1>4, ElementOfSeq DEF CopyTypeOK, Here
    <3>3. Before(origin[id], Here)
      BY <1>1, <1>2 DEF OriginInv, InFile
    <3>4. QED
      BY <3>2, <3>3, Onward
  <2>2. Trusted' => accepted = <<>>
    BY <1>1, <1>2 DEF OriginInv, Trusted
  <2>3. accepted = <<>> => Len(accepted) = 0
    BY EmptySeq
  <2>4. \A id \in 1..Len(origin) : ~(id > Len(asked) - 0)
    BY <1>4
  <2>5. Trusted' => /\ \A id \in 1..Len(origin) : origin[id] = Here <=> id > Len(asked) - Len(accepted)
                    /\ Len(accepted) + 0 = 0
    BY <2>1, <2>2, <2>3, <2>4
  <2>6. QED
    BY <1>1, <1>2, <1>3, <2>1, <2>5 DEF OriginInv
<1>8. EnteredInv'
  BY <1>1, <1>2, <1>3 DEF EnteredInv, InTable
<1>9. MemberIsFile'
  BY <1>1, <1>2 DEF MemberIsFile, RecordsOf
<1>10. QED
  BY <1>5, <1>6, <1>7, <1>8, <1>9 DEF CopyInv

\* A line taken is a record of the file being copied and of no other.
LEMMA LineKeeps ==
  ASSUME TypeOK, TypeOK', CopyInv, NEW len \in Lens, AddLine(len), UNCHANGED <<globset, map>>
  PROVE  CopyInv'
<1>1. CopyTypeOK /\ PlaceInv /\ OriginInv /\ EnteredInv /\ MemberIsFile
  BY DEF CopyInv
<1>2. pc = "lines" /\ lines' = lines + 1 /\ UNCHANGED <<pc, ext, file, failed, members>>
  BY DEF AddLine, place
<1>3. Table' = Table /\ Here' = Here /\ Member' = Member /\ (Trusted' <=> Trusted) /\ InFile /\ InFile'
  BY <1>2 DEF Table, Here, Member, Trusted, InFile
<1>4. /\ asked \in Seq(Nat) /\ accepted \in Seq(Nat) /\ len \in Nat
      /\ Len(asked) \in Nat /\ Len(accepted) \in Nat
      /\ origin \in Seq(Nat \X Nat) /\ Len(origin) = Len(asked)
      /\ lines \in Nat /\ refused \in 0..lines /\ Here \in Nat \X Nat
  BY <1>1, TableType, LenProperties, WriteAssumption DEF TypeOK, CopyTypeOK, Here
<1>5. dir' = dir
  BY DEF AddLine, AddToBlock, WriteThenAdd, RecordRefused, write_block_fails
<1>6. PlaceInv'
  <2>1. InTable(Here)' /\ (Member # NoName)'
    BY <1>1, <1>3 DEF PlaceInv, InTable
  <2>2. QED
    BY <1>1, <1>2, <1>3, <1>5, <2>1 DEF PlaceInv
<1>7. EnteredInv'
  BY <1>1, <1>2, <1>3 DEF EnteredInv, InTable
<1>8. CASE RecordRefused(len) /\ refused' = refused + 1 /\ UNCHANGED origin
  <2>1. UNCHANGED <<asked, accepted>>
    BY <1>8 DEF RecordRefused, write_block_fails
  <2>2. CopyTypeOK'
    <3>1. lines' \in Nat /\ refused' \in 0..lines'
      BY <1>2, <1>4, <1>8
    <3>2. QED
      BY <1>1, <1>2, <1>3, <1>5, <1>8, <2>1, <3>1 DEF CopyTypeOK
  <2>3. OriginInv'
    <3>1. Len(accepted) + refused = lines => Len(accepted) + refused' = lines'
      BY <1>2, <1>4, <1>8
    <3>2. QED
      BY <1>1, <1>2, <1>3, <1>8, <2>1, <3>1 DEF OriginInv
  <2>4. MemberIsFile'
    BY <1>1, <1>2, <1>5, <1>8 DEF MemberIsFile, RecordsOf
  <2>5. QED
    BY <1>6, <1>7, <2>2, <2>3, <2>4 DEF CopyInv
<1>9. CASE /\ AddToBlock(len) \/ WriteThenAdd(len)
           /\ origin' = Append(origin, <<ext, file>>) /\ UNCHANGED refused
  <2> DEFINE n == Len(asked)
             c == Len(accepted)
  <2>1. asked' = Append(asked, len) /\ accepted' = Append(accepted, n + 1)
    BY <1>9 DEF AddToBlock, WriteThenAdd, copy_record_to_block
  <2>2. /\ Len(asked') = n + 1 /\ Len(accepted') = c + 1 /\ accepted'[c + 1] = n + 1
        /\ \A i \in 1..c : accepted'[i] = accepted[i]
    BY <1>4, <2>1, AppendProperties
  <2>3. origin' = Append(origin, Here)
    BY <1>9 DEF Here
  <2>4. /\ origin' \in Seq(Nat \X Nat) /\ Len(origin') = n + 1
        /\ origin'[n + 1] = Here
        /\ \A id \in 1..n : origin'[id] = origin[id]
    <3> DEFINE P == Nat \X Nat
    <3>1. origin \in Seq(P) /\ Here \in P /\ Len(origin) = n
      BY <1>4
    <3> HIDE DEF P, n
    <3>2. /\ Append(origin, Here) \in Seq(P) /\ Len(Append(origin, Here)) = n + 1
          /\ Append(origin, Here)[n + 1] = Here
          /\ \A id \in 1..n : Append(origin, Here)[id] = origin[id]
      BY <3>1, AppendProperties
    <3>3. QED
      BY <2>3, <3>2 DEF P
  <2>5. CopyTypeOK'
    <3>1. lines' \in Nat /\ refused' \in 0..lines'
      BY <1>2, <1>4, <1>9
    <3>2. QED
      BY <1>1, <1>2, <1>3, <1>5, <2>2, <2>4, <3>1 DEF CopyTypeOK
  <2>6. /\ \A i \in 1..c : accepted[i] = n - c + i
        /\ c <= n
        /\ \A id \in 1..n : Before(origin[id], Here) \/ origin[id] = Here
        /\ Trusted => (\A id \in 1..n : origin[id] = Here <=> id > n - c) /\ c + refused = lines
    BY <1>1, <1>3, <1>4 DEF OriginInv
  <2> HIDE DEF n, c
  <2>7. n \in Nat /\ c \in Nat /\ (n + 1) - (c + 1) = n - c /\ c + 1 <= n + 1
    BY <1>4, <2>6 DEF n, c
  <2>8. \A i \in 1..c + 1 : accepted'[i] = n - c + i
    <3>1. \A i \in 1..c + 1 : i \in 1..c \/ i = c + 1
      BY <2>7
    <3>2. n - c + (c + 1) = n + 1
      BY <2>7
    <3>3. QED
      BY <2>2, <2>6, <3>1, <3>2
  <2>9. \A id \in 1..n + 1 : id \in 1..n \/ (id = n + 1 /\ id > n - c)
    BY <2>7
  <2>10. \A id \in 1..n + 1 : Before(origin'[id], Here) \/ origin'[id] = Here
    BY <2>4, <2>6, <2>9
  <2>11. Trusted => \A id \in 1..n + 1 : origin'[id] = Here <=> id > n - c
    <3>1. SUFFICES ASSUME Trusted, NEW id \in 1..n + 1 PROVE origin'[id] = Here <=> id > n - c
      OBVIOUS
    <3>2. CASE id \in 1..n
      BY <2>4, <2>6, <3>1, <3>2
    <3>3. CASE id = n + 1 /\ id > n - c
      BY <2>4, <3>3
    <3>4. QED
      BY <2>9, <3>2, <3>3
  <2>12. Trusted => (c + 1) + refused = lines'
    <3>1. c + refused = lines => (c + 1) + refused = lines + 1
      BY <1>4, <2>7
    <3>2. QED
      BY <1>2, <2>6, <3>1
  <2>13. OriginInv'
    BY <1>2, <1>3, <1>9, <2>2, <2>4, <2>7, <2>8, <2>10, <2>11, <2>12 DEF OriginInv, InFile
  <2>14. MemberIsFile'
    <3>1. SUFFICES ASSUME Trusted', NEW k \in 1..Len(dir)
                   PROVE  /\ InOrder(dir[k].ids, RecordsOf(members[k].file)')
                          /\ Len(dir[k].ids) + members[k].refused = members[k].lines
      BY <1>2, <1>5 DEF MemberIsFile, Trusted, RecordsOf
    <3>2. /\ InOrder(dir[k].ids, RecordsOf(members[k].file))
          /\ Len(dir[k].ids) + members[k].refused = members[k].lines
      BY <1>1, <1>3, <3>1 DEF MemberIsFile, Trusted
    <3>3. members[k].file # Here
      <4> DEFINE E == [file: Nat \X Nat, name: Nat \cup {NoName}, lines: Nat, refused: Nat]
      <4>1. members \in Seq(E) /\ Len(members) = Len(dir)
        BY <1>1 DEF CopyTypeOK
      <4> HIDE DEF E
      <4>2. members[k] \in E
        BY <4>1, ElementOfSeq
      <4>3. members[k].file \in Nat \X Nat
        BY <4>2 DEF E
      <4>4. Before(members[k].file, Here)
        BY <1>1, <1>2, <4>1 DEF EnteredInv
      <4>5. QED
        BY <1>4, <4>3, <4>4, Onward
    <3> DEFINE f == members[k].file
    <3>4. RecordsOf(f)' = RecordsOf(f)
      <4>1. f' = f
        BY <1>2
      <4> HIDE DEF f
      <4>2. RecordsOf(f)' = {id \in 1..n + 1 : origin'[id] = f}
        BY <2>4, <4>1 DEF RecordsOf
      <4>3. RecordsOf(f) = {id \in 1..n : origin[id] = f}
        BY <1>4 DEF RecordsOf, n
      <4>4. \A id \in 1..n : id \in 1..n + 1
        BY <2>7
      <4>5. f # Here
        BY <3>3 DEF f
      <4>6. QED
        BY <2>4, <2>9, <4>2, <4>3, <4>4, <4>5
    <3>5. QED
      BY <3>2, <3>4
  <2>15. QED
    BY <1>6, <1>7, <2>5, <2>13, <2>14 DEF CopyInv
<1>10. QED
  BY <1>8, <1>9 DEF AddLine

\* The member entered last is the file being copied, whose records waited for it.
LEMMA EnterKeeps ==
  ASSUME TypeOK, TypeOK', CopyInv, EnterFile, UNCHANGED <<globset, map>>
  PROVE  CopyInv'
<1> DEFINE m == Len(dir)
           c == Len(accepted)
           n == Len(asked)
           new == [file |-> Here, name |-> Member, lines |-> lines, refused |-> refused]
<1>1. CopyTypeOK /\ PlaceInv /\ OriginInv /\ EnteredInv /\ MemberIsFile
  BY DEF CopyInv
<1>2. /\ pc = "stow" /\ members' = Append(members, new) /\ accepted' = <<>>
      /\ dir' = Append(dir, [begin |-> begin, ttr |-> memstart_ttr, ids |-> accepted])
      /\ UNCHANGED <<asked, origin, lines, refused>>
  BY DEF EnterFile, EnterMember, Here
<1>3. Table' = Table /\ InFile /\ ~InFile' /\ (Trusted' => Trusted)
      /\ ((CopyFilesReturns /\ failed' = TRUE) \/ (NextFile /\ failed' = failed))
  <2>1. (CopyFilesReturns /\ failed' = TRUE) \/ (NextFile /\ failed' = failed)
    BY Zenon DEF EnterFile, CopyFails
  <2>2. pc' \in {"file", "close", "exit"}
    BY <2>1, ReturnPlaces DEF NextFile
  <2>3. InFile /\ ~InFile'
    BY <1>2, <2>2 DEF InFile
  <2>4. Table' = Table
    BY DEF Table
  <2>5. Trusted' => Trusted
    BY <2>1, Zenon DEF Trusted
  <2>6. QED
    BY <2>1, <2>3, <2>4, <2>5
<1>4. /\ Len(Table) \in Nat /\ ext \in Nat /\ file \in Nat /\ 1 <= file /\ Here \in Nat \X Nat
      /\ asked \in Seq(Nat) /\ accepted \in Seq(Nat) /\ n \in Nat /\ c \in Nat
      /\ Len(origin) = n /\ dir \in Seq(Entries) /\ m \in Nat /\ Len(members) = m
      /\ members \in Seq([file: Nat \X Nat, name: Nat \cup {NoName}, lines: Nat, refused: Nat])
      /\ lines \in Nat /\ refused \in Nat
  <2>1. /\ asked \in Seq(Nat) /\ accepted \in Seq(Nat) /\ dir \in Seq(Entries)
        /\ Len(origin) = n /\ Len(members) = m
        /\ members \in Seq([file: Nat \X Nat, name: Nat \cup {NoName}, lines: Nat, refused: Nat])
        /\ lines \in Nat /\ refused \in 0..lines
    BY <1>1 DEF TypeOK, CopyTypeOK
  <2>2. /\ Len(Table) \in Nat /\ ext \in Nat /\ file \in Nat /\ 1 <= file
        /\ Here \in Nat \X Nat
    BY <1>1, TableType DEF Here
  <2>3. n \in Nat /\ c \in Nat /\ m \in Nat
    BY <2>1, LenProperties
  <2>4. QED
    BY <2>1, <2>2, <2>3
<1>5. InTable(Here) /\ Member # NoName /\ ext <= Len(Table)
  BY <1>1, <1>3 DEF PlaceInv
<1>6. Member \in Nat /\ Member = map_file_to_member(Table[Here[1]][Here[2]])
  <2>1. Member = map_file_to_member(Table[Here[1]][Here[2]])
    BY DEF Member, Here
  <2>2. Table[ext][file] \in File
    <3>1. globset \in Seq(File)
      BY <1>1, TableType
    <3>2. ext \in 1..Len(Table) /\ file \in 1..Len(Table[ext])
      BY <1>5 DEF InTable, Here
    <3>3. PICK i \in DOMAIN globset : Table[ext][file] = globset[i]
      <4>1. \A e \in 1..Len(Table) : \A f \in 1..Len(Table[e]) :
              \E i \in DOMAIN globset : Table[e][f] = globset[i]
        <5>1. \A e \in 1..Len(create_table(globset)) :
                /\ Len(create_table(globset)[e]) \in Nat
                /\ \A f \in 1..Len(create_table(globset)[e]) :
                     \E i \in DOMAIN globset :
                       /\ create_table(globset)[e][f] = globset[i]
                       /\ i = PlacesOf(globset, Ascending(Keys(globset))[e])[f]
                       /\ extension(globset[i]) = Ascending(Keys(globset))[e]
          BY <3>1, TableRows
        <5>2. QED
          BY <5>1, Zenon DEF Table
      <4>2. QED
        BY <3>2, <4>1
    <3>4. globset[i] \in File
      BY <3>1, <3>3, ElementOfSeq
    <3>5. QED
      BY <3>3, <3>4
  <2>3. QED
    BY <1>5, <2>1, <2>2 DEF Member, map_file_to_member, uppercase, File
<1>7. /\ ext' \in 1..Len(Table) + 1 /\ file' \in Nat \ {0}
      /\ pc' \in {"file", "close"}
      /\ Before(Here, Here') \/ (Here' = Here /\ pc' = "close")
      /\ ext' <= Len(Table) /\ ext' \in Nat
      /\ map /\ failed' => pc' = "close"
  <2>1. CASE CopyFilesReturns
    BY <1>1, <1>3, <1>4, <1>5, <2>1, ReturnsTo DEF CopyTypeOK, PlaceInv
  <2>2. CASE NextFile /\ failed' = failed
    <3>1. ~map \/ ~failed
      BY <1>1, <1>3 DEF PlaceInv, InFile
    <3>2. QED
      BY <1>1, <1>4, <1>5, <2>2, <3>1 DEF NextFile, Before, Here, CopyTypeOK
  <2>3. QED
    BY <1>3, <2>1, <2>2
<1>8. /\ members' \in Seq([file: Nat \X Nat, name: Nat \cup {NoName}, lines: Nat, refused: Nat])
      /\ Len(members') = m + 1 /\ members'[m + 1] = new
      /\ \A k \in 1..m : members'[k] = members[k]
  <2> DEFINE E == [file: Nat \X Nat, name: Nat \cup {NoName}, lines: Nat, refused: Nat]
  <2>1. members \in Seq(E) /\ new \in E
    BY <1>4, <1>6
  <2> HIDE DEF E, new
  <2>2. QED
    BY <1>2, <1>4, <2>1, AppendProperties DEF E
<1>9. /\ Len(dir') = m + 1 /\ dir'[m + 1].ids = accepted
      /\ \A k \in 1..m : dir'[k] = dir[k]
  <2> DEFINE e == [begin |-> begin, ttr |-> memstart_ttr, ids |-> accepted]
  <2>1. e \in Entries /\ e.ids = accepted
    BY DEF TypeOK, Entries
  <2> HIDE DEF e
  <2>2. dir' = Append(dir, e)
    BY <1>2 DEF e
  <2>3. QED
    BY <1>4, <2>1, <2>2, AppendProperties
<1> HIDE DEF new
<1>10. CopyTypeOK'
  BY <1>1, <1>2, <1>3, <1>4, <1>7, <1>8, <1>9 DEF CopyTypeOK, EnterFile, CopyFails
<1>11. PlaceInv'
  BY <1>1, <1>2, <1>3, <1>7 DEF PlaceInv, InFile
<1>12. \A k \in 1..m + 1 : k \in 1..m \/ k = m + 1
  BY <1>4
<1>13. \A k \in 1..m : members[k].file \in Nat \X Nat
  <2> DEFINE E == [file: Nat \X Nat, name: Nat \cup {NoName}, lines: Nat, refused: Nat]
  <2>1. members \in Seq(E) /\ Len(members) = m
    BY <1>4
  <2> HIDE DEF E
  <2>2. \A k \in 1..m : members[k] \in E
    BY <2>1, ElementOfSeq
  <2>3. QED
    BY <2>2 DEF E
<1>14. \A p \in Nat \X Nat : Before(p, Here) => Before(p, Here')
  <2>1. Here' \in Nat \X Nat
    BY <1>7 DEF Here
  <2>2. QED
    BY <1>4, <1>7, <2>1, Onward
<1>15. new.file = Here /\ new.name = Member /\ new.lines = lines /\ new.refused = refused
  BY DEF new
<1>16. \A k \in 1..m : Before(members[k].file, Here)
  BY <1>1, <1>2, <1>4 DEF EnteredInv
<1>17. OriginInv'
  <2>1. accepted' = <<>> /\ Len(accepted') = 0 /\ n \in Nat
    BY <1>2, <1>4, EmptySeq
  <2>2. \A id \in 1..Len(origin) :
          Before(origin[id], Here') \/ (origin[id] = Here' /\ pc' = "close")
    <3>1. TAKE id \in 1..Len(origin)
    <3>2. origin[id] \in Nat \X Nat
      BY <1>1, ElementOfSeq DEF CopyTypeOK
    <3>3. Before(origin[id], Here) \/ origin[id] = Here
      BY <1>1 DEF OriginInv
    <3>4. QED
      BY <1>7, <1>14, <3>2, <3>3
  <2>3. QED
    BY <1>2, <1>3, <2>1, <2>2 DEF OriginInv
<1>18. EnteredInv'
  <2>1. SUFFICES ASSUME NEW k \in 1..m + 1
                 PROVE  LET f == members'[k].file
                        IN  /\ InTable(f)
                            /\ Before(f, Here') \/ (f = Here' /\ pc' \in {"close", "exit"})
                            /\ members'[k].name = map_file_to_member(Table[f[1]][f[2]])
                            /\ members'[k].name # NoName
                            /\ \A l \in 1..k - 1 : Before(members'[l].file, f)
    BY <1>3, <1>8 DEF EnteredInv, InTable
  <2>2. CASE k \in 1..m
    <3>0. m \in Nat /\ \A l \in 1..m : members'[l] = members[l]
      BY <1>4, <1>8
    <3> HIDE DEF m
    <3>1. members'[k] = members[k] /\ \A l \in 1..k - 1 : l \in 1..m /\ members'[l] = members[l]
      BY <2>2, <3>0
    <3>2. /\ InTable(members[k].file)
          /\ members[k].name = map_file_to_member(Table[members[k].file[1]][members[k].file[2]])
          /\ members[k].name # NoName
          /\ \A l \in 1..k - 1 : Before(members[l].file, members[k].file)
      BY <1>1, <1>4, <2>2 DEF EnteredInv
    <3>3. Before(members[k].file, Here')
      BY <1>13, <1>14, <1>16, <2>2
    <3>4. QED
      BY <3>1, <3>2, <3>3
  <2>3. CASE k = m + 1
    <3>1. members'[k].file = Here /\ members'[k].name = Member
      BY <1>8, <1>15, <2>3
    <3>2. \A l \in 1..k - 1 : l \in 1..m /\ members'[l] = members[l]
      <4>1. m \in Nat /\ \A l \in 1..m : members'[l] = members[l]
        BY <1>4, <1>8
      <4> HIDE DEF m
      <4>2. QED
        BY <2>3, <4>1
    <3>3. QED
      BY <1>5, <1>6, <1>7, <1>16, <3>1, <3>2
  <2>4. QED
    BY <1>12, <2>2, <2>3
<1>19. MemberIsFile'
  <2>1. SUFFICES ASSUME Trusted, NEW k \in 1..m + 1
                 PROVE  /\ InOrder(dir'[k].ids, RecordsOf(members'[k].file))
                        /\ Len(dir'[k].ids) + members'[k].refused = members'[k].lines
    BY <1>2, <1>3, <1>9 DEF MemberIsFile, Trusted, RecordsOf
  <2>2. CASE k \in 1..m
    BY <1>1, <1>8, <1>9, <2>1, <2>2 DEF MemberIsFile, Trusted
  <2>3. CASE k = m + 1
    <3>1. /\ \A i \in 1..c : accepted[i] = n - c + i
          /\ c <= n
          /\ \A id \in 1..n : origin[id] = Here <=> id > n - c
          /\ c + refused = lines
      BY <1>1, <1>3, <1>4, <2>1 DEF OriginInv
    <3> DEFINE R == RecordsOf(Here)
    <3>2. R = {id \in 1..n : id > n - c}
      BY <1>4, <3>1 DEF RecordsOf
    <3> HIDE DEF R, n, c
    <3>3. n \in Nat /\ c \in Nat
      BY <1>4
    <3>4. \A i \in 1..c : n - c + i \in 1..n /\ n - c + i > n - c
      BY <3>1, <3>3
    <3>5. \A id \in 1..n : id > n - c => id - (n - c) \in 1..c /\ n - c + (id - (n - c)) = id
      BY <3>1, <3>3
    <3>6. {accepted[i] : i \in 1..c} = R
      <4>1. \A i \in 1..c : accepted[i] \in R
        BY <3>1, <3>2, <3>4
      <4>2. \A id \in R : \E i \in 1..c : accepted[i] = id
        BY <3>1, <3>2, <3>5
      <4>3. QED
        BY <4>1, <4>2
    <3>7. \A i, j \in 1..c : i < j => accepted[i] < accepted[j]
      BY <3>1, <3>3
    <3>8. members'[k].file = Here /\ members'[k].refused = refused /\ members'[k].lines = lines
          /\ dir'[k].ids = accepted
      BY <1>8, <1>9, <1>15, <2>3
    <3>9. InOrder(accepted, R)
      BY <3>6, <3>7 DEF InOrder, c
    <3>10. QED
      BY <3>1, <3>8, <3>9 DEF R, c
  <2>4. QED
    BY <1>12, <2>2, <2>3
<1>20. QED
  BY <1>10, <1>11, <1>17, <1>18, <1>19 DEF CopyInv

\* Every step of f2m keeps CopyInv.
LEMMA CopyStep == TypeOK /\ TypeOK' /\ CopyInv /\ [CopyNext]_copyvars => CopyInv'
<1> SUFFICES ASSUME TypeOK, TypeOK', CopyInv, [CopyNext]_copyvars PROVE CopyInv'
  OBVIOUS
<1>1. CopyTypeOK /\ PlaceInv /\ OriginInv
  BY DEF CopyInv
<1>2. /\ Len(Table) \in Nat /\ (Len(Table) = 0 => Table = <<>>)
      /\ ext \in Nat /\ 1 <= ext /\ ext \in 1..Len(Table) + 1 /\ file \in Nat \ {0}
      /\ failed \in BOOLEAN /\ map \in BOOLEAN
  BY <1>1, TableType DEF CopyTypeOK
<1>3. CASE UNCHANGED copyvars
  <2>1. UNCHANGED <<vars, globset, map, pc, ext, file, lines, refused, failed, origin, members>>
    BY <1>3 DEF copyvars
  <2>2. UNCHANGED <<dir, asked, accepted>>
    BY <2>1 DEF vars
  <2>3. UNCHANGED <<CopyTypeOK, PlaceInv, OriginInv, EnteredInv, MemberIsFile>>
    BY <2>1, <2>2 DEF CopyTypeOK, PlaceInv, OriginInv, EnteredInv, MemberIsFile, Table, InFile,
       InTable, Here, Trusted, RecordsOf, Member
  <2>4. QED
    BY <2>3 DEF CopyInv
<1>4. CASE CopyFilesToMembers /\ UNCHANGED <<globset, map>>
  <2>1. /\ pc = "start" /\ UNCHANGED <<asked, accepted, dir, ext, file, lines, refused, failed, origin, members>>
        /\ pc' \in {"open", "exit"}
        /\ map /\ pc' = "open" => Table # <<>>
        /\ ~map /\ pc' = "open" => ~check_for_duplicate_members(globset)
    BY <1>4 DEF CopyFilesToMembers, vars, history
  <2>2. Here' = Here /\ ~InFile /\ ~InFile' /\ ext = 1 /\ ~failed
    BY <1>1, <2>1 DEF Here, InFile, PlaceInv
  <2>3. map /\ pc' = "open" => ext' <= Len(Table)
    BY <1>2, <2>1, <2>2
  <2>4. QED
    BY <1>2, <1>4, <2>1, <2>2, <2>3, Skips
<1>5. CASE OpenDataset /\ UNCHANGED <<globset, map>>
  BY <1>5, OpenKeeps
<1>6. CASE (DatasetUnavailable \/ CloseDataset) /\ UNCHANGED <<globset, map>>
  <2>1. /\ pc \in {"open", "close"}
        /\ UNCHANGED <<asked, accepted, dir, lines, refused, failed, origin, members>>
        /\ \/ ~map /\ pc' = "exit" /\ UNCHANGED <<ext, file>>
           \/ map /\ NextExtension("open")
    BY <1>6 DEF DatasetUnavailable, CloseDataset, vars, history
  <2>2. CASE ~map /\ pc' = "exit" /\ UNCHANGED <<ext, file>>
    <3>1. Here' = Here /\ ~InFile'
      BY <2>2 DEF Here, InFile
    <3>2. QED
      BY <1>2, <1>6, <2>1, <2>2, <3>1, Skips
  <2>3. CASE map /\ NextExtension("open")
    <3>1. ext <= Len(Table)
      BY <1>1, <2>1, <2>3 DEF PlaceInv
    <3>2. /\ ext' \in 1..Len(Table) + 1 /\ file' \in Nat \ {0} /\ Before(Here, Here')
          /\ pc' = "exit" \/ (pc' = "open" /\ ext' <= Len(Table))
      BY <1>1, <1>6, <2>3, <3>1, GoesOn
    <3>3. ~InFile'
      BY <3>2 DEF InFile
    <3>4. QED
      BY <1>6, <2>1, <2>3, <3>2, <3>3, Skips
  <2>4. QED
    BY <2>1, <2>2, <2>3
<1>7. CASE FilesDone /\ UNCHANGED <<globset, map>>
  <2>1. /\ pc = "file" /\ CopyFilesReturns
        /\ UNCHANGED <<asked, accepted, dir, lines, refused, failed, origin, members>>
    BY <1>7 DEF FilesDone, vars, history
  <2>2. /\ ext' \in 1..Len(Table) + 1 /\ file' \in Nat \ {0}
        /\ \/ ~map /\ pc' = "file" /\ ext' <= Len(Table) /\ Before(Here, Here')
           \/ pc' = "close" /\ ext' = ext /\ Here' = Here
    BY <1>1, <1>7, <2>1, ReturnsTo
  <2>3. ~InFile' /\ ext <= Len(Table) /\ (Trusted' => accepted = <<>>)
    BY <1>1, <1>7, <2>1, <2>2 DEF InFile, PlaceInv, OriginInv, Trusted
  <2>4. ~map => ~check_for_duplicate_members(globset)
    BY <1>1, <2>1 DEF PlaceInv
  <2>5. QED
    BY <1>7, <2>1, <2>2, <2>3, <2>4, Skips
<1>8. CASE FileUnmapped /\ UNCHANGED <<globset, map>>
  <2>1. /\ pc = "file" /\ pc' = "file" /\ ext' = ext /\ file' = file + 1
        /\ UNCHANGED <<asked, accepted, dir, lines, refused, failed, origin, members>>
    BY <1>8 DEF FileUnmapped, NextFile, vars, history
  <2>2. ~InFile' /\ ext <= Len(Table) /\ (Trusted' => accepted = <<>>) /\ (map => ~failed)
    BY <1>1, <1>8, <2>1 DEF InFile, PlaceInv, OriginInv, Trusted
  <2>3. Before(Here, Here') /\ file' \in Nat \ {0}
    BY <1>2, <2>1 DEF Before, Here
  <2>4. QED
    BY <1>2, <1>8, <2>1, <2>2, <2>3, Skips
<1>9. CASE (FileUnreadable \/ FlushMemberFails \/ EnterFileFails) /\ UNCHANGED <<globset, map>>
  <2>1. /\ pc \in {"file", "flush", "stow"} /\ CopyFilesReturns /\ failed' = TRUE
        /\ UNCHANGED <<asked, accepted, dir, lines, refused, origin, members>>
    BY <1>9 DEF FileUnreadable, FlushMemberFails, EnterFileFails, CopyFails, FlushFails,
       write_block_fails, vars
  <2>2. /\ ext' \in 1..Len(Table) + 1 /\ file' \in Nat \ {0}
        /\ \/ ~map /\ pc' = "file" /\ ext' <= Len(Table) /\ Before(Here, Here')
           \/ pc' = "close" /\ ext' = ext /\ Here' = Here
    BY <1>1, <1>9, <2>1, ReturnsTo
  <2>3. ~InFile' /\ ext <= Len(Table) /\ (Trusted' => map)
    BY <1>1, <1>9, <2>1, <2>2 DEF InFile, PlaceInv, Trusted
  <2>4. map => pc' = "close"
    BY <2>2
  <2>5. QED
    BY <1>9, <2>1, <2>2, <2>3, <2>4, Skips
<1>10. CASE OpenFile /\ UNCHANGED <<globset, map>>
  BY <1>10, OpenFileKeeps
<1>11. ASSUME NEW len \in Lens, AddLine(len), UNCHANGED <<globset, map>> PROVE CopyInv'
  BY <1>11, LineKeeps
<1>12. CASE (EndOfFile \/ FlushMember) /\ UNCHANGED <<globset, map>>
  <2>1. /\ pc \in {"lines", "flush"} /\ pc' \in {"flush", "stow"}
        /\ UNCHANGED <<asked, accepted, dir, ext, file, lines, refused, failed, origin, members>>
    BY <1>12 DEF EndOfFile, FlushMember, Flush, vars, history
  <2>2. /\ InFile /\ InFile' /\ Here' = Here /\ ext' <= Len(Table) /\ pc' # "file"
        /\ ~(map /\ failed') /\ (~map => ~check_for_duplicate_members(globset))
    BY <1>1, <2>1 DEF InFile, Here, PlaceInv
  <2>3. QED
    BY <1>2, <1>12, <2>1, <2>2, Skips
<1>13. CASE EnterFile /\ UNCHANGED <<globset, map>>
  BY <1>13, EnterKeeps
<1>14. QED
  BY <1>3, <1>4, <1>5, <1>6, <1>7, <1>8, <1>9, <1>10, <1>11, <1>12, <1>13 DEF CopyNext

\* f2m begins with nothing copied.
LEMMA CopyStarts == CopyInit => CopyInv
<1> SUFFICES ASSUME CopyInit PROVE CopyInv
  OBVIOUS
<1>1. /\ globset \in GlobSets /\ map \in BOOLEAN /\ pc = "start" /\ ext = 1 /\ file = 1
      /\ lines = 0 /\ refused = 0 /\ failed = FALSE /\ origin = <<>> /\ members = <<>>
      /\ dir = <<>> /\ asked = <<>> /\ accepted = <<>>
  BY DEF CopyInit, Init
<1>2. globset \in Seq(File)
  BY <1>1, CopyAssumption DEF File
<1>3. Len(Table) \in Nat
  BY <1>2, TableRows DEF Table
<1>4. CopyTypeOK
  <2> DEFINE E == [file: Nat \X Nat, name: Nat \cup {NoName}, lines: Nat, refused: Nat]
             P == Nat \X Nat
  <2>1. <<>> \in Seq(E) /\ <<>> \in Seq(P) /\ Len(<<>>) = 0
    BY EmptySeq
  <2>2. members \in Seq(E) /\ origin \in Seq(P) /\ Len(members) = Len(dir) /\ Len(origin) = Len(asked)
    BY <1>1, <2>1
  <2> HIDE DEF E, P
  <2>3. ext \in 1..Len(Table) + 1 /\ file \in Nat \ {0} /\ lines \in Nat /\ refused \in 0..lines
    BY <1>1, <1>3
  <2>4. QED
    BY <1>1, <2>2, <2>3 DEF CopyTypeOK, E, P
<1>5. PlaceInv
  BY <1>1 DEF PlaceInv, InFile
<1>6. OriginInv /\ EnteredInv /\ MemberIsFile
  BY <1>1, EmptySeq DEF OriginInv, InFile, EnteredInv, MemberIsFile
<1>7. QED
  BY <1>4, <1>5, <1>6 DEF CopyInv

\* Through all the handles f2m opens, what is in them is of its type.
LEMMA F2MTypes == CopySpec => []TypeOK
<1>1. Init => TypeOK
  BY InitTypes
<1>2. TypeOK /\ [Next \/ Opened]_vars => TypeOK'
  <2>1. TypeOK /\ Opened => TypeOK'
    BY FreshHandleIsSound
  <2>2. TypeOK /\ [Next]_vars => TypeOK'
    BY TypeStep
  <2>3. QED
    BY <2>1, <2>2
<1>3. QED
  BY <1>1, <1>2, F2MKeepsOrder, PTL DEF KeepsOrder

\* CopyInv holds all through.
LEMMA CopyInvariant == CopySpec => []CopyInv
<1>1. CopyInit => CopyInv
  BY CopyStarts
<1>2. TypeOK /\ TypeOK' /\ CopyInv /\ [CopyNext]_copyvars => CopyInv'
  BY CopyStep
<1>3. QED
  BY <1>1, <1>2, F2MTypes, PTL DEF CopySpec

\* The loops of f2m stay inside the table, and every record and every entry is
\* accounted to a file.
THEOREM CopyTypesCorrect == CopySpec => []CopyTypeOK
<1>1. CopyInv => CopyTypeOK
  BY DEF CopyInv
<1>2. QED
  BY <1>1, CopyInvariant, PTL

\* Whatever files there are and whatever fails: a member holds the records of the file
\* it was made for, in order, and of no other, except after a failed copy without
\* option -m, which leaves its records in the shared handle.
THEOREM MembersAreFiles == CopySpec => []MemberIsFile
<1>1. CopyInv => MemberIsFile
  BY DEF CopyInv
<1>2. QED
  BY <1>1, CopyInvariant, PTL

\* check_for_duplicate_members is enough: without option -m no file replaces the member
\* of another, whatever the files of the table and however they were split among its rows.
THEOREM NoFileReplaced == CopySpec => []NoMemberTwice
<1>1. CopyInv => NoMemberTwice
  <2>1. SUFFICES ASSUME CopyInv, ~map, NEW k \in 1..Len(members), NEW l \in 1..Len(members), k # l
                 PROVE  members[k].name # members[l].name
    BY DEF NoMemberTwice
  <2>2. ASSUME NEW i \in 1..Len(members), NEW j \in 1..Len(members), i < j
        PROVE  members[i].name # members[j].name
    <3> DEFINE p == members[i].file
               q == members[j].file
    <3>1. CopyTypeOK /\ PlaceInv /\ EnteredInv
      BY <2>1 DEF CopyInv
    <3>2. members # <<>> /\ Len(members) = Len(dir)
      BY <2>2, <3>1, EmptySeq DEF CopyTypeOK
    <3>3. globset \in Seq(File) /\ ~check_for_duplicate_members(globset)
      <4>1. dir # <<>>
        BY <3>2, <2>2, EmptySeq
      <4>2. QED
        BY <2>1, <3>1, <4>1, TableType DEF PlaceInv
    <3>4. i \in 1..j - 1
      BY <2>2
    <3>5. /\ InTable(p) /\ InTable(q) /\ Before(p, q)
          /\ members[i].name = map_file_to_member(Table[p[1]][p[2]])
          /\ members[j].name = map_file_to_member(Table[q[1]][q[2]])
          /\ members[i].name # NoName
      BY <2>2, <3>1, <3>4 DEF EnteredInv
    <3> HIDE DEF p, q
    <3>6. /\ p[1] \in 1..Len(create_table(globset)) /\ p[2] \in 1..Len(create_table(globset)[p[1]])
          /\ q[1] \in 1..Len(create_table(globset)) /\ q[2] \in 1..Len(create_table(globset)[q[1]])
          /\ members[i].name = map_file_to_member(create_table(globset)[p[1]][p[2]])
          /\ members[j].name = map_file_to_member(create_table(globset)[q[1]][q[2]])
      BY <3>5 DEF InTable, Table
    <3> DEFINE d == p[1]
               c == p[2]
               e == q[1]
               f == q[2]
    <3>7. d # e \/ c # f
      <4>0. \A x, y : y \in 1..x => y \in Int
        OBVIOUS
      <4>1. d \in Int /\ e \in Int /\ c \in Int /\ f \in Int
        BY <3>6, <4>0, Zenon
      <4>2. d < e \/ (d = e /\ c < f)
        BY <3>5 DEF Before
      <4> HIDE DEF d, e, c, f
      <4>3. QED
        BY <4>1, <4>2
    <3>8. /\ d \in 1..Len(create_table(globset)) /\ c \in 1..Len(create_table(globset)[d])
          /\ e \in 1..Len(create_table(globset)) /\ f \in 1..Len(create_table(globset)[e])
          /\ members[i].name = map_file_to_member(create_table(globset)[d][c])
          /\ members[j].name = map_file_to_member(create_table(globset)[e][f])
      BY <3>6
    <3>9. map_file_to_member(create_table(globset)[d][c]) # NoName
      BY <3>5, <3>8
    <3> HIDE DEF d, c, e, f
    <3>10. map_file_to_member(create_table(globset)[d][c]) # map_file_to_member(create_table(globset)[e][f])
      <4>1. \A a, b \in 1..Len(create_table(globset)) :
              \A x \in 1..Len(create_table(globset)[a]), y \in 1..Len(create_table(globset)[b]) :
                (a # b \/ x # y) /\ map_file_to_member(create_table(globset)[a][x]) # NoName
                  => map_file_to_member(create_table(globset)[a][x])
                       # map_file_to_member(create_table(globset)[b][y])
        BY <3>3, MembersApart
      <4>2. QED
        BY <3>7, <3>8, <3>9, <4>1
    <3>11. QED
      BY <3>8, <3>10
  <2>3. k < l \/ l < k
    BY <2>1
  <2>4. QED
    BY <2>1, <2>2, <2>3
<1>2. QED
  BY <1>1, CopyInvariant, PTL

\* With option -m nothing more is entered in a data set after a copy to it failed.
THEOREM NoneAfterFailure == CopySpec => NoFurtherCopiesMapped
<1>1. CopyInv /\ [CopyNext]_copyvars => [map /\ failed => Len(dir') <= Len(dir)]_copyvars
  <2>1. SUFFICES ASSUME CopyInv, CopyNext, map, failed PROVE Len(dir') <= Len(dir)
    BY DEF CopyNext
  <2>2. pc \in {"open", "close", "exit"}
    BY <2>1 DEF CopyInv, PlaceInv
  <2>3. dir' = dir \/ dir' = <<>>
    BY <2>1, <2>2 DEF CopyNext, CopyFilesToMembers, OpenDataset, DatasetUnavailable, CloseDataset,
       FilesDone, FileUnmapped, FileUnreadable, OpenFile, AddLine, EndOfFile, FlushMember,
       FlushMemberFails, EnterFile, EnterFileFails, vars
  <2>4. QED
    BY <2>3
<1>2. QED
  BY <1>1, CopyInvariant, PTL DEF CopySpec, NoFurtherCopiesMapped
=============================================================================
