----------------------- MODULE MemberDirectoryProofs ------------------------
(***************************************************************************)
(* Proofs about MemberDirectory, for any number of programs, whatever the  *)
(* data set is, however they opened it and whoever takes the ENQ.          *)
(***************************************************************************)
EXTENDS MemberDirectory, TLAPS

\* What every action of a program has in common: it moves only that program, and
\* the entry changes only from one of the places before a STOW.
LEMMA StepFrame ==
  ASSUME DirTypeOK, NEW p \in Programs, Step(p)
  PROVE  /\ UNCHANGED setup
         /\ \E x \in Places : pc' = [pc EXCEPT ![p] = x]
         /\ \/ UNCHANGED rc
            \/ \E c \in Codes : rc' = [rc EXCEPT ![p] = c]
         /\ \/ UNCHANGED timestamp
            \/ timestamp' = [timestamp EXCEPT ![p] = entry.stamp] /\ entry # NoEntry
         /\ UNCHANGED seen \/ seen' = [seen EXCEPT ![p] = entry]
         /\ \/ NotEntered
            \/ /\ pc[p] \in {"create", "update", "replace"}
               /\ pc'[p] = "returned" /\ rc'[p] = 0
               /\ \E x \in BOOLEAN : Enters(p, x)
<1> USE DEF DirTypeOK, setup, Places, Codes, GoTo, Returns, NotEntered, FirstStep
<1>1. CASE Enq(p) \/ NoEnq(p) \/ GivesUp(p)
  BY <1>1 DEF Enq, NoEnq, GivesUp
<1>2. CASE NoStorage(p)
  BY <1>2 DEF NoStorage
<1>3. CASE CannotCreate(p)
  BY <1>3 DEF CannotCreate
<1>4. CASE Create(p)
  BY <1>4 DEF Create, STOW_CC_OK
<1>5. CASE CreateFails(p)
  BY <1>5 DEF CreateFails, OtherError
<1>6. CASE Deserv(p)
  BY <1>6 DEF Deserv
<1>7. CASE NoTimestamp(p)
  BY <1>7 DEF NoTimestamp
<1>8. CASE DeservFails(p)
  BY <1>8 DEF DeservFails
<1>9. CASE Update(p)
  BY <1>9 DEF Update, STOW_CC_OK
<1>10. CASE UpdateFails(p)
  BY <1>10 DEF UpdateFails, OtherError
<1>11. CASE Replace(p)
  BY <1>11 DEF Replace, STOW_CC_OK
<1>12. CASE ReplaceFails(p)
  BY <1>12 DEF ReplaceFails, OtherError
<1>13. CASE Ends(p)
  BY <1>13 DEF Ends
<1>14. QED
  BY <1>1, <1>2, <1>3, <1>4, <1>5, <1>6, <1>7, <1>8, <1>9, <1>10, <1>11, <1>12, <1>13
  DEF Step

\* How the ENQ moves: to a program that starts, away from one that ends.
LEMMA QueueStep ==
  ASSUME DirTypeOK, NEW p \in Programs, Step(p)
  PROVE  /\ pc'[p] # "start"
         /\ \/ p \in enqs /\ pc[p] = "start" /\ queue = Nobody /\ queue' = p /\ pc'[p] # "ended"
            \/ /\ pc'[p] = "ended" /\ pc[p] \in {"start", "returned"}
               /\ queue' = IF queue = p THEN Nobody ELSE queue
            \/ /\ pc'[p] # "ended" /\ UNCHANGED queue
               /\ pc[p] \notin {"start", "ended"} \/ (pc[p] = "start" /\ p \notin enqs)
<1> USE DEF DirTypeOK, GoTo, Returns, FirstStep
<1>1. CASE Enq(p) \/ NoEnq(p) \/ GivesUp(p) \/ Ends(p)
  BY <1>1 DEF Enq, NoEnq, GivesUp, Ends
<1>2. CASE NoStorage(p) \/ CannotCreate(p) \/ Create(p) \/ CreateFails(p)
  BY <1>2 DEF NoStorage, CannotCreate, Create, CreateFails
<1>3. CASE Deserv(p) \/ NoTimestamp(p) \/ DeservFails(p)
  BY <1>3 DEF Deserv, NoTimestamp, DeservFails
<1>4. CASE Update(p) \/ UpdateFails(p) \/ Replace(p) \/ ReplaceFails(p)
  BY <1>4 DEF Update, UpdateFails, Replace, ReplaceFails
<1>5. QED
  BY <1>1, <1>2, <1>3, <1>4 DEF Step

\* Every step keeps the types.
LEMMA TypeStep == DirTypeOK /\ [Next]_vars => DirTypeOK'
<1> SUFFICES ASSUME DirTypeOK, [Next]_vars PROVE DirTypeOK'
  OBVIOUS
<1>1. CASE UNCHANGED vars
  BY <1>1 DEF vars, DirTypeOK
<1>2. ASSUME NEW p \in Programs, Step(p) PROVE DirTypeOK'
  <2>1. UNCHANGED setup
    BY <1>2, StepFrame
  <2>2. pc' \in [Programs -> Places] /\ rc' \in [Programs -> Codes]
    BY <1>2, StepFrame DEF DirTypeOK
  <2>3. timestamp' \in [Programs -> Nat] /\ seen' \in [Programs -> Entries \cup {NoEntry}]
    <3>1. entry # NoEntry => entry.stamp \in Nat
      BY DEF DirTypeOK, Entries
    <3>2. QED
      BY <3>1, <1>2, StepFrame DEF DirTypeOK
  <2>4. entry' \in Entries \cup {NoEntry} /\ clock' \in Nat /\ entered' \in SUBSET Programs
    BY <1>2, StepFrame DEF DirTypeOK, NotEntered, Enters, Entries
  <2>5. queue' \in {Nobody} \cup enqs
    BY <1>2, QueueStep DEF DirTypeOK
  <2>6. queue' # Nobody => pc'[queue'] \notin {"start", "ended"}
    <3>1. \A q \in Programs : q # p => pc'[q] = pc[q]
      BY <1>2, StepFrame DEF DirTypeOK
    <3>2. queue' # Nobody => queue' = p \/ (queue' = queue /\ queue \in Programs)
      BY <1>2, QueueStep DEF DirTypeOK
    <3>3. QED
      BY <3>1, <3>2, <1>2, QueueStep, DirectoryAssumption DEF DirTypeOK
  <2>7. QED
    BY <2>1, <2>2, <2>3, <2>4, <2>5, <2>6 DEF DirTypeOK, setup
<1>3. QED
  BY <1>1, <1>2 DEF Next

\* The directory, the programs and the ENQ keep their types.
THEOREM DirectoryTypes == Spec => []DirTypeOK
<1>1. Init => DirTypeOK
  <2> SUFFICES ASSUME Init PROVE DirTypeOK
    OBVIOUS
  <2>1. {FALSE, kind = "PDSE"} \subseteq BOOLEAN
    OBVIOUS
  <2>2. [by: {Nobody}, ext: {FALSE, kind = "PDSE"}, stamp: {0}] \subseteq Entries
    <3>1. ASSUME NEW e \in [by: {Nobody}, ext: {FALSE, kind = "PDSE"}, stamp: {0}]
          PROVE  e \in Entries
      <4>1. e.by \in {Nobody} /\ e.ext \in BOOLEAN /\ e.stamp \in {0}
        BY <2>1, <3>1, Zenon
      <4>2. e = [by |-> e.by, ext |-> e.ext, stamp |-> e.stamp]
        BY <3>1, Zenon
      <4>3. 0 \in Nat
        OBVIOUS
      <4>4. QED
        BY <4>1, <4>2, <4>3, Zenon DEF Entries
    <3>2. QED
      BY <3>1
  <2>3. entry \in Entries \cup {NoEntry}
    BY <2>2 DEF Init
  <2>4. QED
    BY <2>3 DEF Init, DirTypeOK, Places, Codes, STOW_CC_OK
<1>2. DirTypeOK /\ [Next]_vars => DirTypeOK'
  BY TypeStep
<1>3. QED
  BY <1>1, <1>2, PTL DEF Spec

-----------------------------------------------------------------------------
\* Every step keeps return codes and directory in agreement.  ReturnTellsTruth is
\* inductive: an entry is made in the step that returns 0.
LEMMA TruthStep ==
  DirTypeOK /\ ReturnTellsTruth /\ [Next]_vars => ReturnTellsTruth'
<1> SUFFICES ASSUME DirTypeOK, ReturnTellsTruth, [Next]_vars PROVE ReturnTellsTruth'
  OBVIOUS
<1>1. CASE UNCHANGED vars
  BY <1>1 DEF vars, ReturnTellsTruth
<1>2. ASSUME NEW p \in Programs, Step(p), NEW q \in Programs
      PROVE  IF pc'[q] \in {"returned", "ended"} THEN rc'[q] = 0 <=> q \in entered'
                                                 ELSE q \notin entered'
  <2>1. CASE q # p
    BY <2>1, <1>2, StepFrame DEF DirTypeOK, ReturnTellsTruth, NotEntered, Enters
  <2>2. CASE q = p
    BY <2>2, <1>2 DEF ReturnTellsTruth, DirTypeOK, Step, Enq, NoEnq, GivesUp, NoStorage,
      CannotCreate, Create, CreateFails, Deserv, NoTimestamp, DeservFails, Update,
      UpdateFails, Replace, ReplaceFails, Ends, GoTo, Returns, Enters, NotEntered,
      FirstStep, STOW_CC_OK, OtherError, STOW_IFF_CC_PDS_UPDATE_UNSUPPORTED
  <2>3. QED
    BY <2>1, <2>2
<1>3. QED
  BY <1>1, <1>2 DEF Next, ReturnTellsTruth

\* Of any number of programs that enter the member in any interleaving, with any of
\* their services failing, each is told the truth about its own entry.
THEOREM ReturnsAreTrue == Spec => []ReturnTellsTruth
<1>1. Init => ReturnTellsTruth
  BY DEF Init, ReturnTellsTruth
<1>2. DirTypeOK /\ ReturnTellsTruth /\ [Next]_vars => ReturnTellsTruth'
  BY TruthStep
<1>3. QED
  BY <1>1, <1>2, DirectoryTypes, PTL DEF Spec

-----------------------------------------------------------------------------
\* What the ENQ is for: of the programs that take it, one that is under way has it.
HolderInv == \A p \in enqs : pc[p] \notin {"start", "ended"} => queue = p

\* Every step keeps the ENQ exclusive.
LEMMA HolderStep == DirTypeOK /\ HolderInv /\ [Next]_vars => HolderInv'
<1> SUFFICES ASSUME DirTypeOK, HolderInv, [Next]_vars PROVE HolderInv'
  OBVIOUS
<1>1. CASE UNCHANGED vars
  BY <1>1 DEF vars, HolderInv
<1>2. ASSUME NEW p \in Programs, Step(p), NEW q \in enqs', pc'[q] \notin {"start", "ended"}
      PROVE  queue' = q
  <2>1. q \in enqs /\ q \in Programs
    BY <1>2, StepFrame DEF setup, DirTypeOK
  <2>2. CASE q # p
    <3>1. pc[q] = pc'[q]
      BY <2>1, <2>2, <1>2, StepFrame DEF DirTypeOK
    <3>2. queue = q
      BY <3>1, <2>1, <1>2 DEF HolderInv
    <3>3. QED
      BY <3>2, <2>1, <2>2, <1>2, QueueStep, DirectoryAssumption
  <2>3. CASE q = p
    BY <2>1, <2>3, <1>2, QueueStep DEF HolderInv
  <2>4. QED
    BY <2>2, <2>3
<1>3. QED
  BY <1>1, <1>2 DEF Next, HolderInv

\* Every step keeps what DESERV showed a program true until its STOW, since the
\* other programs do not have the ENQ.
LEMMA ProtectionStep ==
  DirTypeOK /\ HolderInv /\ EnqProtectsUpdate /\ [Next]_vars => EnqProtectsUpdate'
<1> SUFFICES ASSUME DirTypeOK, HolderInv, EnqProtectsUpdate, [Next]_vars
             PROVE  EnqProtectsUpdate'
  OBVIOUS
<1>1. CASE UNCHANGED vars
  BY <1>1 DEF vars, EnqProtectsUpdate
<1>2. ASSUME NEW p \in Programs, Step(p), enqs' = Programs,
             NEW q \in Programs, pc'[q] = "update"
      PROVE  entry' = seen'[q] /\ entry'.stamp = timestamp'[q]
  <2>1. enqs = Programs
    BY <1>2, StepFrame DEF setup
  <2>2. CASE q # p
    <3>1. pc[q] = "update"
      BY <2>2, <1>2, StepFrame DEF DirTypeOK
    <3>2. queue = q
      BY <3>1, <2>1 DEF HolderInv
    <3>3. pc[p] \notin {"create", "update", "replace"}
      BY <3>2, <2>1, <2>2 DEF HolderInv
    <3>4. entry' = entry
      BY <3>3, <1>2, StepFrame DEF NotEntered
    <3>5. seen'[q] = seen[q] /\ timestamp'[q] = timestamp[q]
      BY <2>2, <1>2, StepFrame DEF DirTypeOK
    <3>6. QED
      BY <3>1, <3>4, <3>5, <2>1 DEF EnqProtectsUpdate
  <2>3. CASE q = p
    <3>1. Deserv(p)
      BY <2>3, <1>2 DEF DirTypeOK, Step, Enq, NoEnq, GivesUp, NoStorage, CannotCreate,
        Create, CreateFails, NoTimestamp, DeservFails, Update, UpdateFails, Replace,
        ReplaceFails, Ends, GoTo, Returns, FirstStep
    <3>2. QED
      BY <3>1, <2>3 DEF Deserv, NotEntered, DirTypeOK
  <2>4. QED
    BY <2>2, <2>3
<1>3. QED
  BY <1>1, <1>2 DEF Next, EnqProtectsUpdate

\* When all programs take the ENQ, an update never meets an entry that is newer than
\* the one it read.
THEOREM EnqProtects == Spec => []EnqProtectsUpdate
<1>1. Init => HolderInv /\ EnqProtectsUpdate
  BY DEF Init, HolderInv, EnqProtectsUpdate
<1>2. DirTypeOK /\ HolderInv /\ EnqProtectsUpdate /\ [Next]_vars
        => HolderInv' /\ EnqProtectsUpdate'
  BY HolderStep, ProtectionStep
<1>3. QED
  BY <1>1, <1>2, DirectoryTypes, PTL DEF Spec

-----------------------------------------------------------------------------
\* What makes an update of the entry that was seen: timestamps tell entries apart,
\* and STOW R, which looks at none, is not for a PDSE member that is written anew.
StampInv ==
  /\ entry # NoEntry => entry.stamp < clock
  /\ \A p \in Programs :
       /\ seen[p] # NoEntry =>
            /\ seen[p].stamp < clock
            /\ entry # NoEntry /\ seen[p].stamp = entry.stamp => seen[p] = entry
       /\ pc[p] = "update" => seen[p] # NoEntry /\ timestamp[p] = seen[p].stamp
       /\ pc[p] = "replace" => kind = "PDS" \/ mode[p] = "update"

\* What the actions do that lead to a STOW.
LEMMA PlaceStep ==
  ASSUME DirTypeOK, NEW p \in Programs, Step(p)
  PROVE  /\ pc'[p] = "update" =>
              seen'[p] = entry /\ timestamp'[p] = entry.stamp /\ entry # NoEntry /\ entry' = entry
         /\ pc'[p] = "replace" => kind = "PDS" \/ mode[p] = "update"
BY DEF DirTypeOK, Step, Enq, NoEnq, GivesUp, NoStorage, CannotCreate, Create, CreateFails,
  Deserv, NoTimestamp, DeservFails, Update, UpdateFails, Replace, ReplaceFails, Ends, GoTo,
  Returns, FirstStep, NotEntered

\* Every step keeps StampInv.
LEMMA StampStep == DirTypeOK /\ StampInv /\ [Next]_vars => StampInv'
<1> SUFFICES ASSUME DirTypeOK, StampInv, [Next]_vars PROVE StampInv'
  OBVIOUS
<1>1. CASE UNCHANGED vars
  BY <1>1 DEF vars, StampInv
<1>2. ASSUME NEW p \in Programs, Step(p) PROVE StampInv'
  <2>1. entry # NoEntry => entry.stamp \in Nat
    BY DEF DirTypeOK, Entries
  <2>2. clock \in Nat /\ clock' \in Nat /\ clock <= clock'
    BY <1>2, StepFrame DEF NotEntered, Enters, DirTypeOK
  <2>3. entry' # NoEntry => entry'.stamp < clock'
    BY <1>2, StepFrame DEF NotEntered, Enters, StampInv, DirTypeOK
  <2>4. ASSUME NEW q \in Programs, seen'[q] # NoEntry
        PROVE  /\ seen'[q].stamp < clock'
               /\ entry' # NoEntry /\ seen'[q].stamp = entry'.stamp => seen'[q] = entry'
    <3>1. CASE seen'[q] = seen[q]
      <4>1. seen[q].stamp \in Nat /\ seen[q].stamp < clock
        BY <2>4, <3>1 DEF DirTypeOK, Entries, StampInv
      <4>2. entry' = entry \/ entry'.stamp = clock
        BY <1>2, StepFrame DEF NotEntered, Enters
      <4>3. QED
        BY <2>2, <2>4, <3>1, <4>1, <4>2 DEF StampInv
    <3>2. CASE seen'[q] = entry
      <4>1. entry.stamp < clock /\ entry.stamp \in Nat
        BY <2>1, <2>4, <3>2 DEF StampInv
      <4>2. entry' = entry \/ entry'.stamp = clock
        BY <1>2, StepFrame DEF NotEntered, Enters
      <4>3. QED
        BY <2>2, <3>2, <4>1, <4>2
    <3>3. QED
      BY <3>1, <3>2, <1>2, StepFrame DEF DirTypeOK
  <2>5. ASSUME NEW q \in Programs
        PROVE  /\ pc'[q] = "update" => seen'[q] # NoEntry /\ timestamp'[q] = seen'[q].stamp
               /\ pc'[q] = "replace" => kind' = "PDS" \/ mode'[q] = "update"
    <3>1. kind' = kind /\ mode' = mode
      BY <1>2, StepFrame DEF setup
    <3>2. CASE q # p
      <4>1. pc'[q] = pc[q] /\ seen'[q] = seen[q] /\ timestamp'[q] = timestamp[q]
        BY <3>2, <1>2, StepFrame DEF DirTypeOK
      <4>2. QED
        BY <3>1, <4>1 DEF StampInv
    <3>3. CASE q = p
      BY <3>1, <3>3, <1>2, PlaceStep
    <3>4. QED
      BY <3>2, <3>3
  <2>6. QED
    BY <2>3, <2>4, <2>5 DEF StampInv
<1>3. QED
  BY <1>1, <1>2 DEF Next

\* In a PDSE the entry a program replaces with the member it has written is the one
\* it looked at, with the ENQ or without.
THEOREM NoEntryLost == Spec => NoBlindReplace
<1> DEFINE Kept == \A p \in Programs :
             kind = "PDSE" /\ mode[p] = "create" /\ entry # NoEntry /\ p \notin entered
               /\ p \in entered' => entry = seen[p]
<1>1. Init => StampInv
  <2> SUFFICES ASSUME Init PROVE StampInv
    OBVIOUS
  <2>1. entry # NoEntry => entry.stamp = 0
    BY Zenon DEF Init
  <2>2. QED
    BY <2>1 DEF Init, StampInv
<1>2. DirTypeOK /\ StampInv /\ [Next]_vars => StampInv'
  BY StampStep
<1>3. ASSUME DirTypeOK, StampInv, [Next]_vars PROVE [Kept]_vars
  <2>1. ASSUME NEW p \in Programs, NEW q \in Programs, Step(q), kind = "PDSE",
               mode[p] = "create", entry # NoEntry, p \notin entered, p \in entered'
        PROVE  entry = seen[p]
    <3>1. p = q
      BY <1>3, <2>1, StepFrame DEF NotEntered, Enters
    <3>2. Update(p)
      BY <1>3, <2>1, <3>1 DEF StampInv, Step, Enq, NoEnq, GivesUp, NoStorage, CannotCreate, Create,
        CreateFails, Deserv, NoTimestamp, DeservFails, UpdateFails, Replace, ReplaceFails,
        Ends, NotEntered
    <3>3. QED
      BY <1>3, <2>1, <3>2 DEF Update, StampInv
  <2>2. CASE Next
    BY <2>1, <2>2 DEF Next
  <2>3. QED
    BY <1>3, <2>2
<1>4. QED
  BY <1>1, <1>2, <1>3, DirectoryTypes, PTL DEF Spec, NoBlindReplace
=============================================================================
