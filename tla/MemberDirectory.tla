-------------------------- MODULE MemberDirectory ---------------------------
(***************************************************************************)
(* Programs entering the same member of one data set at the same time:     *)
(* write_member_dir_entry of services/src/bpamio.c with its two paths      *)
(* (create, then update what exists already; or update at once, on a       *)
(* handle of open_pds_for_update), one action for each call of a system    *)
(* service, and around it the ENQ that readwriterec.c takes and f2m.c does *)
(* not.  Entries of different members do not affect each other, so there   *)
(* is one member.                                                          *)
(*                                                                         *)
(* entry is the member's directory entry (external), with the program that *)
(* made it, whether it has extended attributes, and their timestamp; clock *)
(* gives every change of it another timestamp.  queue is who holds the ENQ *)
(* for the member.  A program is at pc, has in rc what                     *)
(* write_member_dir_entry returned, and in timestamp that of its STOW      *)
(* list.  kind is what the data set is, mode how a program opened it, enqs *)
(* who takes the ENQ.  seen and entered are history: what DESERV showed a  *)
(* program, and whose entry was made.                                      *)
(***************************************************************************)
EXTENDS Naturals

CONSTANTS Programs, NoEntry, Nobody

Entries == [by: Programs \cup {Nobody}, ext: BOOLEAN, stamp: Nat]

ASSUME DirectoryAssumption ==
  /\ Nobody \notin Programs
  /\ NoEntry \notin Entries

VARIABLES kind, mode, enqs, entry, clock, queue, pc, rc, timestamp, seen, entered

setup == <<kind, mode, enqs>>
vars == <<kind, mode, enqs, entry, clock, queue, pc, rc, timestamp, seen, entered>>

\* What STOW returns (stow.h), of its other codes one that stands for all, and
\* what functions return of their own accord, 4 and 8.
STOW_CC_OK == 0
STOW_IFF_CC_CREATE_OK == 4
STOW_IFF_CC_PDS_UPDATE_UNSUPPORTED == 262184
OtherError == 12
Codes == {STOW_CC_OK, 4, 8, OtherError, STOW_IFF_CC_PDS_UPDATE_UNSUPPORTED}

\* A member is there or not; only a PDSE keeps extended attributes, and not of
\* every member.
Init ==
  /\ kind \in {"PDS", "PDSE"}
  /\ mode \in [Programs -> {"create", "update"}]
  /\ enqs \in SUBSET Programs
  /\ entry \in {NoEntry} \cup [by: {Nobody}, ext: {FALSE, kind = "PDSE"}, stamp: {0}]
  /\ clock = 1
  /\ queue = Nobody
  /\ pc = [p \in Programs |-> "start"]
  /\ rc = [p \in Programs |-> 0]
  /\ timestamp = [p \in Programs |-> 0]
  /\ seen = [p \in Programs |-> NoEntry]
  /\ entered = {}

-----------------------------------------------------------------------------
GoTo(p, place) == pc' = [pc EXCEPT ![p] = place]
Returns(p, code) == rc' = [rc EXCEPT ![p] = code] /\ GoTo(p, "returned")

\* The system replaces the entry, or makes it.
Enters(p, ext) ==
  /\ entry' = [by |-> p, ext |-> ext, stamp |-> clock]
  /\ clock' = clock + 1
  /\ entered' = entered \cup {p}

NotEntered == UNCHANGED <<entry, clock, entered>>

\* Where write_member_dir_entry begins: with a create unless update_existing.
FirstStep(p) == IF mode[p] = "update" THEN "deserv" ELSE "create"

-----------------------------------------------------------------------------
EnqUnheeded(p) ==   \* mutant: what enq_dataset_member returns is not looked at
  /\ pc[p] = "start"
  /\ p \in enqs
  /\ mode[p] = "update" => entry # NoEntry
  /\ queue' = IF queue = Nobody THEN p ELSE queue
  /\ GoTo(p, FirstStep(p))
  /\ UNCHANGED <<setup, rc, timestamp, seen>> /\ NotEntered

\* enq_dataset_member.  ENQ is conditional (RET=USE): it does not wait.  A handle for
\* update is positioned by find_member first.
Enq(p) ==
  /\ pc[p] = "start"
  /\ p \in enqs
  /\ mode[p] = "update" => entry # NoEntry
  /\ queue = Nobody
  /\ queue' = p
  /\ GoTo(p, FirstStep(p))
  /\ UNCHANGED <<setup, rc, timestamp, seen>> /\ NotEntered

\* A caller like f2m, which takes no ENQ.
NoEnq(p) ==
  /\ pc[p] = "start"
  /\ p \notin enqs
  /\ mode[p] = "update" => entry # NoEntry
  /\ GoTo(p, FirstStep(p))
  /\ UNCHANGED <<setup, queue, rc, timestamp, seen>> /\ NotEntered

GivesUpQueued(p) ==   \* mutant: a program gives up after it was given the ENQ
  /\ pc[p] = "start"
  /\ rc' = [rc EXCEPT ![p] = 8]
  /\ GoTo(p, "ended")
  /\ queue' = IF p \in enqs /\ queue = Nobody THEN p ELSE queue
  /\ UNCHANGED <<setup, timestamp, seen>> /\ NotEntered

\* The ENQ is taken or fails for lack of storage, or there is no member to find.
GivesUp(p) ==
  /\ pc[p] = "start"
  /\ rc' = [rc EXCEPT ![p] = 8]
  /\ GoTo(p, "ended")
  /\ UNCHANGED <<setup, queue, timestamp, seen>> /\ NotEntered

\* There is no storage for the STOW lists.
NoStorage(p) ==
  /\ pc[p] = FirstStep(p)
  /\ Returns(p, 4)
  /\ UNCHANGED <<setup, queue, timestamp, seen>> /\ NotEntered

-----------------------------------------------------------------------------
ReplaceIfThere(p) ==   \* mutant: STOW R for any member that exists
  /\ pc[p] = "create"
  /\ entry # NoEntry
  /\ GoTo(p, "replace")
  /\ UNCHANGED <<setup, queue, rc, timestamp, seen>> /\ NotEntered

\* STOW IFF without a timestamp: a PDS cannot do that, and a member that exists
\* already is updated.
CannotCreate(p) ==
  /\ pc[p] = "create"
  /\ \/ kind = "PDS" /\ GoTo(p, "replace")
     \/ kind = "PDSE" /\ entry # NoEntry /\ GoTo(p, "deserv")
  /\ UNCHANGED <<setup, queue, rc, timestamp, seen>> /\ NotEntered

CreateReturnsCode(p) ==   \* mutant: only 0 is taken for success
  /\ pc[p] = "create"
  /\ kind = "PDSE" /\ entry = NoEntry
  /\ Enters(p, TRUE)
  /\ Returns(p, STOW_IFF_CC_CREATE_OK)
  /\ UNCHANGED <<setup, queue, timestamp, seen>>

\* STOW IFF creates the member: STOW_IFF_CC_CREATE_OK becomes 0.
Create(p) ==
  /\ pc[p] = "create"
  /\ kind = "PDSE" /\ entry = NoEntry
  /\ Enters(p, TRUE)
  /\ Returns(p, 0)
  /\ UNCHANGED <<setup, queue, timestamp, seen>>

\* Any other return code of STOW IFF.
CreateFails(p) ==
  /\ pc[p] = "create"
  /\ kind = "PDSE"
  /\ Returns(p, OtherError)
  /\ UNCHANGED <<setup, queue, timestamp, seen>> /\ NotEntered

\* update_pdse_member_dir_entry, when DESERV finds extended attributes.
Deserv(p) ==
  /\ pc[p] = "deserv"
  /\ entry # NoEntry /\ entry.ext
  /\ seen' = [seen EXCEPT ![p] = entry]
  /\ timestamp' = [timestamp EXCEPT ![p] = entry.stamp]
  /\ GoTo(p, "update")
  /\ UNCHANGED <<setup, queue, rc>> /\ NotEntered

\* ... when there are none: write_member_dir_entry goes on with STOW R if the handle
\* was opened for update, and returns the code if it got here from a create.
NoTimestamp(p) ==
  /\ pc[p] = "deserv"
  /\ entry # NoEntry /\ ~entry.ext
  /\ seen' = [seen EXCEPT ![p] = entry]
  /\ IF mode[p] = "update" THEN GoTo(p, "replace") /\ UNCHANGED rc
                           ELSE Returns(p, STOW_IFF_CC_PDS_UPDATE_UNSUPPORTED)
  /\ UNCHANGED <<setup, queue, timestamp>> /\ NotEntered

\* ... and when init_desp gets no storage or DESERV fails.
DeservFails(p) ==
  /\ pc[p] = "deserv"
  /\ Returns(p, 4)
  /\ UNCHANGED <<setup, queue, timestamp, seen>> /\ NotEntered

\* STOW IFF with the timestamp that DESERV delivered: it replaces that entry only.
Update(p) ==
  /\ pc[p] = "update"
  /\ entry.ext /\ entry.stamp = timestamp[p]
  /\ Enters(p, TRUE)
  /\ Returns(p, STOW_CC_OK)
  /\ UNCHANGED <<setup, queue, timestamp, seen>>

\* Any other return code.  STOW_IFF_CC_PDS_UPDATE_UNSUPPORTED is none of them: a PDS
\* returns it, and only a member with extended attributes, in a PDSE, comes here.
UpdateFails(p) ==
  /\ pc[p] = "update"
  /\ Returns(p, OtherError)
  /\ UNCHANGED <<setup, queue, timestamp, seen>> /\ NotEntered

\* write_pds_member_dir_entry: STOW R replaces whatever entry there is, or adds one,
\* with return codes that both count as success.  Whether a PDSE then has extended
\* attributes of the member is up to the system.
Replace(p) ==
  /\ pc[p] = "replace"
  /\ \E ext \in {FALSE, kind = "PDSE"} : Enters(p, ext)
  /\ Returns(p, 0)
  /\ UNCHANGED <<setup, queue, timestamp, seen>>

ReplaceFails(p) ==
  /\ pc[p] = "replace"
  /\ Returns(p, OtherError)
  /\ UNCHANGED <<setup, queue, timestamp, seen>> /\ NotEntered

-----------------------------------------------------------------------------
DequeueUnlessFailed(p) ==   \* mutant: a program that fails keeps the ENQ and lives on
  /\ pc[p] = "returned"
  /\ queue' = IF queue = p /\ rc[p] = 0 THEN Nobody ELSE queue
  /\ GoTo(p, "ended")
  /\ UNCHANGED <<setup, rc, timestamp, seen>> /\ NotEntered

\* The caller: deq_dataset_member after an entry that was made; otherwise, or when
\* the DEQ fails, main returns, and the system gives the ENQ back (external).
Ends(p) ==
  /\ pc[p] = "returned"
  /\ queue' = IF queue = p THEN Nobody ELSE queue
  /\ GoTo(p, "ended")
  /\ UNCHANGED <<setup, rc, timestamp, seen>> /\ NotEntered

Step(p) ==
  \/ Enq(p) \/ NoEnq(p) \/ GivesUp(p) \/ NoStorage(p)
  \/ CannotCreate(p) \/ Create(p) \/ CreateFails(p)
  \/ Deserv(p) \/ NoTimestamp(p) \/ DeservFails(p)
  \/ Update(p) \/ UpdateFails(p)
  \/ Replace(p) \/ ReplaceFails(p)
  \/ Ends(p)

Next == \E p \in Programs : Step(p)

\* Each program goes on until it ends; the ENQ does not make it wait.
Spec == Init /\ [][Next]_vars /\ \A p \in Programs : WF_vars(Step(p))

-----------------------------------------------------------------------------
(* Properties *)

Places == {"start", "create", "deserv", "update", "replace", "returned", "ended"}

DirTypeOK ==
  /\ kind \in {"PDS", "PDSE"}
  /\ mode \in [Programs -> {"create", "update"}]
  /\ enqs \in SUBSET Programs
  /\ entry \in Entries \cup {NoEntry}
  /\ clock \in Nat
  /\ queue \in {Nobody} \cup enqs
  /\ queue # Nobody => pc[queue] \notin {"start", "ended"}
  /\ pc \in [Programs -> Places]
  /\ rc \in [Programs -> Codes]
  /\ timestamp \in [Programs -> Nat]
  /\ seen \in [Programs -> Entries \cup {NoEntry}]
  /\ entered \in SUBSET Programs

\* What write_member_dir_entry returns is the truth about the directory: 0 when the
\* program's entry was made, by whichever of STOW IFF and STOW R, and another code
\* when it was not.
ReturnTellsTruth ==
  \A p \in Programs :
    IF pc[p] \in {"returned", "ended"} THEN rc[p] = 0 <=> p \in entered
                                       ELSE p \notin entered

\* A member that is written anew does not replace, in a PDSE, an entry other than
\* the one DESERV showed the program: STOW IFF fails when another program was faster.
NoBlindReplace ==
  [][\A p \in Programs :
       kind = "PDSE" /\ mode[p] = "create" /\ entry # NoEntry /\ p \notin entered /\ p \in entered'
         => entry = seen[p]]_vars

\* bpamio.h:105-107: the ENQ lets programs co-operate.  When all take it, no program
\* changes the entry between another one's DESERV and its STOW: the timestamp is
\* never out of date.
EnqProtectsUpdate ==
  enqs = Programs =>
    \A p \in Programs : pc[p] = "update" => entry = seen[p] /\ entry.stamp = timestamp[p]

\* No program waits for another forever, whatever fails while the ENQ is held, and
\* in the end nobody holds it.
AllEnd == <>[](queue = Nobody /\ \A p \in Programs : pc[p] = "ended")
=============================================================================
