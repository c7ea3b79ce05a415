----------------------------- MODULE PdsHandle ------------------------------
(***************************************************************************)
(* What open_pds_for_read, open_pds_for_write, open_pds_for_update and     *)
(* close_pds (services/src/bpamio.c) obtain and give back, with the        *)
(* services of core/ they use: dynamic allocation (iosvcs.c, s99.c), the   *)
(* DCB (ihadcb.c), OPEN and CLOSE (dio.c) and storage (mem.c).  Any        *)
(* request can fail.                                                       *)
(*                                                                         *)
(* bh[h] is one open and the close that goes with it: at is the next       *)
(* request of the call, or where the handle is between calls; held the     *)
(* pieces of storage obtained for it and not freed; dd and dcb whether its *)
(* DD is allocated and its DCB open; told what the call has returned, or   *)
(* is bound to return.  freed is history: the lengths with which the block *)
(* was given back.                                                         *)
(***************************************************************************)
EXTENDS Naturals, Sequences

CONSTANTS Handles,
          Writers,    \* those on which short blocks of a fixed data set are written
          BlkSizes    \* the block sizes data sets can have

ASSUME HandleAssumption == Writers \subseteq Handles /\ BlkSizes \subseteq Nat \ {0}

VARIABLE bh

\* The handle, the storage its fields point to, and the DCBE the DCB points to.
Storage == {"handle", "dcb", "dcbe", "opencb", "decb", "block"}

\* What s99_init obtains, in this order, and then the text units.
RequestBlocks == <<"textunit", "rbx", "rb">>
Units == {"dsn", "ddname", "stats"}
Request == {"textunit", "rbx", "rb"} \cup Units

Opening == {"name", "alloc", "SVC 99 alloc", "dcb", "dcbe", "opencb", "OPEN", "dsorg",
            "decb", "block"}
Closing == {"CLOSE", "unfree", "SVC 99 unfree"}

Init ==
  bh = [h \in Handles |-> [at |-> "none", held |-> {}, dd |-> FALSE, dcb |-> FALSE,
                           block_size |-> 0, dcbblksi |-> 0, told |-> "nothing", freed |-> {}]]

Becomes(h, r) == bh' = [bh EXCEPT ![h] = r]

Failed(r) == [r EXCEPT !.at = "gone", !.told = "failure"]
Obtained(r, pieces, next) == [r EXCEPT !.held = @ \cup pieces, !.at = next]

\* The call returns a failure (NULL, for an open), and nothing else is done.
Fail(h) == Becomes(h, Failed(bh[h]))

\* MALLOC24 or MALLOC31 of the piece the call has come to.
Obtain(h, next) ==
  \/ Becomes(h, Obtained(bh[h], {bh[h].at}, next))
  \/ Fail(h)

-----------------------------------------------------------------------------
(* SVC 99 requests                                                         *)

\* A text unit without storage is not noticed: its pointer in the list is null.
s99_init(h, units, next) ==
  \E some \in SUBSET units :
    Becomes(h, Obtained(bh[h], {"textunit", "rbx", "rb"} \cup some, next))

\* Storage runs out: what s99_init obtained before stays.
Leftover(r) == {[r EXCEPT !.held = @ \cup {RequestBlocks[i] : i \in 1..n}] : n \in 0..2}

NotFreed(r) == r   \* mutant: an error path of dsdd_alloc without s99_free
s99_free(r) == [r EXCEPT !.held = @ \ Request]

init_dsnam_text_unit(h) ==
  /\ bh[h].at = "name"
  /\ Becomes(h, [bh[h] EXCEPT !.at = "alloc"]) \/ Fail(h)

dsdd_alloc_init(h) ==
  /\ bh[h].at = "alloc"
  /\ \/ s99_init(h, Units, "SVC 99 alloc")
     \/ \E r \in Leftover(bh[h]) : Becomes(h, Failed(r))

\* The system refuses a request with a null text unit, or any other.
dsdd_alloc(h) ==
  /\ bh[h].at = "SVC 99 alloc"
  /\ \/ /\ Units \subseteq bh[h].held
        /\ Becomes(h, [s99_free(bh[h]) EXCEPT !.dd = TRUE, !.at = "dcb"])
     \/ Becomes(h, Failed(s99_free(bh[h])))

-----------------------------------------------------------------------------
(* Opening                                                                 *)

open_pds(h) ==
  /\ bh[h].at = "none"
  /\ \/ Becomes(h, Obtained(bh[h], {"handle"}, "name"))
     \/ Fail(h)

\* The DCB and then the DCBE; without the second the first is forgotten.
dcb_init(h) ==
  \/ bh[h].at = "dcb" /\ Obtain(h, "dcbe")
  \/ bh[h].at = "dcbe" /\ Obtain(h, "opencb")

\* A data set that is not partitioned is noticed when it is open.
bpam_open(h) ==
  \/ bh[h].at = "opencb" /\ Obtain(h, "OPEN")
  \/ bh[h].at = "dsorg" /\ (Becomes(h, [bh[h] EXCEPT !.at = "decb"]) \/ Fail(h))
  \/ bh[h].at = "decb" /\ Obtain(h, "block")

\* OPEN fails with a return code, or with an abend that the handler turns into one.
OPEN(h) ==
  /\ bh[h].at = "OPEN"
  /\ \/ \E size \in BlkSizes :
          Becomes(h, [bh[h] EXCEPT !.dcb = TRUE, !.dcbblksi = size, !.at = "dsorg"])
     \/ Fail(h)

BlockWithPrefix(h) ==   \* mutant: the length of the block is taken to have a prefix
  /\ bh[h].at = "block"
  /\ \/ Becomes(h, [Obtained(bh[h], {"block"}, "opened") EXCEPT !.block_size = bh[h].dcbblksi + 4])
     \/ Fail(h)

ObtainBlock(h) ==
  /\ bh[h].at = "block"
  /\ \/ Becomes(h, [Obtained(bh[h], {"block"}, "opened") EXCEPT !.block_size = bh[h].dcbblksi])
     \/ Fail(h)

\* write_block of a fixed data set leaves the length of the block in the DCB.
WriteShortBlock(h) ==
  /\ bh[h].at = "opened"
  /\ h \in Writers
  /\ \E used \in 1..bh[h].block_size : Becomes(h, [bh[h] EXCEPT !.dcbblksi = used])

-----------------------------------------------------------------------------
(* Closing                                                                 *)

LengthOfLastBlock(r) == r.dcbblksi   \* mutant: the block is freed with the DCB's length
LengthFreed(r) == r.block_size

\* FREE24 and FREE31 of block, DECB, open list and, by dcb_free, DCB; not the DCBE.
OpenStorageFreed(r) ==
  [r EXCEPT !.held = @ \ {"block", "decb", "opencb", "dcb"},
            !.freed = @ \cup {LengthFreed(r)}]

FreedFirst(h) ==   \* mutant: the storage is freed before CLOSE
  /\ bh[h].at = "opened"
  /\ Becomes(h, [OpenStorageFreed(bh[h]) EXCEPT !.at = "CLOSE"])

\* Without storage for the close list the DCB stays open, while its storage and then
\* its DD are freed.
close_pds(h) ==
  /\ bh[h].at = "opened"
  /\ \/ Becomes(h, [bh[h] EXCEPT !.at = "CLOSE"])
     \/ Becomes(h, [OpenStorageFreed(bh[h]) EXCEPT !.told = "failure", !.at = "unfree"])

\* When CLOSE fails ddfree is not called: the DD stays allocated, and no one knows its
\* name any more.
CLOSE(h) ==
  /\ bh[h].at = "CLOSE"
  /\ \/ Becomes(h, [bh[h] EXCEPT !.dcb = FALSE, !.at = "unfree"])
     \/ Becomes(h, [Failed(OpenStorageFreed(bh[h])) EXCEPT !.held = @ \ {"handle"}])

ddfree_init(h) ==
  /\ bh[h].at = "unfree"
  /\ \/ s99_init(h, {"ddname"}, "SVC 99 unfree")
     \/ \E r \in Leftover(bh[h]) : Becomes(h, [Failed(r) EXCEPT !.held = @ \ {"handle"}])

\* After ddfree close_pds frees the handle, whatever the code, and returns the code.
Unfreed(r) ==
  [s99_free(r) EXCEPT !.dd = FALSE, !.held = @ \ {"handle"}, !.at = "gone",
                      !.told = IF @ = "failure" THEN @ ELSE "success"]

ddfree(h) ==
  /\ bh[h].at = "SVC 99 unfree"
  /\ "ddname" \in bh[h].held
  /\ Becomes(h, Unfreed(bh[h]))

UnfreeFailsUnsaid(h) ==   \* mutant: close_pds does not return the code of ddfree
  /\ bh[h].at = "SVC 99 unfree"
  /\ Becomes(h, [Unfreed(bh[h]) EXCEPT !.dd = TRUE])

UnfreeFails(h) ==
  /\ bh[h].at = "SVC 99 unfree"
  /\ Becomes(h, [Failed(s99_free(bh[h])) EXCEPT !.held = @ \ {"handle"}])

Next ==
  \E h \in Handles :
    \/ open_pds(h) \/ init_dsnam_text_unit(h) \/ dsdd_alloc_init(h) \/ dsdd_alloc(h)
    \/ dcb_init(h) \/ bpam_open(h) \/ OPEN(h) \/ ObtainBlock(h) \/ WriteShortBlock(h)
    \/ close_pds(h) \/ CLOSE(h) \/ ddfree_init(h) \/ ddfree(h) \/ UnfreeFails(h)

Spec == Init /\ [][Next]_bh

-----------------------------------------------------------------------------
TypeOK ==
  bh \in [Handles -> [at: {"none", "opened", "gone"} \cup Opening \cup Closing,
                      held: SUBSET (Storage \cup Request), dd: BOOLEAN, dcb: BOOLEAN,
                      block_size: BlkSizes \cup {0}, dcbblksi: Nat,
                      told: {"nothing", "failure", "success"}, freed: SUBSET BlkSizes]]

\* As long as a call may still use it, an open DCB has its own storage, the DCBE its
\* exits are in, and the DD it was opened with; and a handle given to the caller has all
\* of its storage (bpam_open, close_pds).
OpenIsWhole ==
  \A h \in Handles :
    /\ bh[h].dcb /\ bh[h].told # "failure" =>
         bh[h].dd /\ {"handle", "dcb", "dcbe", "opencb"} \subseteq bh[h].held
    /\ bh[h].at \in {"opened", "CLOSE"} => bh[h].dcb /\ Storage \subseteq bh[h].held

\* FREE24 takes a length: the block is given back with the length it was obtained with,
\* whatever short blocks have made of the DCB's (close_pds, write_block).
BlockFreedWhole ==
  \A h \in Handles : bh[h].freed \subseteq {bh[h].block_size}

\* A call that returns with its DD allocated or its DCB open has said that it failed;
\* close_pds frees the handle on each of its returns, and returns before it has asked
\* SVC 99 to free the DD only when CLOSE failed and the DCB is open still.  That exception
\* (bpamio.c:936-945) is against basicddfreetest.c, which has it as a defect that was
\* fixed (:24-27, "close_pds() (bpamio.c) did not call ddfree() when CLOSE failed"; :36,
\* "on CLOSE failure: ddfree()+free(bh) before return"): the handle is freed, the DD not.
\* That a failed open leaves its DD, storage and DCB behind is not denied, only told.
NoSilentLeak ==
  [][\A h \in Handles :
       bh[h].at # "gone" /\ bh'[h].at = "gone" =>
         /\ bh'[h].dd \/ bh'[h].dcb => bh'[h].told = "failure"
         /\ bh[h].at \in {"opened"} \cup Closing => "handle" \notin bh'[h].held
         /\ bh[h].at \in {"opened", "CLOSE"} /\ bh'[h].dd =>
              bh[h].at = "CLOSE" /\ bh'[h].dcb]_bh

\* The storage of an SVC 99 request is freed on every path but that of s99_init itself
\* running out of it, and then there is no request yet (dsdd_alloc, ddfree, s99_init).
RequestsFreed ==
  \A h \in Handles :
    bh[h].at \notin {"SVC 99 alloc", "SVC 99 unfree"} =>
      /\ bh[h].held \cap Request \subseteq {"textunit", "rbx"}
      /\ bh[h].held \cap Request # {} => bh[h].at = "gone" /\ bh[h].told = "failure"

\* "Close the PDS ... and free any allocated storage associated with the handle"
\* (bpamio.h:98): nothing of a handle is held after a close that succeeded.
CloseFreesStorage ==
  \A h \in Handles : bh[h].told = "success" => bh[h].held = {}
=============================================================================
