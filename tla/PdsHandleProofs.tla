-------------------------- MODULE PdsHandleProofs ---------------------------
(***************************************************************************)
(* Proofs of the invariants of PdsHandle, for any number of handles and    *)
(* any block sizes.                                                        *)
(***************************************************************************)
EXTENDS PdsHandle, TLAPS

\* What a handle has when the call has come to a place.
Needed(place) ==
  CASE place \in {"name", "alloc", "SVC 99 alloc", "dcb"} -> {"handle"}
    [] place = "dcbe" -> {"handle", "dcb"}
    [] place = "opencb" -> {"handle", "dcb", "dcbe"}
    [] place \in {"OPEN", "dsorg", "decb"} -> {"handle", "dcb", "dcbe", "opencb"}
    [] place = "block" -> {"handle", "dcb", "dcbe", "opencb", "decb"}
    [] place \in {"opened", "CLOSE"} -> Storage
    [] OTHER -> {}

IsOpen == {"dsorg", "decb", "block", "opened", "CLOSE"}
HasDD == {"dcb", "dcbe", "opencb", "OPEN"} \cup IsOpen

Types == [at: {"none", "opened", "gone"} \cup Opening \cup Closing,
          held: SUBSET (Storage \cup Request), dd: BOOLEAN, dcb: BOOLEAN,
          block_size: BlkSizes \cup {0}, dcbblksi: Nat,
          told: {"nothing", "failure", "success"}, freed: SUBSET BlkSizes]

\* The storage a call has obtained before it goes on.
HoldsInv(r) == Needed(r.at) \subseteq r.held

\* DD and DCB follow the place of the call; only a failure leaves them behind.
PlaceInv(r) ==
  /\ r.at \in HasDD => r.dd
  /\ r.at \in IsOpen => r.dcb
  /\ r.dcb => r.at \in IsOpen \/ r.told = "failure"
  /\ r.dd /\ r.at = "gone" => r.told = "failure"
  /\ r.told # "nothing" => r.at \in {"unfree", "SVC 99 unfree", "gone"}
  /\ r.told = "success" => r.at = "gone"
  /\ r.at = "gone" => r.told # "nothing"

\* The sizes of the block: as obtained, and as given back.
SizeInv(r) ==
  /\ r.at \in {"dsorg", "decb", "block"} => r.dcbblksi \in BlkSizes
  /\ r.at \in {"opened", "CLOSE"} => r.block_size \in BlkSizes
  /\ r.at \in {"none", "opened", "CLOSE"} \cup Opening => r.freed = {}
  /\ r.freed \subseteq {r.block_size}

RequestInv(r) ==
  r.at \notin {"SVC 99 alloc", "SVC 99 unfree"} =>
    /\ r.held \cap Request \subseteq {"textunit", "rbx"}
    /\ r.held \cap Request # {} => r.at = "gone" /\ r.told = "failure"

HandleInv(r) ==
  r \in Types /\ HoldsInv(r) /\ PlaceInv(r) /\ SizeInv(r) /\ RequestInv(r)

Inv == bh \in [Handles -> Types] /\ \A h \in Handles : HandleInv(bh[h])

\* A step changes one handle: it is enough to look at what becomes of it.
LEMMA OneHandle ==
  ASSUME Inv, NEW h \in Handles, NEW r, Becomes(h, r), HandleInv(r)
  PROVE  Inv'
BY DEF Inv, Becomes, HandleInv

\* What a failure makes of a handle.
LEMMA FailedInv ==
  ASSUME NEW r, r \in Types, SizeInv(r),
         r.held \cap Request \subseteq {"textunit", "rbx"}
  PROVE  HandleInv(Failed(r))
<1> DEFINE f == Failed(r)
<1>1. /\ f.at = "gone" /\ f.told = "failure" /\ f.held = r.held /\ f.dd = r.dd
      /\ f.dcb = r.dcb /\ f.block_size = r.block_size /\ f.dcbblksi = r.dcbblksi
      /\ f.freed = r.freed /\ f \in Types
  BY DEF Failed, Types
<1> HIDE DEF f
<1>2. HoldsInv(f) /\ PlaceInv(f) /\ RequestInv(f)
  BY <1>1 DEF HoldsInv, PlaceInv, RequestInv, Needed, HasDD, IsOpen
<1>3. SizeInv(f)
  BY <1>1 DEF SizeInv, Opening
<1> QED
  BY <1>1, <1>2, <1>3 DEF HandleInv, f

\* No request is open at a place outside SVC 99.
LEMMA FailStep ==
  ASSUME Inv, NEW h \in Handles, Fail(h), bh[h].at \notin {"SVC 99 alloc", "SVC 99 unfree"}
  PROVE  Inv'
<1>1. HandleInv(bh[h])
  BY DEF Inv
<1>2. HandleInv(Failed(bh[h]))
  BY <1>1, FailedInv DEF HandleInv, RequestInv
<1> QED
  BY <1>2, OneHandle DEF Fail

\* A call that obtains storage of the handle, or does not, and goes on.
LEMMA ObtainedInv ==
  ASSUME NEW r, HandleInv(r), NEW pieces \in SUBSET Storage, NEW next \in Opening,
         r.at \in {"none"} \cup Opening, r.at \notin {"SVC 99 alloc"}, next \notin {"SVC 99 alloc"},
         Needed(next) \subseteq r.held \cup pieces,
         next \in HasDD => r.at \in HasDD, next \in IsOpen <=> r.at \in IsOpen
  PROVE  HandleInv(Obtained(r, pieces, next))
<1> DEFINE n == Obtained(r, pieces, next)
<1>1. /\ n.at = next /\ n.held = r.held \cup pieces /\ n.dd = r.dd /\ n.dcb = r.dcb
      /\ n.told = r.told /\ n.block_size = r.block_size /\ n.dcbblksi = r.dcbblksi
      /\ n.freed = r.freed /\ n \in Types
  BY DEF Obtained, HandleInv, Types
<1> HIDE DEF n
<1>2. HoldsInv(n)
  BY <1>1 DEF HoldsInv
<1>3. PlaceInv(n)
  BY <1>1 DEF HandleInv, PlaceInv, HasDD, IsOpen, Opening
<1>4. SizeInv(n)
  BY <1>1 DEF HandleInv, SizeInv, IsOpen, Opening, Types
<1>5. RequestInv(n)
  <2>1. pieces \cap Request = {}
    BY DEF Storage, Request, Units
  <2> QED
    BY <1>1, <2>1 DEF HandleInv, RequestInv, Opening
<1> QED
  BY <1>1, <1>2, <1>3, <1>4, <1>5 DEF HandleInv, n

\* What becomes of a handle when only some of its fields change.
LEMMA OpenStep ==
  ASSUME Inv, NEW h \in Handles,
         open_pds(h) \/ init_dsnam_text_unit(h) \/ dcb_init(h) \/ bpam_open(h)
  PROVE  Inv'
<1> DEFINE r == bh[h]
<1>1. HandleInv(r)
  BY DEF Inv
<1>2. ASSUME NEW pieces \in SUBSET Storage, NEW next \in Opening,
             r.at \in {"none"} \cup Opening, r.at # "SVC 99 alloc", next # "SVC 99 alloc",
             Needed(next) \subseteq r.held \cup pieces,
             next \in HasDD => r.at \in HasDD, next \in IsOpen <=> r.at \in IsOpen,
             Becomes(h, Obtained(r, pieces, next)) \/ Fail(h)
      PROVE  Inv'
  <2>1. CASE Becomes(h, Obtained(r, pieces, next))
    <3>1. HandleInv(Obtained(r, pieces, next))
      BY <1>1, <1>2, ObtainedInv
    <3> QED
      BY <2>1, <3>1, OneHandle
  <2>2. CASE Fail(h)
    BY <1>2, <2>2, FailStep DEF Opening
  <2> QED
    BY <1>2, <2>1, <2>2
<1>3. CASE open_pds(h)
  <2>1. {"handle"} \in SUBSET Storage /\ "name" \in Opening /\ Needed("name") = {"handle"}
    BY DEF Storage, Opening, Needed
  <2> QED
    BY <1>2, <1>3, <2>1 DEF open_pds, HasDD, IsOpen
<1>4. CASE init_dsnam_text_unit(h)
  <2>1. Obtained(r, {}, "alloc") = [r EXCEPT !.at = "alloc"]
    BY <1>1 DEF Obtained, HandleInv, Types
  <2>2. {} \in SUBSET Storage /\ "alloc" \in Opening /\ Needed("alloc") \subseteq r.held
    BY <1>1, <1>4 DEF init_dsnam_text_unit, Opening, Needed, HandleInv, HoldsInv
  <2> QED
    BY <1>2, <1>4, <2>1, <2>2 DEF init_dsnam_text_unit, HasDD, IsOpen, Opening
<1>5. CASE dcb_init(h)
  <2>1. CASE r.at = "dcb" /\ Obtain(h, "dcbe")
    <3>1. {"dcb"} \in SUBSET Storage /\ "dcbe" \in Opening /\ Needed("dcbe") \subseteq r.held \cup {"dcb"}
      BY <1>1, <2>1 DEF Storage, Opening, Needed, HandleInv, HoldsInv
    <3> QED
      BY <1>2, <2>1, <3>1 DEF Obtain, HasDD, IsOpen, Opening
  <2>2. CASE r.at = "dcbe" /\ Obtain(h, "opencb")
    <3>1. {"dcbe"} \in SUBSET Storage /\ "opencb" \in Opening /\ Needed("opencb") \subseteq r.held \cup {"dcbe"}
      BY <1>1, <2>2 DEF Storage, Opening, Needed, HandleInv, HoldsInv
    <3> QED
      BY <1>2, <2>2, <3>1 DEF Obtain, HasDD, IsOpen, Opening
  <2> QED
    BY <1>5, <2>1, <2>2 DEF dcb_init
<1>6. CASE bpam_open(h)
  <2>1. CASE r.at = "opencb" /\ Obtain(h, "OPEN")
    <3>1. {"opencb"} \in SUBSET Storage /\ "OPEN" \in Opening /\ Needed("OPEN") \subseteq r.held \cup {"opencb"}
      BY <1>1, <2>1 DEF Storage, Opening, Needed, HandleInv, HoldsInv
    <3> QED
      BY <1>2, <2>1, <3>1 DEF Obtain, HasDD, IsOpen, Opening
  <2>2. CASE r.at = "dsorg" /\ (Becomes(h, [r EXCEPT !.at = "decb"]) \/ Fail(h))
    <3>1. Obtained(r, {}, "decb") = [r EXCEPT !.at = "decb"]
      BY <1>1 DEF Obtained, HandleInv, Types
    <3>2. {} \in SUBSET Storage /\ "decb" \in Opening /\ Needed("decb") \subseteq r.held
      BY <1>1, <2>2 DEF Opening, Needed, HandleInv, HoldsInv
    <3> QED
      BY <1>2, <2>2, <3>1, <3>2 DEF HasDD, IsOpen, Opening
  <2>3. CASE r.at = "decb" /\ Obtain(h, "block")
    <3>1. {"decb"} \in SUBSET Storage /\ "block" \in Opening /\ Needed("block") \subseteq r.held \cup {"decb"}
      BY <1>1, <2>3 DEF Storage, Opening, Needed, HandleInv, HoldsInv
    <3> QED
      BY <1>2, <2>3, <3>1 DEF Obtain, HasDD, IsOpen, Opening
  <2> QED
    BY <1>6, <2>1, <2>2, <2>3 DEF bpam_open
<1> QED
  BY <1>3, <1>4, <1>5, <1>6

\* OPEN and the block make the handle one that a caller may have.
LEMMA DcbStep ==
  ASSUME Inv, NEW h \in Handles, OPEN(h) \/ ObtainBlock(h) \/ WriteShortBlock(h)
  PROVE  Inv'
<1> DEFINE r == bh[h]
<1>1. HandleInv(r)
  BY DEF Inv
<1>2. CASE OPEN(h)
  <2>1. ASSUME NEW size \in BlkSizes,
               Becomes(h, [r EXCEPT !.dcb = TRUE, !.dcbblksi = size, !.at = "dsorg"])
        PROVE  Inv'
    <3> DEFINE n == [r EXCEPT !.dcb = TRUE, !.dcbblksi = size, !.at = "dsorg"]
    <3>1. /\ n.at = "dsorg" /\ n.held = r.held /\ n.dd = r.dd /\ n.dcb = TRUE
          /\ n.told = r.told /\ n.block_size = r.block_size /\ n.dcbblksi = size
          /\ n.freed = r.freed /\ n \in Types
      BY <1>1, HandleAssumption DEF HandleInv, Types, Opening
    <3> HIDE DEF n
    <3>2. HandleInv(n)
      BY <1>1, <1>2, <3>1 DEF OPEN, HandleInv, HoldsInv, PlaceInv, SizeInv, RequestInv, Needed,
                              HasDD, IsOpen, Opening
    <3> QED
      BY <2>1, <3>2, OneHandle DEF n
  <2>2. CASE Fail(h)
    BY <1>2, <2>2, FailStep DEF OPEN
  <2> QED
    BY <1>2, <2>1, <2>2 DEF OPEN
<1>3. CASE ObtainBlock(h)
  <2>1. ASSUME Becomes(h, [Obtained(r, {"block"}, "opened") EXCEPT !.block_size = r.dcbblksi])
        PROVE  Inv'
    <3> DEFINE n == [Obtained(r, {"block"}, "opened") EXCEPT !.block_size = r.dcbblksi]
    <3>1. r.dcbblksi \in BlkSizes
      BY <1>1, <1>3 DEF ObtainBlock, HandleInv, SizeInv
    <3>2. /\ n.at = "opened" /\ n.held = r.held \cup {"block"} /\ n.dd = r.dd /\ n.dcb = r.dcb
          /\ n.told = r.told /\ n.block_size = r.dcbblksi /\ n.dcbblksi = r.dcbblksi
          /\ n.freed = r.freed /\ n \in Types
      BY <1>1, <3>1 DEF HandleInv, Types, Obtained, Storage
    <3> HIDE DEF n
    <3>3. HoldsInv(n) /\ RequestInv(n)
      BY <1>1, <1>3, <3>2 DEF ObtainBlock, HandleInv, HoldsInv, RequestInv, Needed, Storage,
                              Request, Units
    <3>4. PlaceInv(n) /\ SizeInv(n)
      BY <1>1, <1>3, <3>1, <3>2 DEF ObtainBlock, HandleInv, PlaceInv, SizeInv, HasDD, IsOpen, Opening
    <3> QED
      BY <2>1, <3>2, <3>3, <3>4, OneHandle DEF n, HandleInv
  <2>2. CASE Fail(h)
    BY <1>3, <2>2, FailStep DEF ObtainBlock
  <2> QED
    BY <1>3, <2>1, <2>2 DEF ObtainBlock
<1>4. CASE WriteShortBlock(h)
  <2>1. PICK used \in 1..r.block_size : Becomes(h, [r EXCEPT !.dcbblksi = used])
    BY <1>4 DEF WriteShortBlock
  <2> DEFINE n == [r EXCEPT !.dcbblksi = used]
  <2>2. used \in Nat
    BY <1>1, HandleAssumption DEF HandleInv, Types
  <2>3. /\ n.at = r.at /\ n.held = r.held /\ n.dd = r.dd /\ n.dcb = r.dcb
        /\ n.told = r.told /\ n.block_size = r.block_size /\ n.dcbblksi = used
        /\ n.freed = r.freed /\ n \in Types
    BY <1>1, <2>2 DEF HandleInv, Types
  <2> HIDE DEF n
  <2>4. HandleInv(n)
    BY <1>1, <1>4, <2>3 DEF WriteShortBlock, HandleInv, HoldsInv, PlaceInv, SizeInv, RequestInv
  <2> QED
    BY <2>1, <2>4, OneHandle DEF n
<1> QED
  BY <1>2, <1>3, <1>4

\* Between the requests of SVC 99 a call that reports a failure may leave anything but
\* the request itself.
LEMMA LeftInv ==
  ASSUME NEW r, r \in Types, SizeInv(r), NEW held \in SUBSET (Storage \cup Request),
         held \cap Request \subseteq {"textunit", "rbx"}
  PROVE  HandleInv([Failed(r) EXCEPT !.held = held])
<1> DEFINE q == [r EXCEPT !.held = held]
<1>1. /\ q \in Types /\ q.held = held /\ q.at = r.at /\ q.freed = r.freed
      /\ q.block_size = r.block_size /\ q.dcbblksi = r.dcbblksi
  BY DEF Types
<1>2. [Failed(r) EXCEPT !.held = held] = Failed(q)
  BY DEF Failed, Types
<1> HIDE DEF q
<1>3. SizeInv(q)
  BY <1>1 DEF SizeInv
<1> QED
  BY <1>1, <1>2, <1>3, FailedInv

\* Storage that runs out in s99_init leaves no more than the first two of its blocks.
LEMMA LeftoverHeld ==
  ASSUME NEW r, HandleInv(r), r.at \in {"alloc", "unfree"}, NEW q \in Leftover(r)
  PROVE  /\ q = [r EXCEPT !.held = q.held]
         /\ q.held \in SUBSET (Storage \cup Request)
         /\ q.held \cap Request \subseteq {"textunit", "rbx"}
<1>1. PICK n \in 0..2 : q = [r EXCEPT !.held = @ \cup {RequestBlocks[i] : i \in 1..n}]
  BY DEF Leftover
<1>2. {RequestBlocks[i] : i \in 1..n} \subseteq {"textunit", "rbx"}
  <2>1. ASSUME NEW i \in 1..n PROVE RequestBlocks[i] \in {"textunit", "rbx"}
    <3>1. i = 1 \/ i = 2
      OBVIOUS
    <3> QED
      BY <3>1 DEF RequestBlocks
  <2> QED
    BY <2>1
<1>3. q.held = r.held \cup {RequestBlocks[i] : i \in 1..n} /\ q = [r EXCEPT !.held = q.held]
  BY <1>1 DEF HandleInv, Types
<1> QED
  BY <1>2, <1>3 DEF HandleInv, RequestInv, Types, Request

\* A request about to be made.
LEMMA InitInv ==
  ASSUME NEW r, HandleInv(r), NEW units \in SUBSET Units,
         NEW next, \/ r.at = "alloc" /\ next = "SVC 99 alloc"
                   \/ r.at = "unfree" /\ next = "SVC 99 unfree"
  PROVE  HandleInv(Obtained(r, {"textunit", "rbx", "rb"} \cup units, next))
<1> DEFINE n == Obtained(r, {"textunit", "rbx", "rb"} \cup units, next)
<1>1. /\ n.at = next /\ n.held = r.held \cup ({"textunit", "rbx", "rb"} \cup units)
      /\ n.dd = r.dd /\ n.dcb = r.dcb /\ n.told = r.told /\ n.block_size = r.block_size
      /\ n.dcbblksi = r.dcbblksi /\ n.freed = r.freed /\ n \in Types
  BY DEF Obtained, HandleInv, Types, Request, Opening, Closing
<1> HIDE DEF n
<1>2. HoldsInv(n) /\ RequestInv(n)
  BY <1>1 DEF HandleInv, HoldsInv, RequestInv, Needed
<1>3. PlaceInv(n) /\ SizeInv(n)
  BY <1>1 DEF HandleInv, PlaceInv, SizeInv, HasDD, IsOpen, Opening
<1> QED
  BY <1>1, <1>2, <1>3 DEF HandleInv, n

\* s99_init keeps the invariant, whichever of its text units get no storage.
LEMMA InitStep ==
  ASSUME Inv, NEW h \in Handles, dsdd_alloc_init(h) \/ ddfree_init(h)
  PROVE  Inv'
<1> DEFINE r == bh[h]
<1>1. HandleInv(r) /\ r.at \in {"alloc", "unfree"}
  BY DEF Inv, dsdd_alloc_init, ddfree_init
<1>2. ASSUME NEW units \in SUBSET Units, NEW next,
             \/ r.at = "alloc" /\ next = "SVC 99 alloc"
             \/ r.at = "unfree" /\ next = "SVC 99 unfree",
             Becomes(h, Obtained(r, {"textunit", "rbx", "rb"} \cup units, next))
      PROVE  Inv'
  BY <1>1, <1>2, InitInv, OneHandle
<1>3. ASSUME NEW q \in Leftover(r), Becomes(h, [Failed(q) EXCEPT !.held = @ \ {"handle"}])
      PROVE  Inv'
  <2> DEFINE held == q.held \ {"handle"}
  <2>1. /\ q = [r EXCEPT !.held = q.held] /\ q.held \in SUBSET (Storage \cup Request)
        /\ q.held \cap Request \subseteq {"textunit", "rbx"}
    BY <1>1, LeftoverHeld
  <2>2. [Failed(q) EXCEPT !.held = @ \ {"handle"}] = [Failed(r) EXCEPT !.held = held]
    BY <1>1, <2>1 DEF Failed, HandleInv, Types
  <2>3. held \in SUBSET (Storage \cup Request) /\ held \cap Request \subseteq {"textunit", "rbx"}
    BY <2>1
  <2> HIDE DEF held
  <2>4. HandleInv([Failed(r) EXCEPT !.held = held])
    BY <1>1, <2>3, LeftInv DEF HandleInv
  <2> QED
    BY <1>3, <2>2, <2>4, OneHandle
<1>4. CASE dsdd_alloc_init(h)
  <2>1. CASE s99_init(h, Units, "SVC 99 alloc")
    BY <1>2, <1>4, <2>1 DEF s99_init, dsdd_alloc_init
  <2>2. CASE \E q \in Leftover(r) : Becomes(h, Failed(q))
    <3>1. PICK q \in Leftover(r) : Becomes(h, Failed(q))
      BY <2>2
    <3>2. q \in Types /\ SizeInv(q) /\ q.held \cap Request \subseteq {"textunit", "rbx"}
      <4>1. /\ q = [r EXCEPT !.held = q.held] /\ q.held \in SUBSET (Storage \cup Request)
            /\ q.held \cap Request \subseteq {"textunit", "rbx"}
        BY <1>1, LeftoverHeld
      <4>2. r \in Types /\ SizeInv(r)
        BY <1>1 DEF HandleInv
      <4>3. /\ q \in Types /\ q.at = r.at /\ q.dcbblksi = r.dcbblksi
            /\ q.block_size = r.block_size /\ q.freed = r.freed
        BY <4>1, <4>2 DEF Types
      <4> QED
        BY <4>1, <4>2, <4>3 DEF SizeInv
    <3>3. HandleInv(Failed(q))
      BY <3>2, FailedInv
    <3> QED
      BY <3>1, <3>3, OneHandle
  <2> QED
    BY <1>4, <2>1, <2>2 DEF dsdd_alloc_init
<1>5. CASE ddfree_init(h)
  <2>1. CASE s99_init(h, {"ddname"}, "SVC 99 unfree")
    <3>1. PICK some \in SUBSET {"ddname"} :
            Becomes(h, Obtained(r, {"textunit", "rbx", "rb"} \cup some, "SVC 99 unfree"))
      BY <2>1 DEF s99_init
    <3>2. some \in SUBSET Units
      BY DEF Units
    <3> QED
      BY <1>2, <1>5, <3>1, <3>2 DEF ddfree_init
  <2>2. CASE \E q \in Leftover(r) : Becomes(h, [Failed(q) EXCEPT !.held = @ \ {"handle"}])
    BY <1>3, <2>2
  <2> QED
    BY <1>5, <2>1, <2>2 DEF ddfree_init
<1> QED
  BY <1>4, <1>5

\* The answer to a request, after which s99_free has been called.
LEMMA RequestStep ==
  ASSUME Inv, NEW h \in Handles, dsdd_alloc(h) \/ ddfree(h) \/ UnfreeFails(h)
  PROVE  Inv'
<1> DEFINE r == bh[h]
<1>1. HandleInv(r)
  BY DEF Inv
<1>2. ASSUME NEW n, NEW held \in SUBSET (r.held \ Request),
             n = [Failed(r) EXCEPT !.held = held], Becomes(h, n)
      PROVE  Inv'
  <2>1. held \in SUBSET (Storage \cup Request) /\ held \cap Request \subseteq {"textunit", "rbx"}
    BY <1>1 DEF HandleInv, Types
  <2>2. HandleInv([Failed(r) EXCEPT !.held = held])
    BY <1>1, <2>1, LeftInv DEF HandleInv
  <2> QED
    BY <1>2, <2>2, OneHandle
<1>3. CASE dsdd_alloc(h)
  <2>1. CASE Becomes(h, [s99_free(r) EXCEPT !.dd = TRUE, !.at = "dcb"])
    <3> DEFINE n == [s99_free(r) EXCEPT !.dd = TRUE, !.at = "dcb"]
    <3>1. /\ n.at = "dcb" /\ n.held = r.held \ Request /\ n.dd = TRUE /\ n.dcb = r.dcb
          /\ n.told = r.told /\ n.block_size = r.block_size /\ n.dcbblksi = r.dcbblksi
          /\ n.freed = r.freed /\ n \in Types
      BY <1>1 DEF s99_free, HandleInv, Types, Opening
    <3> HIDE DEF n
    <3>2. HoldsInv(n) /\ RequestInv(n)
      BY <1>1, <1>3, <3>1 DEF dsdd_alloc, HandleInv, HoldsInv, RequestInv, Needed, Request, Units
    <3>3. PlaceInv(n) /\ SizeInv(n)
      BY <1>1, <1>3, <3>1 DEF dsdd_alloc, HandleInv, PlaceInv, SizeInv, HasDD, IsOpen, Opening
    <3> QED
      BY <2>1, <3>1, <3>2, <3>3, OneHandle DEF n, HandleInv
  <2>2. CASE Becomes(h, Failed(s99_free(r)))
    <3>1. Failed(s99_free(r)) = [Failed(r) EXCEPT !.held = r.held \ Request]
      BY <1>1 DEF Failed, s99_free, HandleInv, Types
    <3> QED
      BY <1>2, <2>2, <3>1
  <2> QED
    BY <1>3, <2>1, <2>2 DEF dsdd_alloc
<1>4. CASE ddfree(h)
  <2> DEFINE n == Unfreed(r)
  <2>1. /\ n.at = "gone" /\ n.held = (r.held \ Request) \ {"handle"} /\ n.dd = FALSE
        /\ n.dcb = r.dcb /\ n.told = (IF r.told = "failure" THEN "failure" ELSE "success")
        /\ n.block_size = r.block_size /\ n.dcbblksi = r.dcbblksi
        /\ n.freed = r.freed /\ n \in Types
    BY <1>1 DEF Unfreed, s99_free, HandleInv, Types
  <2> HIDE DEF n
  <2>2. HoldsInv(n) /\ RequestInv(n)
    BY <2>1 DEF HoldsInv, RequestInv, Needed
  <2>3. PlaceInv(n) /\ SizeInv(n)
    BY <1>1, <1>4, <2>1 DEF ddfree, HandleInv, PlaceInv, SizeInv, HasDD, IsOpen, Opening
  <2>4. Becomes(h, n)
    BY <1>4 DEF ddfree, n
  <2> QED
    BY <2>1, <2>2, <2>3, <2>4, OneHandle DEF HandleInv
<1>5. CASE UnfreeFails(h)
  <2> DEFINE held == (r.held \ Request) \ {"handle"}
  <2>1. [Failed(s99_free(r)) EXCEPT !.held = @ \ {"handle"}] = [Failed(r) EXCEPT !.held = held]
    BY <1>1 DEF Failed, s99_free, HandleInv, Types
  <2>2. held \in SUBSET (r.held \ Request)
    OBVIOUS
  <2> HIDE DEF held
  <2> QED
    BY <1>2, <1>5, <2>1, <2>2 DEF UnfreeFails
<1> QED
  BY <1>3, <1>4, <1>5

\* What is left of a handle whose storage close_pds has freed.
LEMMA FreedInv ==
  ASSUME NEW r, HandleInv(r), r.at \in {"opened", "CLOSE"}
  PROVE  LET n == OpenStorageFreed(r)
         IN  /\ n \in Types /\ n.at = r.at /\ n.held = r.held \ {"block", "decb", "opencb", "dcb"}
             /\ n.dd = r.dd /\ n.dcb = r.dcb /\ n.told = r.told /\ n.block_size = r.block_size
             /\ n.dcbblksi = r.dcbblksi /\ n.freed = {r.block_size} /\ r.block_size \in BlkSizes
             /\ n.held \cap Request = {}
<1>1. r.block_size \in BlkSizes /\ r.freed = {} /\ r \in Types
  BY DEF HandleInv, SizeInv
<1>2. r.held \cap Request = {}
  BY DEF HandleInv, RequestInv
<1>3. r.freed \cup {LengthFreed(r)} = {r.block_size}
  BY <1>1 DEF LengthFreed
<1> QED
  BY <1>1, <1>2, <1>3 DEF OpenStorageFreed, Types

\* close_pds and CLOSE keep it, the block being freed with the length it has by then.
LEMMA CloseStep ==
  ASSUME Inv, NEW h \in Handles, close_pds(h) \/ CLOSE(h)
  PROVE  Inv'
<1> DEFINE r == bh[h]
           o == OpenStorageFreed(r)
<1>1. HandleInv(r) /\ r.at \in {"opened", "CLOSE"}
  BY DEF Inv, close_pds, CLOSE
<1>2. /\ o \in Types /\ o.at = r.at /\ o.held = r.held \ {"block", "decb", "opencb", "dcb"}
      /\ o.dd = r.dd /\ o.dcb = r.dcb /\ o.told = r.told /\ o.block_size = r.block_size
      /\ o.dcbblksi = r.dcbblksi /\ o.freed = {r.block_size} /\ r.block_size \in BlkSizes
      /\ o.held \cap Request = {}
  BY <1>1, FreedInv
<1> HIDE DEF o
<1>3. ASSUME NEW n, n \in Types, n.held = r.held, n.dd = r.dd, n.told = r.told,
             n.block_size = r.block_size, n.freed = r.freed,
             \/ r.at = "opened" /\ n.at = "CLOSE" /\ n.dcb = r.dcb
             \/ r.at = "CLOSE" /\ n.at = "unfree" /\ n.dcb = FALSE,
             Becomes(h, n)
      PROVE  Inv'
  <2>1. HoldsInv(n) /\ RequestInv(n)
    BY <1>1, <1>3 DEF HandleInv, HoldsInv, RequestInv, Needed
  <2>2. PlaceInv(n) /\ SizeInv(n)
    BY <1>1, <1>3 DEF HandleInv, PlaceInv, SizeInv, HasDD, IsOpen, Opening
  <2> QED
    BY <1>3, <2>1, <2>2, OneHandle DEF HandleInv
<1>4. CASE r.at = "opened" /\ Becomes(h, [r EXCEPT !.at = "CLOSE"])
  <2> DEFINE n == [r EXCEPT !.at = "CLOSE"]
  <2>1. /\ n \in Types /\ n.at = "CLOSE" /\ n.held = r.held /\ n.dd = r.dd /\ n.dcb = r.dcb
        /\ n.told = r.told /\ n.block_size = r.block_size /\ n.freed = r.freed
    BY <1>1 DEF HandleInv, Types, Closing
  <2> HIDE DEF n
  <2> QED
    BY <1>3, <1>4, <2>1 DEF n
<1>5. CASE r.at = "CLOSE" /\ Becomes(h, [r EXCEPT !.dcb = FALSE, !.at = "unfree"])
  <2> DEFINE n == [r EXCEPT !.dcb = FALSE, !.at = "unfree"]
  <2>1. /\ n \in Types /\ n.at = "unfree" /\ n.held = r.held /\ n.dd = r.dd /\ n.dcb = FALSE
        /\ n.told = r.told /\ n.block_size = r.block_size /\ n.freed = r.freed
    BY <1>1 DEF HandleInv, Types, Closing
  <2> HIDE DEF n
  <2> QED
    BY <1>3, <1>5, <2>1 DEF n
<1>6. CASE r.at = "opened" /\ Becomes(h, [o EXCEPT !.told = "failure", !.at = "unfree"])
  <2> DEFINE n == [o EXCEPT !.told = "failure", !.at = "unfree"]
  <2>1. /\ n \in Types /\ n.at = "unfree" /\ n.held = o.held /\ n.dd = r.dd /\ n.dcb = r.dcb
        /\ n.told = "failure" /\ n.block_size = r.block_size /\ n.freed = {r.block_size}
    BY <1>2 DEF Types, Closing
  <2> HIDE DEF n
  <2>2. HoldsInv(n) /\ RequestInv(n)
    BY <1>2, <2>1 DEF HoldsInv, RequestInv, Needed
  <2>3. PlaceInv(n) /\ SizeInv(n)
    BY <2>1 DEF PlaceInv, SizeInv, HasDD, IsOpen, Opening
  <2> QED
    BY <1>6, <2>1, <2>2, <2>3, OneHandle DEF HandleInv, n
<1>7. CASE r.at = "CLOSE" /\ Becomes(h, [Failed(o) EXCEPT !.held = @ \ {"handle"}])
  <2> DEFINE held == o.held \ {"handle"}
  <2>1. [Failed(o) EXCEPT !.held = @ \ {"handle"}] = [Failed(o) EXCEPT !.held = held]
    BY <1>2 DEF Failed, Types
  <2>2. held \in SUBSET (Storage \cup Request) /\ held \cap Request \subseteq {"textunit", "rbx"}
    BY <1>2 DEF Types
  <2>3. o \in Types
    BY <1>2
  <2> HIDE DEF held
  <2>4. HandleInv([Failed(o) EXCEPT !.held = held])
    <3> DEFINE f == [Failed(o) EXCEPT !.held = held]
    <3>1. /\ f \in Types /\ f.at = "gone" /\ f.held = held /\ f.dd = o.dd /\ f.dcb = o.dcb
          /\ f.told = "failure" /\ f.block_size = r.block_size /\ f.freed = {r.block_size}
      BY <1>2, <2>2 DEF Failed, Types
    <3> HIDE DEF f
    <3>2. HoldsInv(f) /\ RequestInv(f)
      BY <2>2, <3>1 DEF HoldsInv, RequestInv, Needed
    <3>3. PlaceInv(f) /\ SizeInv(f)
      BY <3>1 DEF PlaceInv, SizeInv, HasDD, IsOpen, Opening
    <3> QED
      BY <3>1, <3>2, <3>3 DEF HandleInv, f
  <2> QED
    BY <1>7, <2>1, <2>4, OneHandle
<1> QED
  BY <1>4, <1>5, <1>6, <1>7 DEF close_pds, CLOSE, o

-----------------------------------------------------------------------------
\* No handle is open at the beginning.
LEMMA InitialInv == Init => Inv
<1> SUFFICES ASSUME Init PROVE Inv
  OBVIOUS
<1>1. \A h \in Handles : bh[h] = [at |-> "none", held |-> {}, dd |-> FALSE, dcb |-> FALSE,
                                  block_size |-> 0, dcbblksi |-> 0, told |-> "nothing",
                                  freed |-> {}]
  BY DEF Init
<1>2. ASSUME NEW h \in Handles PROVE HandleInv(bh[h])
  <2> DEFINE r == bh[h]
  <2>1. /\ r.at = "none" /\ r.held = {} /\ r.dd = FALSE /\ r.dcb = FALSE /\ r.block_size = 0
        /\ r.dcbblksi = 0 /\ r.told = "nothing" /\ r.freed = {}
    BY <1>1
  <2>2. r \in Types
    <3> DEFINE Places == {"none", "opened", "gone"} \cup Opening \cup Closing
               Pieces == SUBSET (Storage \cup Request)
               Sizes  == BlkSizes \cup {0}
               Lengths == SUBSET BlkSizes
    <3>1. "none" \in Places /\ {} \in Pieces /\ 0 \in Sizes /\ {} \in Lengths
      OBVIOUS
    <3> HIDE DEF Places, Pieces, Sizes, Lengths
    <3>2. [at |-> "none", held |-> {}, dd |-> FALSE, dcb |-> FALSE, block_size |-> 0,
           dcbblksi |-> 0, told |-> "nothing", freed |-> {}]
            \in [at: Places, held: Pieces, dd: BOOLEAN, dcb: BOOLEAN, block_size: Sizes,
                 dcbblksi: Nat, told: {"nothing", "failure", "success"}, freed: Lengths]
      BY <3>1
    <3>3. r \in [at: Places, held: Pieces, dd: BOOLEAN, dcb: BOOLEAN, block_size: Sizes,
                 dcbblksi: Nat, told: {"nothing", "failure", "success"}, freed: Lengths]
      BY <1>1, <3>2, Zenon
    <3> QED
      BY <3>3 DEF Types, Places, Pieces, Sizes, Lengths
  <2> HIDE DEF r
  <2>3. HoldsInv(r) /\ RequestInv(r)
    BY <2>1 DEF HoldsInv, RequestInv, Needed
  <2>4. PlaceInv(r) /\ SizeInv(r)
    BY <2>1 DEF PlaceInv, SizeInv, HasDD, IsOpen, Opening
  <2> QED
    BY <2>2, <2>3, <2>4 DEF HandleInv, r
<1>3. bh \in [Handles -> Types]
  BY <1>1, <1>2 DEF Init, HandleInv
<1> QED
  BY <1>2, <1>3 DEF Inv

\* Every step keeps it.
LEMMA StepInv == Inv /\ [Next]_bh => Inv'
<1> SUFFICES ASSUME Inv, [Next]_bh PROVE Inv'
  OBVIOUS
<1>1. CASE Next
  BY <1>1, OpenStep, DcbStep, InitStep, RequestStep, CloseStep DEF Next
<1>2. CASE UNCHANGED bh
  BY <1>2 DEF Inv
<1> QED
  BY <1>1, <1>2

\* The invariant on which the others rest: where a call has come to says what it holds.
THEOREM HandlesSound == Spec => []Inv
BY InitialInv, StepInv, PTL DEF Spec

\* The variables of PdsHandle keep to their types.
THEOREM HandleTypes == Spec => []TypeOK
<1>1. Inv => TypeOK
  BY DEF Inv, TypeOK, Types
<1> QED
  BY <1>1, HandlesSound, PTL

\* An open DCB has its storage and its DD as long as a call may use it, and a handle
\* given to the caller all of its storage (bpam_open, close_pds).
THEOREM OpenHandleIsWhole == Spec => []OpenIsWhole
<1>1. Inv => OpenIsWhole
  BY DEF Inv, OpenIsWhole, HandleInv, HoldsInv, PlaceInv, Needed, HasDD, IsOpen, Storage
<1> QED
  BY <1>1, HandlesSound, PTL

\* The block is given back with the length it was obtained with (close_pds).
THEOREM BlocksFreedWhole == Spec => []BlockFreedWhole
<1>1. Inv => BlockFreedWhole
  BY DEF Inv, BlockFreedWhole, HandleInv, SizeInv
<1> QED
  BY <1>1, HandlesSound, PTL

\* The steps with which a close returns free the handle, and no close returns before it
\* has called CLOSE, nor between that and ddfree unless it failed.
LEMMA CloseReturns ==
  ASSUME Inv, Next, NEW h \in Handles,
         bh[h].at \in {"opened"} \cup Closing, bh'[h].at = "gone"
  PROVE  /\ "handle" \notin bh'[h].held
         /\ bh[h].at # "opened"
         /\ bh[h].at = "CLOSE" => bh'[h].dcb
<1> DEFINE r == bh[h]
<1>1. bh \in [Handles -> Types] /\ HandleInv(r) /\ r \in Types /\ r.at # "gone"
  BY DEF Inv, HandleInv, Closing
<1>2. ASSUME NEW k \in Handles, NEW q, Becomes(k, q)
      PROVE  bh'[h] = q /\ q.at = "gone" /\ k = h
  BY <1>1, <1>2 DEF Becomes
<1>3. PICK k \in Handles :
        \/ open_pds(k) \/ init_dsnam_text_unit(k) \/ dsdd_alloc_init(k) \/ dsdd_alloc(k)
        \/ dcb_init(k) \/ bpam_open(k) \/ OPEN(k) \/ ObtainBlock(k) \/ WriteShortBlock(k)
        \/ close_pds(k) \/ CLOSE(k) \/ ddfree_init(k) \/ ddfree(k) \/ UnfreeFails(k)
  BY DEF Next
<1>4. k = h
  BY <1>2, <1>3 DEF open_pds, init_dsnam_text_unit, dsdd_alloc_init, dsdd_alloc, dcb_init,
                    bpam_open, OPEN, ObtainBlock, WriteShortBlock, close_pds, CLOSE,
                    ddfree_init, ddfree, UnfreeFails, Obtain, Fail, s99_init
<1>5. \/ WriteShortBlock(h) \/ close_pds(h) \/ CLOSE(h)
      \/ ddfree_init(h) \/ ddfree(h) \/ UnfreeFails(h)
  BY <1>3, <1>4 DEF open_pds, init_dsnam_text_unit, dsdd_alloc_init, dsdd_alloc, dcb_init,
                    bpam_open, OPEN, ObtainBlock, Closing
<1>6. ~ WriteShortBlock(h)
  <2> SUFFICES ASSUME NEW used, Becomes(h, [r EXCEPT !.dcbblksi = used]) PROVE FALSE
    BY DEF WriteShortBlock
  <2>1. [r EXCEPT !.dcbblksi = used].at # "gone"
    BY <1>1 DEF Types
  <2> QED
    BY <1>2, <2>1
<1>7. ~ close_pds(h)
  <2>1. [r EXCEPT !.at = "CLOSE"].at # "gone"
    BY <1>1 DEF Types
  <2>2. [OpenStorageFreed(r) EXCEPT !.told = "failure", !.at = "unfree"].at # "gone"
    BY <1>1 DEF Types, OpenStorageFreed
  <2> QED
    BY <1>2, <2>1, <2>2 DEF close_pds
<1>8. CASE CLOSE(h)
  <2> DEFINE o == OpenStorageFreed(r)
  <2>1. r.at = "CLOSE" /\ r.dcb
    BY <1>1, <1>8 DEF CLOSE, HandleInv, PlaceInv, IsOpen
  <2>2. o \in Types /\ o.dcb = r.dcb
    BY <1>1, <2>1, FreedInv
  <2>3. [r EXCEPT !.dcb = FALSE, !.at = "unfree"].at # "gone"
    BY <1>1 DEF Types
  <2>4. Becomes(h, [Failed(o) EXCEPT !.held = @ \ {"handle"}])
    BY <1>2, <1>8, <2>3 DEF CLOSE
  <2>5. bh'[h] = [Failed(o) EXCEPT !.held = @ \ {"handle"}]
    BY <1>2, <2>4
  <2> HIDE DEF o
  <2>6. bh'[h].held = o.held \ {"handle"} /\ bh'[h].dcb = o.dcb
    BY <2>2, <2>5 DEF Failed, Types
  <2> QED
    BY <2>1, <2>2, <2>6
<1>9. CASE ddfree_init(h)
  <2>1. r.at = "unfree"
    BY <1>9 DEF ddfree_init
  <2>2. ~ s99_init(h, {"ddname"}, "SVC 99 unfree")
    <3> SUFFICES ASSUME NEW some, Becomes(h, Obtained(r, {"textunit", "rbx", "rb"} \cup some, "SVC 99 unfree"))
                 PROVE  FALSE
      BY DEF s99_init
    <3>1. Obtained(r, {"textunit", "rbx", "rb"} \cup some, "SVC 99 unfree").at # "gone"
      BY <1>1 DEF Obtained, Types
    <3> QED
      BY <1>2, <3>1
  <2>3. PICK q \in Leftover(r) : Becomes(h, [Failed(q) EXCEPT !.held = @ \ {"handle"}])
    BY <1>9, <2>2 DEF ddfree_init
  <2>4. q = [r EXCEPT !.held = q.held]
    BY <1>1, <2>1, LeftoverHeld
  <2>5. bh'[h] = [Failed(q) EXCEPT !.held = @ \ {"handle"}]
    BY <1>2, <2>3
  <2> QED
    BY <1>1, <2>1, <2>4, <2>5 DEF Failed, Types
<1>10. CASE ddfree(h)
  <2>1. r.at = "SVC 99 unfree" /\ bh'[h] = Unfreed(r)
    BY <1>2, <1>10 DEF ddfree
  <2>2. "handle" \notin Unfreed(r).held
    BY <1>1 DEF Unfreed, s99_free, Types
  <2> QED
    BY <2>1, <2>2
<1>11. CASE UnfreeFails(h)
  <2>1. r.at = "SVC 99 unfree" /\ bh'[h] = [Failed(s99_free(r)) EXCEPT !.held = @ \ {"handle"}]
    BY <1>2, <1>11 DEF UnfreeFails
  <2>2. "handle" \notin [Failed(s99_free(r)) EXCEPT !.held = @ \ {"handle"}].held
    BY <1>1 DEF Failed, s99_free, Types
  <2> QED
    BY <2>1, <2>2
<1> QED
  BY <1>5, <1>6, <1>7, <1>8, <1>9, <1>10, <1>11

\* However a call fails, it says so if its DD or DCB stays; close_pds frees the handle on
\* each return and calls ddfree before it, but for one whose CLOSE failed.
THEOREM LeaksAreReported == Spec => NoSilentLeak
<1> DEFINE Return(h) ==
      bh[h].at # "gone" /\ bh'[h].at = "gone" =>
        /\ bh'[h].dd \/ bh'[h].dcb => bh'[h].told = "failure"
        /\ bh[h].at \in {"opened"} \cup Closing => "handle" \notin bh'[h].held
        /\ bh[h].at \in {"opened", "CLOSE"} /\ bh'[h].dd => bh[h].at = "CLOSE" /\ bh'[h].dcb
<1>1. Inv /\ Inv' /\ [Next]_bh => [\A h \in Handles : Return(h)]_bh
  <2> SUFFICES ASSUME Inv, Inv', Next, NEW h \in Handles,
                      bh[h].at # "gone", bh'[h].at = "gone"
               PROVE  Return(h)
    OBVIOUS
  <2>1. bh'[h].dd \/ bh'[h].dcb => bh'[h].told = "failure"
    BY DEF Inv, HandleInv, PlaceInv, IsOpen
  <2>2. CASE bh[h].at \in {"opened"} \cup Closing
    BY <2>1, <2>2, CloseReturns
  <2>3. CASE bh[h].at \notin {"opened"} \cup Closing
    BY <2>1, <2>3 DEF Closing
  <2> QED
    BY <2>2, <2>3
<1> QED
  BY <1>1, HandlesSound, PTL DEF Spec, NoSilentLeak

\* The storage of an SVC 99 request is freed (dsdd_alloc, ddfree, s99_init).
THEOREM NoRequestHeld == Spec => []RequestsFreed
<1>1. Inv => RequestsFreed
  BY DEF Inv, RequestsFreed, HandleInv, RequestInv
<1> QED
  BY <1>1, HandlesSound, PTL
=============================================================================
