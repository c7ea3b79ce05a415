------------------------------ MODULE M2FCopy -------------------------------
(***************************************************************************)
(* sample/src/m2f.c and the half of fsio.c that writes: the members of a   *)
(* data set, as openmemdir lists them, copied into files of a directory    *)
(* one after the other, while other programs replace and delete members.   *)
(*                                                                         *)
(* dir[n] is the member n, its records as their lengths, with its CCSID,   *)
(* or an alias; files[n] the file of that name.  A file is a sequence of   *)
(* pieces: record i of the member, or a newline, of one code page or the   *)
(* other.  m2f is at pc, has read cur entries of listing and the first     *)
(* line_num records of found, the member as FIND found it; buffer is       *)
(* file_buffer with file_buffer_cur, open the files with a descriptor and  *)
(* a buffer.  changes counts what other programs have done.  made is       *)
(* history: of which records each file that was closed was to be, and      *)
(* whether reading and writing it went well; missing those not found.      *)
(***************************************************************************)
EXTENDS Naturals, Sequences, FiniteSets

CONSTANTS Names,               \* of members, in the order of strcmp
          Contents,            \* the sequences of record lengths members can have
          Ccsids,
          MAX_TEXT_FILE_SIZE,
          MaxChanges,          \* bound on what other programs do
          Nothing

ISO8859_CCSID == 819
ISO8859_NL == 10
IBM1047_NL == 21

Entries == [recs: Contents, ccsid: Ccsids, alias: BOOLEAN]
Pieces == Nat \X {0, ISO8859_NL, IBM1047_NL}

\* Values of made (<<>> is in found before there is any member).
Copies == [recs: Contents \cup {<<>>}, ccsid: Ccsids, good: BOOLEAN]

ASSUME M2FAssumption ==
  /\ Names \subseteq Nat /\ IsFiniteSet(Names)
  /\ Contents \subseteq Seq(Nat)
  /\ MAX_TEXT_FILE_SIZE \in Nat /\ MaxChanges \in Nat
  /\ Nothing \notin Copies /\ Nothing \notin Seq(Pieces)

VARIABLES dir, files, listing, pc, cur, found, line_num, buffer, open, rc, changes, made, missing

world == <<dir, changes>>
vars == <<dir, files, listing, pc, cur, found, line_num, buffer, open, rc, changes, made, missing>>

\* A file that may be there already.
OldFile == <<<<0, IBM1047_NL>>>>

Init ==
  /\ dir \in [Names -> Entries \cup {Nothing}]
  /\ files \in [Names -> {Nothing, OldFile}]
  /\ listing = <<>> /\ pc = "list" /\ cur = 0
  /\ found = <<>> /\ line_num = 0
  /\ buffer = [data |-> <<>>, file_buffer_cur |-> 0]
  /\ open = {} /\ rc = 0 /\ changes = 0
  /\ made = [n \in Names |-> Nothing] /\ missing = {}

Exit(code) == pc' = "exit" /\ rc' = code

\* The entry m2f has come to.
Entry == listing[cur + 1]
NextEntry == cur' = cur + 1 /\ pc' = "next"

-----------------------------------------------------------------------------
\* openmemdir, sorted by name: the entries are those of now.
ListMembers ==
  /\ pc = "list"
  /\ LET names == {n \in Names : dir[n] # Nothing}
     IN  /\ names # {}
         /\ \E sorted \in [1..Cardinality(names) -> names] :
              /\ \A n \in names : \E i \in DOMAIN sorted : sorted[i] = n
              /\ \A i, j \in DOMAIN sorted : i < j => sorted[i] < sorted[j]
              /\ listing' = [i \in DOMAIN sorted |-> [name |-> sorted[i], ccsid |-> dir[sorted[i]].ccsid,
                                                       is_alias |-> dir[sorted[i]].alias]]
  /\ pc' = "open"
  /\ UNCHANGED <<world, files, cur, found, line_num, buffer, open, rc, made, missing>>

\* openmemdir fails, of an empty data set always; or open_pds_for_read does.
CannotStart ==
  /\ pc \in {"list", "open"}
  /\ Exit(4)
  /\ UNCHANGED <<world, files, listing, cur, found, line_num, buffer, open, made, missing>>

OpenDataset ==
  /\ pc = "open"
  /\ pc' = "next"
  /\ UNCHANGED <<world, files, listing, cur, found, line_num, buffer, open, rc, made, missing>>

\* Of an alias only a line is printed.
Alias ==
  /\ pc = "next" /\ cur < Len(listing)
  /\ Entry.is_alias
  /\ NextEntry
  /\ UNCHANGED <<world, files, listing, found, line_num, buffer, open, rc, made, missing>>

-----------------------------------------------------------------------------
Truncates(n) ==   \* mutant: O_TRUNC for O_EXCL
  /\ files' = [files EXCEPT ![n] = <<>>]
  /\ open' = open \cup {n}
  /\ buffer' = [data |-> <<>>, file_buffer_cur |-> 0]

\* open_file_create makes the file and its buffer.  O_EXCL: it must not be there.
open_file_create(n) ==
  /\ files[n] = Nothing
  /\ files' = [files EXCEPT ![n] = <<>>]
  /\ open' = open \cup {n}
  /\ buffer' = [data |-> <<>>, file_buffer_cur |-> 0]

CreateFile ==
  /\ pc = "next" /\ cur < Len(listing)
  /\ ~Entry.is_alias
  /\ open_file_create(Entry.name)
  /\ pc' = "find"
  /\ UNCHANGED <<world, listing, cur, found, line_num, rc, made, missing>>

\* open fails; or the file is made, but its tag, its conversion, its status or the
\* buffer cannot be had.  Nothing more is copied.
CreateFails ==
  /\ pc = "next" /\ cur < Len(listing)
  /\ ~Entry.is_alias
  /\ \/ UNCHANGED files
     \/ files[Entry.name] = Nothing /\ files' = [files EXCEPT ![Entry.name] = <<>>]
  /\ Exit(12)
  /\ UNCHANGED <<world, listing, cur, found, line_num, buffer, open, made, missing>>

-----------------------------------------------------------------------------
\* find_member: the member as it is now.
Find ==
  /\ pc = "find"
  /\ dir[Entry.name] # Nothing
  /\ found' = dir[Entry.name].recs
  /\ line_num' = 0
  /\ pc' = "read"
  /\ UNCHANGED <<world, files, listing, cur, buffer, open, rc, made, missing>>

FindAgain ==   \* mutant: a member that is not found is looked for until it is there
  /\ pc = "find"
  /\ UNCHANGED vars

\* The member is gone, or FIND fails; the file stays open, and empty.
FindFails ==
  /\ pc = "find"
  /\ missing' = missing \cup {Entry.name}
  /\ NextEntry
  /\ UNCHANGED <<world, files, listing, found, line_num, buffer, open, rc, made>>

\* calc_tag: any CCSID but one has the newline of IBM-1047.
newline_char(ccsid) == IF ccsid = ISO8859_CCSID THEN ISO8859_NL ELSE IBM1047_NL

UncheckedWrite(b, piece, len) ==   \* mutant: the length is not checked
  [data |-> Append(b.data, piece), file_buffer_cur |-> b.file_buffer_cur + len]

Record(i) == <<i, 0>>
Newline(ccsid) == <<0, newline_char(ccsid)>>

\* A piece that does not fit is dropped.
buffer_write(b, piece, len) ==
  IF b.file_buffer_cur + len > MAX_TEXT_FILE_SIZE THEN b
  ELSE [data |-> Append(b.data, piece), file_buffer_cur |-> b.file_buffer_cur + len]

NewlineBefore ==   \* mutant: lines are separated, not ended, by newlines
  /\ pc = "read" /\ line_num < Len(found)
  /\ buffer' = buffer_write(IF line_num = 0 THEN buffer
                             ELSE buffer_write(buffer, Newline(Entry.ccsid), 1),
                            Record(line_num + 1), found[line_num + 1])
  /\ line_num' = line_num + 1
  /\ UNCHANGED <<world, files, listing, pc, cur, found, open, rc, made, missing>>

\* read_record_direct gives the next record, and both it and a newline are written.
CopyRecord ==
  /\ pc = "read" /\ line_num < Len(found)
  /\ buffer' = buffer_write(buffer_write(buffer, Record(line_num + 1), found[line_num + 1]),
                            Newline(Entry.ccsid), 1)
  /\ line_num' = line_num + 1
  /\ UNCHANGED <<world, files, listing, pc, cur, found, open, rc, made, missing>>

\* The end of the member, or an error that looks like it.
EndOfMember ==
  /\ pc = "read"
  /\ pc' = "write"
  /\ UNCHANGED <<world, files, listing, cur, found, line_num, buffer, open, rc, made, missing>>

\* The bytes of a file with these records.
FileBytes(recs) ==
  LET upto[i \in 0..Len(recs)] == IF i = 0 THEN 0 ELSE upto[i - 1] + recs[i] + 1
  IN  upto[Len(recs)]

\* The member was read to its end, and there is room for all of it.
Whole == line_num = Len(found) /\ FileBytes(found) <= MAX_TEXT_FILE_SIZE

\* write_file and close_file, neither of whose return codes is looked at: all of the
\* buffer may be in the file, or the beginning of it, or nothing.
WriteAndClose(closed) ==
  /\ pc = "write"
  /\ \E n \in 0..Len(buffer.data) :
       /\ files' = [files EXCEPT ![Entry.name] = SubSeq(buffer.data, 1, n)]
       /\ made' = [made EXCEPT ![Entry.name] =
                     [recs |-> found, ccsid |-> Entry.ccsid, good |-> Whole /\ n = Len(buffer.data)]]
  /\ open' = open \ closed
  /\ NextEntry
  /\ UNCHANGED <<world, listing, found, line_num, buffer, rc, missing>>

LeftOpen == WriteAndClose({})   \* mutant: close_file is forgotten
WriteFile == WriteAndClose({Entry.name})

\* closememdir, then close_pds, which may fail.
AllCopied ==
  /\ pc = "next" /\ cur = Len(listing)
  /\ Exit(0) \/ Exit(8)
  /\ UNCHANGED <<world, files, listing, cur, found, line_num, buffer, open, made, missing>>

m2f ==
  \/ ListMembers \/ CannotStart \/ OpenDataset
  \/ Alias \/ CreateFile \/ CreateFails \/ Find \/ FindFails
  \/ CopyRecord \/ EndOfMember \/ WriteFile \/ AllCopied

-----------------------------------------------------------------------------
\* Other programs (external).
Others ==
  /\ pc # "exit" /\ changes < MaxChanges
  /\ changes' = changes + 1
  /\ \E n \in Names, e \in Entries \cup {Nothing} : e # dir[n] /\ dir' = [dir EXCEPT ![n] = e]
  /\ UNCHANGED <<files, listing, pc, cur, found, line_num, buffer, open, rc, made, missing>>

Next == m2f \/ Others

\* m2f waits for nobody.
Spec == Init /\ [][Next]_vars /\ WF_vars(m2f)

-----------------------------------------------------------------------------
(* Properties *)

\* Nothing is copied past the end of file_buffer.
TypeOK ==
  /\ dir \in [Names -> Entries \cup {Nothing}]
  /\ files \in [Names -> {Nothing} \cup Seq(Pieces)]
  /\ listing \in Seq([name: Names, ccsid: Ccsids, is_alias: BOOLEAN])
  /\ pc \in {"list", "open", "next", "find", "read", "write", "exit"}
  /\ cur \in 0..Len(listing)
  /\ pc \in {"find", "read", "write"} => cur < Len(listing)
  /\ found \in Contents \cup {<<>>} /\ line_num \in 0..Len(found)
  /\ buffer \in [data: Seq(Pieces), file_buffer_cur: 0..MAX_TEXT_FILE_SIZE]
  /\ made \in [Names -> {Nothing} \cup Copies]
  /\ open \subseteq Names /\ missing \subseteq Names
  /\ rc \in {0, 4, 8, 12} /\ changes \in 0..MaxChanges

\* What a file is to be: each record, and after it a newline of the code page.
Text(recs, ccsid) ==
  [i \in 1..(2 * Len(recs)) |-> IF i % 2 = 1 THEN Record((i + 1) \div 2) ELSE Newline(ccsid)]

\* A file holds the whole member as it was found, whatever was done to it before and
\* since, unless the buffer was full or reading or writing failed; then too its records
\* are in order and none is there twice.  That it failed is known to made.good only, which
\* is history: m2f tells nobody (m2f.c:174, 185, 189).  And when m2f comes to its end
\* every member listed has such a file, unless it was not found.
FileIsMember ==
  /\ \A n \in Names : made[n] # Nothing =>
       /\ made[n].good => files[n] = Text(made[n].recs, made[n].ccsid)
       /\ \A i, j \in DOMAIN files[n] :
            i < j /\ files[n][i][1] # 0 /\ files[n][j][1] # 0 => files[n][i][1] < files[n][j][1]
  /\ pc = "exit" /\ rc \in {0, 8} =>
       \A i \in DOMAIN listing :
         \/ listing[i].is_alias \/ made[listing[i].name] # Nothing \/ listing[i].name \in missing

\* A descriptor and the 16 MB buffer that goes with it are held only for the member being
\* copied, and, to the end, for each one that was not found (m2f.c:164-167).
DescriptorsAccounted ==
  open \subseteq missing \cup (IF pc \in {"find", "read", "write"} THEN {Entry.name} ELSE {})

\* A file that m2f did not create it does not change (open_file_create, O_EXCL), and one
\* that is closed is not changed any more.
NeverOverwrites ==
  [][\A n \in Names : files[n] # Nothing /\ n \notin open => files'[n] = files[n]]_vars

\* The copy ends, whatever the others do meanwhile (copy_members_to_files).
CopyEnds == <>(pc = "exit")
=============================================================================
