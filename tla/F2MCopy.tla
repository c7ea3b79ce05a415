------------------------------ MODULE F2MCopy -------------------------------
(***************************************************************************)
(* The copying half of sample/src/f2m.c on top of one BPAM handle at a     *)
(* time: copy_files_to_one_dataset_members (all extensions into one data   *)
(* set through one handle) or copy_files_to_multiple_dataset_members (a    *)
(* handle for each extension), copy_files, write_member and add_line, with *)
(* files that cannot be opened or mapped, block writes that fail, STOWs    *)
(* that fail and files that cannot be closed.                              *)
(*                                                                         *)
(* A file is the lengths of its lines, met one by one; F2MReader says what *)
(* read_line makes of the bytes.  ext and file are the loop variables of   *)
(* the callers of write_member, pc the place in it.  lines and refused     *)
(* count the lines of the file so far and those write_record returned -1   *)
(* for; failed, origin and members are history: whether a copy to the open *)
(* data set has failed, the file each record came from, and for each entry *)
(* of dir the file and member it was made for.  globset is what            *)
(* expand_file_patterns found, and map is opts->map.                       *)
(***************************************************************************)
EXTENDS BpamWrite, FileMap

CONSTANTS GlobSets,    \* what expand_file_patterns may find: sequences of files
          MaxLines     \* bound on the lines of a file

ASSUME CopyAssumption ==
  /\ MaxLines \in Nat
  /\ \A globset \in GlobSets : globset \in Seq([dots: BOOLEAN, base: Nat, ext: Nat \cup {NoName}])

VARIABLES globset, map, pc, ext, file, lines, refused, failed, origin, members

place == <<pc, ext, file>>
history == <<failed, origin, members>>
copyvars == <<vars, globset, map, pc, ext, file, lines, refused, failed, origin, members>>

CopyInit ==
  /\ Init
  /\ globset \in GlobSets
  /\ map \in BOOLEAN
  /\ pc = "start"
  /\ ext = 1
  /\ file = 1
  /\ lines = 0
  /\ refused = 0
  /\ failed = FALSE
  /\ origin = <<>>
  /\ members = <<>>

Table == create_table(globset)

-----------------------------------------------------------------------------
\* copy_files_to_members.  Into one data set nothing is copied if two files have the same
\* member, or if there is no storage to find out.
CopyFilesToMembers ==
  /\ pc = "start"
  /\ \/ map /\ pc' = IF Table = <<>> THEN "exit" ELSE "open"
     \/ ~map /\ ~check_for_duplicate_members(globset) /\ pc' = "open"
     \/ ~map /\ pc' = "exit"
  /\ UNCHANGED <<vars, ext, file, lines, refused, history>>

\* The extension after this one, with what to do for it first.
NextExtension(first) ==
  /\ ext' = ext + 1
  /\ file' = 1
  /\ pc' = IF ext < Len(Table) THEN first ELSE "exit"

\* copy_files returns: to the next extension when all share the handle, and to
\* close_pds otherwise.
CopyOnAfterFailure ==   \* mutant: a failed copy does not leave copy_files
  /\ pc' = IF file < Len(Table[ext]) THEN "file" ELSE "close"
  /\ file' = file + 1
  /\ UNCHANGED ext

CopyFilesReturns ==
  IF ~map /\ ext < Len(Table)
    THEN NextExtension("file")
    ELSE pc' = "close" /\ UNCHANGED <<ext, file>>

CopyFails == failed' = TRUE /\ CopyFilesReturns

NextFile == file' = file + 1 /\ pc' = "file" /\ UNCHANGED ext

\* open_pds_for_write: a handle from calloc.  Another extension has another data
\* set, of which nothing is known but that this handle has written nothing to it.
FreshHandle ==
  /\ bytes_used' = 0
  /\ memstart_ttr' = 0
  /\ memstart_ttr_known' = FALSE
  /\ dcbblksi' = BlkSize
  /\ block' = <<>>

OpenDataset ==
  /\ pc = "open"
  /\ FreshHandle
  /\ disk' = <<>>
  /\ dir' = <<>>
  /\ begin' = 1
  /\ accepted' = <<>>
  /\ written' = <<>>
  /\ failed' = FALSE
  /\ members' = <<>>
  /\ pc' = IF Table = <<>> THEN "close" ELSE "file"
  /\ UNCHANGED <<asked, ext, file, lines, refused, origin>>

\* The extension has no data set, or it cannot be opened.
DatasetUnavailable ==
  /\ pc = "open"
  /\ IF ~map THEN pc' = "exit" /\ UNCHANGED <<ext, file>> ELSE NextExtension("open")
  /\ UNCHANGED <<vars, lines, refused, history>>

\* close_pds does not write what is still in the block; that it fails changes
\* nothing but a return code nobody looks at.
CloseDataset ==
  /\ pc = "close"
  /\ IF ~map THEN pc' = "exit" /\ UNCHANGED <<ext, file>> ELSE NextExtension("open")
  /\ UNCHANGED <<vars, lines, refused, history>>

-----------------------------------------------------------------------------
FilesDone ==
  /\ pc = "file"
  /\ file > Len(Table[ext])
  /\ CopyFilesReturns
  /\ UNCHANGED <<vars, lines, refused, history>>

Member == map_file_to_member(Table[ext][file])

\* A file whose name makes no member name is skipped.
FileUnmapped ==
  /\ pc = "file"
  /\ file <= Len(Table[ext]) /\ Member = NoName
  /\ NextFile
  /\ UNCHANGED <<vars, lines, refused, history>>

FileUnreadable ==
  /\ pc = "file"
  /\ file <= Len(Table[ext]) /\ Member # NoName
  /\ CopyFails
  /\ UNCHANGED <<vars, lines, refused, origin, members>>

OpenFile ==
  /\ pc = "file"
  /\ file <= Len(Table[ext]) /\ Member # NoName
  /\ pc' = "lines"
  /\ lines' = 0
  /\ refused' = 0
  /\ UNCHANGED <<vars, ext, file, history>>

-----------------------------------------------------------------------------
AddLineUncounted(len) ==   \* mutant: a refused line is not counted as one
  /\ pc = "lines"
  /\ lines < MaxLines
  /\ \/ /\ AddToBlock(len) \/ WriteThenAdd(len)
        /\ origin' = Append(origin, <<ext, file>>)
        /\ lines' = lines + 1
        /\ UNCHANGED refused
     \/ /\ RecordRefused(len)
        /\ refused' = refused + 1
        /\ UNCHANGED <<origin, lines>>
  /\ UNCHANGED <<place, failed, members>>

\* read_line and add_line, which only notes in truncated what write_record said.
AddLine(len) ==
  /\ pc = "lines"
  /\ lines < MaxLines
  /\ lines' = lines + 1
  /\ \/ /\ AddToBlock(len) \/ WriteThenAdd(len)
        /\ origin' = Append(origin, <<ext, file>>)
        /\ UNCHANGED refused
     \/ /\ RecordRefused(len)
        /\ refused' = refused + 1
        /\ UNCHANGED origin
  /\ UNCHANGED <<place, failed, members>>

EndOfFile ==
  /\ pc = "lines"
  /\ pc' = "flush"
  /\ UNCHANGED <<vars, ext, file, lines, refused, history>>

FlushIgnored ==   \* mutant: the return code of flush is not looked at
  /\ pc = "flush"
  /\ Flush \/ FlushFails \/ (bytes_used = 0 /\ UNCHANGED vars)
  /\ pc' = "stow"
  /\ UNCHANGED <<ext, file, lines, refused, history>>

FlushMember ==
  /\ pc = "flush"
  /\ Flush \/ (bytes_used = 0 /\ UNCHANGED vars)
  /\ pc' = "stow"
  /\ UNCHANGED <<ext, file, lines, refused, history>>

SkipUnflushed ==   \* mutant: only this file is given up, its records stay
  /\ pc = "flush"
  /\ FlushFails
  /\ NextFile
  /\ UNCHANGED <<lines, refused, history>>

FlushMemberFails ==
  /\ pc = "flush"
  /\ FlushFails
  /\ CopyFails
  /\ UNCHANGED <<lines, refused, origin, members>>

\* writememdir_entry, then close_file, whose failure counts although the member
\* is there.
EnterFile ==
  /\ pc = "stow"
  /\ EnterMember
  /\ members' = Append(members, [file |-> <<ext, file>>, name |-> Member, lines |-> lines, refused |-> refused])
  /\ CopyFails \/ (NextFile /\ UNCHANGED failed)
  /\ UNCHANGED <<lines, refused, origin>>

EnterFileFails ==
  /\ pc = "stow"
  /\ CopyFails
  /\ UNCHANGED <<vars, lines, refused, origin, members>>

CopyNext ==
  /\ \/ CopyFilesToMembers
     \/ OpenDataset \/ DatasetUnavailable \/ CloseDataset
     \/ FilesDone \/ FileUnmapped \/ FileUnreadable \/ OpenFile
     \/ \E len \in Lens : AddLine(len)
     \/ EndOfFile
     \/ FlushMember \/ FlushMemberFails
     \/ EnterFile \/ EnterFileFails
  /\ UNCHANGED <<globset, map>>

CopySpec == CopyInit /\ [][CopyNext]_copyvars

-----------------------------------------------------------------------------
(* Properties *)

CopyTypeOK ==
  /\ globset \in GlobSets /\ map \in BOOLEAN
  /\ pc \in {"start", "open", "file", "lines", "flush", "stow", "close", "exit"}
  /\ ext \in 1..Len(Table) + 1
  /\ file \in Nat \ {0} /\ lines \in Nat
  /\ refused \in 0..lines
  /\ failed \in BOOLEAN
  /\ origin \in Seq(Nat \X Nat) /\ Len(origin) = Len(asked)
  /\ members \in Seq([file: Nat \X Nat, name: Nat \cup {NoName}, lines: Nat, refused: Nat])
  /\ Len(members) = Len(dir)

\* f2m drives every handle as BpamWrite takes callers to: it opens it fresh, and no
\* directory entry is made while records are in the block, even when flush fails or
\* a copy is given up half way.
Opened ==
  /\ FreshHandle
  /\ disk' = <<>> /\ dir' = <<>> /\ begin' = 1
  /\ accepted' = <<>> /\ written' = <<>>
  /\ UNCHANGED asked
KeepsOrder == Init /\ [][Next \/ Opened]_vars

\* The records taken of a file, and what it is for a member to hold them in order.
RecordsOf(f) == {id \in 1..Len(origin) : origin[id] = f}
InOrder(ids, records) ==
  /\ {ids[i] : i \in 1..Len(ids)} = records
  /\ \A i, j \in 1..Len(ids) : i < j => ids[i] < ids[j]

\* A member holds the records of the file it was made for, in order, and those of
\* no other file; the only lines of the file it lacks are those write_record
\* refused.  With option -m that is so whatever failed before, and without it as
\* long as no copy failed.
MemberIsFile ==
  map \/ ~failed =>
    \A k \in 1..Len(dir) :
      /\ InOrder(dir[k].ids, RecordsOf(members[k].file))
      /\ Len(dir[k].ids) + members[k].refused = members[k].lines

\* f2m.c:383, when a member copy fails: "No further copies to this dataset will be
\* attempted."  That is so with option -m only, when each extension has a data set.
NoFurtherCopiesMapped == [][map /\ failed => Len(dir') <= Len(dir)]_copyvars

\* Copying into one data set never enters a member twice, so no file replaces another
\* (check_for_duplicate_members); with option -m files of one extension may.
NoMemberTwice ==
  ~map => \A k, l \in 1..Len(members) : k # l => members[k].name # members[l].name

\* f2m.c:306-311: the lines are added to blocks, and the directory entry is written
\* once all the blocks are: no member is entered that lacks a line of its file.
EntryAfterAllLines == \A k \in 1..Len(members) : members[k].refused = 0
=============================================================================
