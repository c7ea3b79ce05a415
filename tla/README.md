# Verification of metaldio

metaldio is a C and assembler library that gives z/OS programs direct access to
the members of a partitioned data set (PDS, PDSE) through BPAM: open a data set,
write and read members record by record, list the directory, enter members with
their statistics. `f2m` copies files into members, `m2f` members into files;
`readwriterec` is the sample program of the library. This directory holds TLA+
models of that code, the TLC configurations that check them and TLAPS proofs of
the properties that matter most.

Line numbers below are those of the repository: `bpamio.c` is
`services/src/bpamio.c`, `f2m.c` is `sample/src/f2m.c`, and so on.

## The system

| Component | State | Operations | Hard parts |
|---|---|---|---|
| record writing, `bpamio.c` | `FM_BPAMHandle`: block buffer, `bytes_used`, `memstart_ttr(_known)`; DCB: `dcblrecl`, `dcbblksi`, `dcbrecf` | `write_record`, `write_block`, `flush` | lengths and headers kept in several places, blocks that spill, writes that fail and are retried, state that survives from one member to the next |
| record reading, `bpamio.c`, `dioa.s` | `next_record_start/len`, `line_num`, block buffer, residual count | `find_member`, `read_record(_direct)`, `read_block`, `next_record` | end of block and end of member found from leftovers of the last read; read errors; callers that go on after a negative return |
| handle lifecycle, `bpamio.c`, `iosvcs.c`, `s99.c`, `ihadcb.c` | storage below the 16 MB line and above it, the DD, the open DCB | `open_pds_for_read/write/update`, `close_pds`, `dsdd_alloc`, `ddfree` | some twenty requests that can fail, each with what it must give back, and a length that must be the same at both ends |
| directory entries, `bpamio.c`, `stow.h` | the directory of the data set, connection tokens | `write_member_dir_entry`, `writememdir_entry` | create, then update if there; PDS and PDSE; extended attributes or not; errors in between |
| ENQ/DEQ, `bpamio.c` | the system's queue for a member | `enq_dataset_member`, `deq_dataset_member` | two programs storing the same member |
| directory listing, `memdir.c` | `MEMDIR`: an array of `mstat`, a cursor, the strings they point to | `openmemdir`, `readmemdir`, `closememdir`, `readmemdir_entry`, `create_mstat` | fields that stay from the last reading, strings that two arrays share for a moment, an order by one of two times |
| dates and statistics, `ztime.c`, `ispf.c` | none | packed Julian dates from and to `struct tm`, the TOD clock, ISPF statistics | ends of months, years and centuries, counts kept in two widths |
| line reader of f2m, `f2m.c`, `fsio.c` | two `FM_FileBuffer`s that swap roles | `read_line`, `get_record`, `scan_buffer`, `add_line` | lines across chunks; state that stands for two things |
| copy driver of f2m, `f2m.c` | the loop over extensions and files, the open handle | `copy_files_to_one/multiple_dataset_members`, `copy_files`, `write_member` | thirteen places where a step can fail, and what is then done with the handle |
| file table, `filemap.c` | `FM_Table`: files by extension | `create_table`, `fill_table`, `map_file_to_member`, `check_for_duplicate_members` | two files that map to one member |
| m2f, `m2f.c`, `fsio.c` | `FM_FileHandle` with an output buffer of 16 MB | `copy_members_to_files`, `open_file_create`, `buffer_write`, `write_file`, `close_file` | read errors that look like the end of a member, members that go after they were listed, files that are there already |
| mlsx, `mlsx.c` | none but its `MEMDIR` | lists a directory, line by line | prints what was sorted by something else |
| services and macros, `core/` | parameter lists | SVC 99, STOW, OPEN, READ, ... | linkage |

`f2m` reads a line (line reader), passes it to `write_record` (record writing),
at the end of the file calls `flush` and `writememdir_entry` (directory
entries), for one file after the other on one handle; which files, in which order
and to which members the file table says. `m2f` lists the directory first, then
finds each member and calls `read_record_direct` until it returns a negative value.
`mlsx` only lists. Entries that one program writes with statistics (`add_mem_stats`,
through `ztime.c`) another reads (`smde_to_mstat`, through `ispf.c`). Nothing in the
library is multithreaded; concurrency is between programs, for the data set is
allocated `DISP=SHR` (`bpamio.c:834`): a reader may have it open while a writer
adds blocks and members to it.

What makes each component correct, in short: no block overflows and every block
can be walked; every record accepted is on disk or in the buffer, once, in order;
a member read back is what was written to it; the end of a member is reported
after its last record and not before; each line of a file is one record of its
member, in order; a member holds the records of its own file; storage and
allocations are given back or the caller is told that something failed; a directory
entry exists with the attributes asked for or the caller is told; a listing shows
every entry once, in the order asked for, with dates and lengths that are true; a
file that m2f makes is the whole member, and no other file is touched. `PROJECT.json` lists the places
where these are at risk under "hazards".

## Modules

| Module | Models |
|---|---|
| `BpamGeometry` | layout of records in a block: `can_add_record_to_block`, lengths and offsets of `copy_record_to_block`, and the walk of `validate_var_block` |
| `BpamWrite` | one output handle: `write_record`, `write_block`, `flush`, and the STOW of a member |
| `BpamRead` | one input handle: `find_member`, `read_record_direct`, `read_block`, `next_record` |
| `BpamMember` | a writing and a reading handle on one data set, interleaved |
| `MemberStore` | the abstract specification: what `services/include/bpamio.h` promises of members, without blocks, headers or TTRs |
| `F2MReader`, `MCF2MReader` | the double-buffered line reader of `f2m.c`; all files of up to ten bytes |
| `FileMap` | the file table of `filemap.c`: extensions, member names, duplicates; operators only |
| `F2MCopy`, `MCF2MCopy` | the copy driver of `f2m.c` on top of `BpamWrite` and `FileMap`, for four sets of files |
| `MemberDirectory` | programs entering one member at once: `write_member_dir_entry`, ENQ and DEQ |
| `PdsHandle` | every request of `open_pds_for_*` and `close_pds`, each failing or not, and what is held after it |
| `ZTime` | `ztime.c` and the C library's time functions: packed dates, the TOD clock, the calendar; operators only |
| `MemDir`, `MCMemDir` | one directory, the programs that change it, `mlsx` that lists it and a program that reads single entries; on top of `ZTime` |
| `M2FCopy`, `MCM2FCopy` | `m2f`: from the listing to the files, while other programs change the members |
| `BpamWriteProofs`, `BpamMemberProofs`, `F2MReaderProofs`, `F2MCopyProofs`, `M2FCopyProofs`, `MemberDirectoryProofs`, `MemDirProofs`, `PdsHandleProofs` | theorems about the module each is named for; those about dates (`ZTime`) are in `MemDirProofs` |

What composes what: `BpamMember` is `BpamWrite` and `BpamRead` on one data set, and
implements `MemberStore`; `F2MCopy` is `BpamWrite` and `FileMap` under one caller;
`MemDir` uses `ZTime`. `MemberDirectory` and `MemDir` look at the same code
(`bpamio.c:736-830`) for two questions: in the first an entry is only a timestamp
and its making takes several calls, in the second it has contents and is made in one.

### How state and actions correspond to the code

**BpamGeometry.** A record's bytes are not modelled; its place is: `at` (offset
in the block), `rdw` (the bytes it takes up, for V what its RDW says) and `data`
(bytes of the caller's data kept). The arithmetic keeps the width of `unsigned
short`. `GeometryAssumption` is what z/OS guarantees of a data set it has opened
(an FB record fits a block, a V record with the BDW does) and leaves out
RECFM=U, for which `can_add_record_to_block` reads an uninitialised variable
(listed as a hazard).

**BpamWrite.** `bytes_used`, `memstart_ttr`, `memstart_ttr_known` and `dcbblksi`
are the fields of that name; `block` is the records in the block buffer.
`write_record` has three outcomes and an action for each: `AddToBlock` (it
fits, or the block is empty, of which `write_block` makes a no-op),
`WriteThenAdd` (spill, then copy) and `RecordRefused` (the spill fails; -1).
`flush` is `Flush` and `FlushFails`. A block write that fails leaves the block
as it was, since `write_block` returns before the reset; `dcbblksi` has been
lowered by then. `disk`, `dir` and `begin` are the data set, external: what
each WRITE added, the entries made, and where the system says the member being
written begins. An entry records both the place where its member begins, which
FIND uses, and the TTR the handle passed to STOW, which for a member being
created the system supplies itself; so a wrong TTR does not misdirect the
readers of the model, and is a property of its own. `StowMember` has the guard
the callers keep (`f2m.c:327`, `readwriterec.c:69`): the block is empty.
`F2MKeepsOrder` shows that f2m does keep it. `asked`, `accepted` and `written` are
history.

**BpamRead.** The fields are those of the handle; `line_num` is only ever
compared with 0. A call of `read_record_direct` is `ReadFromBlock`,
`ReadNextBlock`, `EndOfData` or `ReadError`, by what the block holds and by what
CHECK reports (EODAD, SYNAD). After a failed READ the buffer is the old or the
new block, after the end of data the residual count is undefined: both are
nondeterministic choices. The actions are enabled after a negative return too.
`READA` has no return code, so the branch on its failure cannot be taken.

**F2MReader.** A byte is its position in the file, so the model knows of every
byte of a record where it came from. Offsets and lengths are `size_t` and wrap.
`read(2)` of a regular file returns as much as there is; a `read` that fails is
left out, since `get_record` then scans with a length of (size_t) -1 through
whatever is in storage.

**FileMap, F2MCopy.** `globset` is what glob found, `Table` the table made of it:
keys in order, the files of each in the order of glob. A file is a name, an
extension and whether a directory of its path has a dot in its name, for
`extension` looks for the last dot of the whole path. Upper- and lower-case forms
of a name are two numbers, and a name in `TooLong` makes no member name.
`check_for_duplicate_members` stands before the first open, as in
`copy_files_to_one_dataset_members`. `ext`, `file` and `pc` are the loop variables
and the place in `write_member`; every early return is an action (`FileUnmapped`,
`FileUnreadable`, `FlushMemberFails`, `EnterFileFails`, ...). The handle is
`BpamWrite`, whose operators it uses; `map` is option `-m`, one data set for each
extension and one handle after the other.

**MemberDirectory.** Each call of a system service (ENQ, STOW IFF, DESERV, STOW R,
DEQ) is one action, and between two calls of a program any other program may make
one. `kind` (PDS or PDSE), `mode` (a handle for output or for update) and `enqs`
(who takes the ENQ: `readwriterec` does, `f2m` does not) are chosen at the start.
`entry` is the directory entry, external: a change gives it a new timestamp, which
is what STOW IFF compares with the one in its list, and STOW R replaces what is
there. Of the return codes those remain that the code tells apart. The ENQ is
conditional, so a program that does not get it gives up. The system returns it when
the program ends. One member is enough, since entries of different members do
not affect each other.

**PdsHandle.** `bh[h]` is one open and the close that goes with it. `at` names the
request the call has come to; a request is one action with two outcomes, and a
failure returns with exactly what the code has given back by then, which is often
nothing. `held` are the pieces of storage obtained and not freed: those the handle
points to and those of an SVC 99 request, whose text units `s99_init` may leave
without storage unnoticed. `OPEN`'s block size becomes `dcbblksi` and, as long as
the block is obtained with it, `block_size`; `WriteShortBlock` is what `write_block`
does to `dcbblksi` afterwards.

**ZTime.** A `time_t` is a day and a second of it, because TLC's integers are too
narrow. `j_to_mmdd` and `mmdd_to_j` are written with the number of days before a
month instead of their loops, and an assumption that every run with the module
evaluates ties those numbers to the table of `ztime.c`. Packed decimal digits are
computed as the code does, byte by byte.

**MemDir.** `dir[n]` is the entry as DESERV delivers it. The five ways to change an
entry differ in what they write: this library with statistics or without
(`WriteEntry`), an editor that keeps the date of creation and writes short or
extended counts (`EditEntry`), programs that write no statistics (`WithoutStats`),
an alias (`AddAlias`), a deletion. All but the first are external. `openmemdir` is
one action, for DESERV delivers all entries in one call and the code then works on
its copy. What qsort does with equal entries is a choice. `smde_to_mstat` takes the
`mstat` it is given, so what it leaves as it was stays visible; `mstat` begins
`Unset`, as the one on `readwriterec`'s stack. Strings are modelled by who holds
them: `Duplicated` is decided by flags, as in `mstat_to_mdir`, `Strings` by
pointers, as in `free_mstat`.

**M2FCopy.** `listing` is the MEMDIR, `cur` its cursor, `found` the member as FIND
found it, `buffer` the file buffer. Between any two steps another program may
replace or delete a member. A piece is a record or a newline; a file is a sequence
of pieces. `EndOfMember` is enabled at any record, for a read error and the end of
the member are the same to m2f; `WriteFile` may put any beginning of the buffer in
the file, for the return codes of `write_file` and `close_file` are not looked at.

## Runs

| Run | Question | Result |
|---|---|---|
| `member_v`, `member_f` | Do a writing and a reading handle, interleaved, with failing block writes and reads, implement `MemberStore`? Are blocks always in bounds and walkable, is nothing lost, and does a reader get exactly what was written? V with records of 0, 4 and 17 bytes for an LRecl of 8 (empty, exact, cut), F with 0, 4 and 9 for 4 | holds |
| `reader` | Does each line of every file of up to ten bytes, in chunks of three, become one record, and does reading end? | holds of the files the code presumes, a last newline adding an empty record |
| `copy` | Does f2m, with and without `-m`, make every entry after a complete flush, keep files apart, stop after a failure, and never enter one member for two files? | holds; keeping files apart only until a copy fails, stopping only with `-m`, members once only without it |
| `directory` | Is each of three programs told the truth about its entry? Is an entry replaced in a PDSE only by a program that has looked at it? Does the ENQ keep a timestamp from being out of date? Do all programs end, and without the ENQ? | holds |
| `handle` | With every request of an open and a close failing at any point: is a handle that is given out whole, is storage freed only when nothing needs it and with the right length, is a DD or DCB that stays always reported, does every close free its handle and ask for its DD to be freed, and is nothing of a request left? | holds; the DD is not asked for when CLOSE fails |
| `listing` | While a directory changes: does `mlsx` print every entry there was, once, in the order asked for by what it prints? Are dates and line counts true after all conversions? Does reading one entry into a used `mstat` say what the entry has? Is every string freed once? | holds, with the exceptions the properties name |
| `m2f` | While other programs replace and delete members: is every file the whole member unless the buffer was full or a read or write failed, does each member get one, are descriptors accounted for, is no other file changed, does m2f end? | holds |
| `member_ttr` | "The 'ttr' needs to be marked as unknown" for each member (`f2m.c:308`) | violated |
| `line_lost` | "no records are lost" (`sample/test/recordloss:11`) | violated |
| `entry_early` | the entry is written "once all the blocks are written" (`f2m.c:310`) | violated |
| `close_leak` | close_pds will "free any allocated storage associated with the handle" (`bpamio.h:99`) | violated |

**Bounds.** `member_*`: blocks of two records or fewer, three records, two
members. That is enough for a block that is full, one that is short, a member of
two blocks followed by another member on the same handle, an empty member, and a
reader that finds one member while another is written or read in part. A fourth
record only repeats a spill. `BpamWrite_ttr` allows five. `reader`: ten bytes
are four chunks, so a line may lie in one chunk, cross two or be as long as two,
and both buffers have changed roles twice. `copy`: three files of two extensions,
two files that map to one member, one name that is too long with files without an
extension, and no file with one; three lines a file; the counters of `BpamWrite`
are large enough never to stop it. `directory`: three programs, with every kind of
data set, entry, mode and choice of who takes the ENQ; each makes at most three
system calls for its entry, and two suffice to overtake each other, the third being
one that does not take the ENQ while two others do. `handle`: two handles, one that
writes short blocks and one that does not, and two block sizes; handles share
nothing, so one would nearly do. `listing`: two members, either of which may become
an alias of the other, and three changes at most, at the last second of 30 December
1999, on the last day of that century and on 29 February 2000, which the code writes
as day 0 of March; line counts on both sides of 32767 and of 65536. `m2f`: two
members, both code pages, one change at any moment, a member of no records, one that
exactly fills the buffer, and one of three records, of which the second does not fit
although its newline does, and the third, an empty one, fits without its newline.

Deadlock is not checked where a program simply has finished.

**Fairness.** `F2MReader` assumes weak fairness of its next step, for
`write_member`'s loop is sequential code that goes on whenever it can, and `M2FCopy`
of m2f's next step, for the same reason; of the other programs it assumes nothing.
`MemberDirectory` assumes it of each program separately: a program is sequential
code too, none of its services waits for another program, and nothing is assumed
of the order in which programs run. The other specifications are about safety; no
caller is obliged to write another record or to close a handle.

**Findings.** The four violated runs show where the code does not do what a
comment or test says; in three more places it does not, and the property that passes
there names the exception.

- `memstart_ttr_known` is set by the first block of a handle and never cleared;
  members after the first are handed to STOW with the first one's TTR.
- `add_line` swaps the buffers only if the inactive one contributed something, which
  a chunk that begins with a newline does not: the next chunk is read over the one
  just read, and its lines are lost.
- A line whose block cannot be written is counted as truncated, and the member is
  entered without it.
- A close that succeeds frees the handle and none of the storage it points to.

The three exceptions that contradict a comment:

- When CLOSE fails close_pds frees the storage and the handle and returns without
  `ddfree` (`bpamio.c:936-945`): the DD stays allocated and nothing has its name any
  more. `basicddfreetest.c` has just that as a defect ("close_pds() (bpamio.c) did not
  call ddfree() when CLOSE failed", :24-27) with the fix "on CLOSE failure:
  ddfree()+free(bh) before return" (:36); of that only `free(bh)` is in the code.
  `NoSilentLeak` says that the handle is freed on every return of `close_pds`, that the
  DD is asked for before every other return, and that the caller is told.
- A file that ends in a newline gets an extra empty record (`f2m.c:125`), and so the
  debug file an extra newline, although it "should be the same as the original file read"
  (`f2m.c:177-179`). `AllLinesRead` says that the records are those of the lines and,
  after a last newline, that one, and no other.
- Reading an entry into an `mstat` that was not cleared leaves `has_ext` and `ispf_stats`
  as they were when the member has neither (`memdir.c:220`; `readwriterec.c:189, 261`),
  although `memdir.h:24, 26` say "true if ISPF statistics saved for this member" and "true
  if this member has extended attributes". `EntryRead` asks for the flags to be false
  only of an `mstat` that was cleared.

The models also do the following, as the code does; the properties name each as an
exception where they touch it.

- `read_line` recognises a buffer that has not been filled by
  `record_offset = record_length = 0` (`f2m.c:153`), which is also the state after an
  empty first line: the first chunk is then read over. `PresumedText` in `F2MReader`
  is what remains, and for it all properties of the reader hold.
- A failed copy is not reported to the loop over extensions (`f2m.c:456`), although
  "No further copies to this dataset will be attempted" (`f2m.c:383`).
- `update_pdse_member_dir_entry` asks for STOW R when the member has no extended
  attributes (`bpamio.c:736`), but `write_member_dir_entry` does that only on a handle
  for update: after a create that found the member it returns the code
  (`bpamio.c:818`), so such a member cannot be written anew.
- The last day of a year is read as day 0 of January of that year, and so as a year
  early (`ztime.c:53`).
- The date of a change is read with the century of the creation (`ispf.c:37`).
- A failed open leaves behind what it has obtained by then, the DD and the open DCB
  included; `OpenIsWhole` and `NoSilentLeak` deny only that the caller is not told.
- Nobody is told that a file of m2f is short: the return codes of `write_file` and
  `close_file` are not looked at (`m2f.c:185, 189`), and a read error ends a member like
  its end (`m2f.c:174`). `made.good`, by which `FileIsMember` tells these files from the
  others, is a history variable of the model.

One thing is modelled but not a finding, since no caller in the repository reads on
after a negative return: after the end of data `next_record_start` is reset and
`line_num` is not, so one more read delivers the last block again.

## Proofs

Every invariant, every action property and the refinement that a passing run checks
is also a theorem, proved for all values of the constants. What the theorems do not
say is that anything ever ends.

`BpamWriteProofs` proves of `BpamWrite`, for every record format, LRecl, block
size, set of record lengths below 64K and any number of records and members:

- `TypeCorrect`: `Spec => []TypeOK`.
- `NoBlockOverflow` and `EveryBlockValidates`. The two need each other and facts
  the runs do not ask for: `LayoutInv` joins `BlockNeverOverflows` and
  `BlocksValidate`. The first is not inductive alone, since that an addition
  does not overflow follows from the guard only when the block in the buffer is
  laid out as `bytes_used` says. The lemmas about geometry (a placed
  record takes up what `UsedAfter` adds, an addition to a walkable block is
  walkable, a record that is added to an empty block fits one) carry the
  arithmetic; the steps of the specification then only say which lemma applies.
- `NoRecordLost`: `NothingLost` is inductive; its lemma is that the identities of
  a block to which a record is appended are the identities of the block and of
  the record.
- `FirstTtrCorrect`: strengthened by `TtrInv`, which says where the first member
  begins while it is being written and that the TTR, once known, is that place.

`BpamMemberProofs` proves of a writing and a reading handle on one data set:

- `RecordsReadBack` (`ReadBack`) and `EndAfterAll` (`EndMeansAll`). Neither is
  inductive, for neither says where in a block the reading handle is. `MemberInv`
  does. Records are numbered in the order `write_record` took them, so those of a
  block, of a member and of what was delivered are each a run of consecutive numbers,
  and an invariant only has to name where the runs begin: `OpenInv` says that the
  member being written lies in the blocks from `begin` to the end of the disk and in
  the buffer, `DirInv` that every member entered lies between its first block and an
  end-of-file mark, `ReaderInv` that `next_record_start` and `next_record_len` are
  those of the last record delivered and that what was delivered is a run from the
  member's first record. That `next_record` goes from one record of a block to the
  next, and notices the end of the block, follows from the layout (`Readable`), which
  every block on disk has by the `LayoutInv` of `BpamWriteProofs`.
- `HandlesImplementStore`: the refinement of `MemberStore`. `OnDisk`, which the
  refinement mapping is made of, gathers the records of a member block by block
  and so has no closed form; `OnDiskRun` shows that for a well-formed member it is the
  run of its numbers. Then each action of the writing handle is one of `MemberStore`
  or a stutter (`WriterSimulates`), and each of the reading one (`ReaderSimulates`).

`F2MReaderProofs` proves of the line reader, for files of any length, chunks of any
size and every width of `size_t` that holds a few of them:

- `ReaderTypes`: `TypeOK` for every file, those the code does not presume included.
- `LinesKeptInOrder`, `EveryLineRead`, `SpansInData`. All three come from `ReadInv`,
  which says at each place of `write_member` what the two buffers hold and what their
  spans are: before `read_line` the span of the active buffer ends where the last line
  does (`LastLineIn`), before `add_line` the two spans together are the next line and
  nothing else (`LineIn`), and the records so far are the lines that begin before it.
  `PresumedText` is a hypothesis inside `ReadInv` exactly as in the properties; the
  proof uses it where a chunk would begin with a newline, the case in which `add_line`
  does not swap. `EveryLineRead` also needs `RecordsOfText`: the pieces between newlines
  are the lines of the text and, after a last newline, an empty one.

`F2MCopyProofs` proves:

- `F2MKeepsOrder`: `CopySpec => KeepsOrder`. Its inductive invariant `OrderInv` is
  that before the directory entry the block is empty; with it each action of f2m is
  shown to be an operation of the handle specification at a point where it may be
  called, the opening of a fresh handle, or a stutter.
- `F2MHandlesSound`: the safety properties of `BpamWrite` hold of f2m, through all
  the handles it opens. `KeepsOrder` reduces this to the step lemmas of
  `BpamWriteProofs` and to `FreshHandleIsSound`, that a handle just opened has the
  invariants.
- `CopyTypesCorrect`, `MembersAreFiles` and `NoFileReplaced`, from `CopyInv`. Its parts
  are `PlaceInv` (which places of the code a combination of loop variables can be in),
  `OriginInv` (files are copied in the order of the table, and what waits to be entered
  are the last records taken, all of the file being copied) and `EnteredInv` (each
  member is that of a file before the one being copied, and their order is the
  table's). With `-m` a failure leaves the loop, without it the handle goes on with
  records left over; this is where `MemberIsFile` has its exception.
- `NoneAfterFailure`: the action property `NoFurtherCopiesMapped`, from `PlaceInv`.

`M2FCopyProofs` proves of `M2FCopy`, for any members, changes and size of the buffer:

- `TypeCorrect`: among it that nothing is put past the end of the buffer. It needs
  `AtStart`, that the cursor is 0 when the listing is made.
- `DescriptorsAreAccounted` and `FilesAreNotOverwritten`: both from `OpenFiles`, that
  the file of the entry being copied is open; with it a write to a closed file is
  excluded.
- `FilesAreMembers`: `FileIsMember`, from `BufferInv` (the pieces in the buffer are in
  order, and as long as the member fits they are all that was read), `MadeInv` (a file
  once made is as it was made and is not being written) and `PassedInv` (the entries
  passed are done with).

`MemberDirectoryProofs` proves of `MemberDirectory`, for any number of programs:

- `DirectoryTypes` and `ReturnsAreTrue`: inductive as they stand, since the step
  that makes an entry is the one that returns 0. `StepFrame` says what the fifteen
  actions have in common, so that most steps need not look at them one by one.
- `EnqProtects`: strengthened by `HolderInv`, that a program which takes the ENQ has
  it while it is under way. With it no other program can be at a STOW while one is
  between its DESERV and its update.
- `NoEntryLost`: strengthened by `StampInv`, that timestamps tell entries apart and
  that no program is before a STOW R of a PDSE member it writes anew. It needs no
  ENQ, nor does it assume that anyone takes it.

`PdsHandleProofs` proves of `PdsHandle`, for any handles and block sizes, all five
properties of the run `handle`: `HandleTypes`, `OpenHandleIsWhole`,
`BlocksFreedWhole`, `LeaksAreReported`, `NoRequestHeld`. A step changes one handle,
and what it makes of it depends on that handle alone; so the invariant is a predicate
on one handle, which says for each place of an open or a close what is held there.
`OpenIsWhole` alone is not inductive: that `CLOSE` finds the DD allocated follows
from what every request before has added. `LeaksAreReported` is about steps: the
invariant before and after one gives what the caller was told, and `CloseReturns` looks
at each step with which a close can return.

`MemDirProofs` proves of the operators of `ZTime`:

- `DateRoundTrip`: every date of the years 1900 to 2099 that is written as a packed
  date is read back as the same day, except the last day of a year, which is read as
  day 0 of its January. The lemmas are that two digits of packed decimal come back,
  that the century and the two digits of the year do, and that the day of the year
  does, one step for each month.
- `TodWithinTwoSeconds`: a time read from the TOD clock is never later than the one
  it was set at, and at most two seconds earlier.

and of `MemDir`, for any names, times of the years 1970 to 2099, changes and orders:

- `ListingStringsSafe`: the strings that are duplicated, by flags, and those that are
  freed, by pointers, are the same, because `desp_copy_name_and_alias` sets a pointer
  exactly where it sets a flag and nothing after it touches either (`EntryStrings`).
  The invariant says besides that a MEMDIR keeps its entries while it is read.
- `MemDirTypes`, `ListingInOrder`, `ListingTellsTruth` and `EntryTellsTruth`. The
  properties speak of what is read; the invariant `MemDirInv` begins with what is
  written. `DirInv` says that every entry is true of its member (`EntryTrue`), which
  each way to change an entry keeps: also `EditEntry`, which keeps a date of creation
  it did not write, and the halfword count that is left 0 when the number does not fit
  it. `StatsRead` and `ExtRead` say what is read of a true entry, by way of
  `LocalDate` and `LocalTime`: what `localtime` makes of a time is that date and time
  of day. For that the year `localtime` chooses must be the only one whose days hold
  the time, which is a matter of the lengths of years (`YearLength`). `ListingInv` says
  that the MEMDIR has one entry for each member that was there, in order, and that
  what is printed are its first entries; that the time printed is the time sorted by
  needs `print_mem` and `cmp_date` to agree on which of two times an entry has
  (`ShownTime`). That printing a time loses nothing needs it to be one whose date
  is of the years 1899 to 2099, also if it was read with the wrong century.

Some of these are inductions: over the blocks of a member, the lines of a file, the
bytes of records, the years. The rules of induction of the proof library take an
operator as a parameter, which the provers at hand cannot instantiate, so these proofs
take the least number for which a statement fails (`LeastSuch`, `LeastNumber`, from
`WFMin`) and show that it does not. A function defined by recursion, such as
`FileBytes`, is first shown to exist in the same way.

The assumptions are `GeometryAssumption`, `WriteAssumption`, `ReaderAssumption`,
`CopyAssumption`, `DirectoryAssumption`, `HandleAssumption`, `DaysAssumption`,
`MemDirAssumption`, `NothingAssumption` and `M2FAssumption`, in the modules that
declare the constants; every run evaluates those of its module. Those that say most:
a data set's LRecl and block size are what z/OS accepts; `size_t` holds four chunks
of a file and more; the times of a run of `MemDir` are of the years 1970 to 2099, as
ISPF statistics have one digit for the century, and lines are counted in an `int`;
`Nothing` is not a value it could be taken for.

Only model-checked: that reading, m2f and the programs end (`ReadingEnds`,
`CopyEnds`, `AllEnd`), since liveness under fairness is out of the prover's reach,
and of course the four runs that find what the code does otherwise than it says.

## Not modelled

- Bytes of records, EBCDIC, messages and debug output, the columns of `mlsx`.
- RECFM=U, `read(2)` failing in f2m, and lengths from 65532 bytes up, which no
  caller passes.
- Library and system services (`calloc`, SVC 99, OPEN, STOW, DESERV) except by
  what the code sees of them. In `MemDir` a failure of DESERV or of storage is one
  failure of `openmemdir`; what it leaves allocated in the middle is not followed, nor
  is the handle that a failed listing keeps.
- Two extensions that differ only in case name one data set with `-m`; `F2MCopy`
  takes them for two.
- Daylight saving time, which `mktime` and `localtime` handle on both sides of the
  conversions.
- The user ids, the version numbers and two of the three line counts of ISPF
  statistics, which are copied like the one that is there.
- `readwriterec`'s comparison of what it reads back, and the return code of `main` in
  f2m and m2f, which is 0 whatever happened.
- `STOW_C`, which passes the list address as the DCB (`dio.c:54`): nothing calls it.
- The assembler linkage in `core/` (return codes of the services excepted), the
  generated mapping macros, option parsing, the examples under `asmxmp/` and `perf/`:
  declarations, straight-line code, or not part of the library.

## Plan

What is left, the first being the most valuable:

1. `openmemdir` in steps, with what each failing one leaves behind, in the manner of
   `PdsHandle`, and the proof that goes with it.
2. `M2FCopy` on `BpamRead` instead of on members that are read whole; then
   `RecordsReadBack` gives what `FilesAreMembers` now takes from `Copies`.
3. The formats left out: RECFM=U, and `read(2)` failing in the line reader.
