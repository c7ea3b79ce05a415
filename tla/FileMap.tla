------------------------------ MODULE FileMap -------------------------------
(***************************************************************************)
(* sample/src/filemap.c: which files f2m copies, in which order, and to    *)
(* which members.                                                          *)
(*                                                                         *)
(* A file of glob's result is [dots, base, ext]: whether a directory of    *)
(* its path has a dot in its name, its name up to the last dot, and what   *)
(* follows.  Names are numbers in the order of strcmp, odd ones those with *)
(* lower-case letters; 0 is the empty name.                                *)
(***************************************************************************)
EXTENDS Naturals, Sequences, FiniteSets

CONSTANTS NoName,     \* a null pointer: no dot in the name, no member for it
          TooLong     \* the names of more than MEM_MAX characters

AsItIs(name) == name   \* mutant: names are compared and used as they are
uppercase(name) == name - (name % 2)

\* strrchr looks for the dot in the whole path: the directory's may be the last, and
\* the extension is then the rest of the path, different for each file.
extension(f) ==
  IF f.ext # NoName THEN f.ext ELSE IF f.dots THEN 1000 + f.base ELSE NoName

\* The keys of create_table: files without an extension have none.
Keys(globset) == {extension(globset[i]) : i \in DOMAIN globset} \ {NoName, 0}

\* The numbers of a set in ascending order, and where in glob's order the files of
\* one key are.
Ascending(S) == [i \in 1..Cardinality(S) |-> CHOOSE x \in S : Cardinality({y \in S : y <= x}) = i]
PlacesOf(globset, key) == Ascending({i \in DOMAIN globset : extension(globset[i]) = key})

\* The table of fill_table, sorted by key, with the files of each in glob's order.
create_table(globset) ==
  LET keys == Ascending(Keys(globset))
  IN  [k \in DOMAIN keys |->
         [j \in DOMAIN PlacesOf(globset, keys[k]) |-> globset[PlacesOf(globset, keys[k])[j]]]]

map_file_to_member(f) == IF f.base \in TooLong THEN NoName ELSE uppercase(f.base)

SameFileName(globset) ==   \* mutant: looks for the same file name, not member name
  \E i, j \in DOMAIN globset : i < j /\ globset[i].base = globset[j].base
check_for_duplicate_members(globset) ==
  \E i, j \in DOMAIN globset :
    i < j /\ map_file_to_member(globset[i]) = map_file_to_member(globset[j])
          /\ map_file_to_member(globset[i]) # NoName
=============================================================================
