------------------------------- MODULE MemDir -------------------------------
(***************************************************************************)
(* The directory of one data set and those who read it with the functions  *)
(* of services/src/memdir.c: mlsx, which lists it, and a program that asks *)
(* for single entries as readwriterec does; while f2m, readwriterec and    *)
(* other programs change it.  What a directory entry holds is written by   *)
(* add_mem_stats (bpamio.c) and read through ispf.c and ztime.c.           *)
(*                                                                         *)
(* dir[n] is the entry n as DESERV delivers it (an SMDE): whether it is an *)
(* alias, and of what; the timestamp of its extended attributes; its user  *)
(* data.  A pointer or offset that is null is Nothing.  Of the three line  *)
(* counts of ISPF statistics one stands for all.  Each change of the       *)
(* directory happens at a later one of Instants, the times the run has.    *)
(*                                                                         *)
(* mlsx is at "start", "reading" or "ended", sort is the order it asks     *)
(* for, md its MEMDIR, live the strings of the MEMDIR that are allocated.  *)
(* Where it is not run, at is "other" and the other program runs: mstat is *)
(* its structure, zeroed whether it was cleared for the last reading (the  *)
(* two share nothing but the directory, and do not change it).  past, snap *)
(* and told are history: when each member was truly created and changed,   *)
(* the same when mlsx asked, and of the entry in mstat; printed is mlsx's  *)
(* output.                                                                 *)
(***************************************************************************)
EXTENDS ZTime, FiniteSets

CONSTANTS Names,      \* numbers, in the order of strcmp; 0 is no name
          Instants,   \* a sequence of times, each later than the one before
          Lines,      \* numbers of lines that members have
          Nothing, Short

\* Times; those of the years 1970 to 2099, which the run may have; dates with the time.
DaySeconds == 86400
Clock == 0..DaySeconds - 1
Times == [day: Int, sec: Clock]
Moments == [day: 0..YearDay(200) - 1, sec: Clock]
Tms == [year: Int, mon: 0..11, mday: Nat, hour: 0..23, min: 0..59, sec: 0..59]

\* Statistics in an entry, an entry, what was truly done to it, an mstat, a MEMDIR.
Bytes == 0..255
USHRT_MAX == 65535
Halfwords == 0..USHRT_MAX
INT_MAX == 2147483647
Dates == [century: Bytes, pdjd: [1..3 -> Bytes]]
DiskStats == [extended: BOOLEAN, create: Dates, mod: Dates, curr: Halfwords, full: Nat,
              time: [hours: Bytes, minutes: Bytes, seconds: Bytes]]
Smdes == [alias: BOOLEAN, primary: Names \cup {Nothing}, ext: Nat \cup {Nothing},
          user: DiskStats \cup {Nothing, Short}]
Pasts == [created: Moments, changed: Moments, lines: Nat]
Mstats == [is_alias: BOOLEAN, name: Nat \cup {Nothing}, alias_name: Nat \cup {Nothing},
           has_ext: BOOLEAN, ext_changed: Times, ispf_stats: BOOLEAN,
           ispf_created: Times, ispf_changed: Times, ispf_current_lines: Nat]
Memdirs == [head: Seq([of: Names, m: Mstats]), cur: Nat]

ASSUME MemDirAssumption ==
  /\ Names \subseteq Nat \ {0} /\ IsFiniteSet(Names)
  /\ Lines \subseteq Nat /\ \A l \in Lines : l <= INT_MAX
  /\ Instants \in Seq(Moments)
  /\ \A i, j \in DOMAIN Instants : i < j => After(Instants[j], Instants[i])

\* What is nothing is no name, entry, history, date or MEMDIR.
ASSUME NothingAssumption ==
  /\ Nothing # Short /\ Nothing \notin Nat /\ Nothing \notin Smdes /\ Nothing \notin Pasts
  /\ Nothing \notin Tms /\ Nothing \notin Memdirs

VARIABLES kind, dir, past, tick, at, sort, md, live, snap, printed, mstat, zeroed, told

directory == <<kind, dir, past, tick>>
mlsx == <<at, sort, md, live, snap, printed>>
reader == <<mstat, zeroed, told>>
vars == <<kind, dir, past, tick, at, sort, md, live, snap, printed, mstat, zeroed, told>>

SHRT_MAX == 32767
Epoch == [day |-> 0, sec |-> 0]
Members == {n \in Names : dir[n] # Nothing}

\* A struct mstat of zeros, and one that was never set.
Zeroed == [is_alias |-> FALSE, name |-> Nothing, alias_name |-> Nothing,
           has_ext |-> FALSE, ext_changed |-> Epoch, ispf_stats |-> FALSE,
           ispf_created |-> Epoch, ispf_changed |-> Epoch, ispf_current_lines |-> 0]
Unset == [Zeroed EXCEPT !.has_ext = TRUE, !.ispf_stats = TRUE]

\* strdup(NULL) copies what is at address 0.
Garbage == 0

Init ==
  /\ kind \in {"PDS", "PDSE"}
  /\ dir = [n \in Names |-> Nothing] /\ past = [n \in Names |-> Nothing]
  /\ tick = 0
  /\ at \in {"start", "other"} /\ sort = Nothing
  /\ md = Nothing /\ live = {} /\ snap = Nothing /\ printed = <<>>
  /\ mstat = Unset /\ zeroed = FALSE /\ told = Nothing

-----------------------------------------------------------------------------
(* What is written into an entry                                           *)

create_mstat(n, t, num_lines) ==
  [Zeroed EXCEPT !.name = n, !.ispf_stats = TRUE, !.ispf_created = t, !.ispf_changed = t,
                 !.ispf_current_lines = num_lines, !.has_ext = TRUE, !.ext_changed = t]

TimeOfDay(tm) == [hours |-> d_to_pd(tm.hour, FALSE), minutes |-> d_to_pd(tm.min, FALSE),
                  seconds |-> d_to_pd(tm.sec, FALSE)]

CountIfAny(m) == m.ispf_current_lines   \* mutant: a halfword count of any number
ShortCount(m) == IF m.ispf_current_lines < SHRT_MAX THEN m.ispf_current_lines ELSE 0

\* The statistics written at time t: of creation, those of the mstat if it has any.
add_mem_stats(m, t) ==
  LET ltime == localtime(t)
  IN  [extended |-> TRUE,
       create |-> tm_to_pdjd(IF m.ispf_stats THEN localtime(m.ispf_created) ELSE ltime),
       mod |-> tm_to_pdjd(ltime), time |-> TimeOfDay(ltime),
       curr |-> IF m.ispf_stats THEN ShortCount(m) ELSE 0,
       full |-> IF m.ispf_stats THEN m.ispf_current_lines ELSE 0]

-----------------------------------------------------------------------------
(* What is read from it                                                    *)

DateAndTime(date, hour, min, sec) ==
  [year |-> date.year, mon |-> date.mon, mday |-> date.mday,
   hour |-> hour, min |-> min, sec |-> sec]

set_create_time(id) == DateAndTime(pdjd_to_tm(id.create.pdjd, id.create.century), 0, 0, 0)

\* With the century of the creation.
set_mod_time(id) ==
  DateAndTime(pdjd_to_tm(id.mod.pdjd, id.create.century),
              pd_to_d(id.time.hours), pd_to_d(id.time.minutes), pd_to_d(id.time.seconds))

ShortLines(id) == id.curr   \* mutant: the extended counts are not looked at
CurrentLines(id) == IF id.extended THEN id.full ELSE id.curr

copy_ispf_stats_into_mstat(id, m) ==
  [m EXCEPT !.ispf_stats = TRUE, !.ispf_created = mktime(set_create_time(id)),
            !.ispf_changed = mktime(set_mod_time(id)), !.ispf_current_lines = CurrentLines(id)]

ExtUnsaid(timestamp, m) == [m EXCEPT !.ext_changed = tod_to_time(timestamp)]   \* mutant: has_ext is not set
copy_extended_attributes_into_mstat(timestamp, m) ==
  [m EXCEPT !.has_ext = TRUE, !.ext_changed = tod_to_time(timestamp)]

desp_copy_name_and_alias(n, smde, m) ==
  [m EXCEPT !.is_alias = smde.alias,
            !.name = IF smde.alias THEN smde.primary ELSE n,
            !.alias_name = IF smde.alias THEN n ELSE Nothing]

\* What an entry has not, stays in the mstat as it was; only user data that are too
\* short for statistics say that there are none.
smde_to_mstat(n, smde, m) ==
  LET named    == desp_copy_name_and_alias(n, smde, m)
      extended == IF smde.ext = Nothing THEN named
                  ELSE copy_extended_attributes_into_mstat(smde.ext, named)
  IN  CASE smde.user = Nothing -> extended
        [] smde.user = Short   -> [extended EXCEPT !.ispf_stats = FALSE]
        [] OTHER               -> copy_ispf_stats_into_mstat(smde.user, extended)

\* DESERV GET of one name, and GET_ALL: the entries as they are now, and what follows is
\* done with a copy.
find_desp(n) == dir[n]
get_desp_all == [n \in Members |-> dir[n]]

desp_to_mstats(desp) == [n \in DOMAIN desp |-> smde_to_mstat(n, desp[n], Zeroed)]

-----------------------------------------------------------------------------
(* The order of a listing                                                  *)

StatsFirst(m) ==   \* mutant: not the time that is printed
  IF m.ispf_stats THEN m.ispf_changed ELSE IF m.has_ext THEN m.ext_changed ELSE Epoch

\* The time cmp_date compares.
chgtime(m) == IF m.has_ext THEN m.ext_changed ELSE IF m.ispf_stats THEN m.ispf_changed ELSE Epoch

\* Whether l may stand before r: cmp_mem_time (the latest first) and its three sisters.
MayPrecede(by, l, r) ==
  CASE by.time /\ by.reverse   -> ~After(chgtime(l), chgtime(r))
    [] by.time /\ ~by.reverse  -> ~After(chgtime(r), chgtime(l))
    [] ~by.time /\ by.reverse  -> r.name <= l.name
    [] OTHER                   -> l.name <= r.name

\* What qsort may make of the entries: it keeps equal ones in no certain order.
Arrangements(by, entries) ==
  LET n == Cardinality(Members)
  IN  {s \in [1..n -> Members] :
         /\ \A m \in Members : \E i \in 1..n : s[i] = m
         /\ \A i, j \in 1..n : i < j => MayPrecede(by, entries[s[i]], entries[s[j]])}

-----------------------------------------------------------------------------
(* Storage of strings                                                      *)

\* The strings free_mstat frees of an mstat: its pointers that are not null.
Strings(m) ==
  {f \in {"name", "alias_name", "ext_id", "ispf_id"} :
     CASE f = "name" -> m.name # Nothing [] f = "alias_name" -> m.alias_name # Nothing
       [] f = "ext_id" -> m.has_ext [] f = "ispf_id" -> m.ispf_stats}

IdOnlyWithStats(m) ==   \* mutant: ext_id is duplicated only together with ispf_id
  {"name"} \cup (IF m.is_alias THEN {"alias_name"} ELSE {})
           \cup (IF m.ispf_stats THEN {"ispf_id", "ext_id"} ELSE {})

\* Those that mstat_to_mdir duplicates before it frees the array it copies from.
Duplicated(m) ==
  {"name"} \cup (IF m.is_alias THEN {"alias_name"} ELSE {})
           \cup (IF m.ispf_stats THEN {"ispf_id"} ELSE {})
           \cup (IF m.has_ext THEN {"ext_id"} ELSE {})

\* The entries in a MEMDIR; strdup makes something of no name, too.
mstat_to_mdir(mstats) ==
  [n \in DOMAIN mstats |->
     IF mstats[n].name = Nothing THEN [mstats[n] EXCEPT !.name = Garbage] ELSE mstats[n]]

-----------------------------------------------------------------------------
(* mlsx                                                                    *)

openmemdir ==
  /\ at = "start" /\ Members # {}
  /\ LET entries == mstat_to_mdir(desp_to_mstats(get_desp_all))
     IN  /\ sort' \in [time: BOOLEAN, reverse: BOOLEAN]
         /\ \E order \in Arrangements(sort', entries) :
              md' = [head |-> [i \in DOMAIN order |-> [of |-> order[i], m |-> entries[order[i]]]],
                     cur |-> 0]
         /\ live' = UNION {{<<n, f>> : f \in Duplicated(entries[n])} : n \in Members}
  /\ snap' = past
  /\ at' = "reading"
  /\ UNCHANGED <<printed, directory, reader>>

\* It returns NULL, for an empty directory too.
openmemdir_fails ==
  /\ at = "start"
  /\ at' = "ended"
  /\ UNCHANGED <<sort, md, live, snap, printed, directory, reader>>

\* The line mlsx prints, and the time in it: "." is no time.
print_mem(e) ==
  [name |-> e.m.name, alias_name |-> e.m.alias_name, lines |-> e.m.ispf_current_lines,
   changed |-> IF e.m.has_ext THEN localtime(e.m.ext_changed)
               ELSE IF e.m.ispf_stats THEN localtime(e.m.ispf_changed) ELSE Nothing]

readmemdir ==
  /\ at = "reading" /\ md.cur # Len(md.head)
  /\ md' = [md EXCEPT !.cur = @ + 1]
  /\ printed' = Append(printed, print_mem(md.head[md.cur + 1]))
  /\ UNCHANGED <<at, sort, live, snap, directory, reader>>

closememdir ==
  /\ at = "reading" /\ md.cur = Len(md.head)
  /\ live' = live \ UNION {{<<e.of, f>> : f \in Strings(e.m)} : e \in {md.head[i] : i \in DOMAIN md.head}}
  /\ md' = Nothing /\ at' = "ended"
  /\ UNCHANGED <<sort, snap, printed, directory, reader>>

-----------------------------------------------------------------------------
(* A program that reads entries                                            *)

\* The program may clear its mstat; readwriterec does not.
readmemdir_entry(n, clear) ==
  /\ at = "other"
  /\ find_desp(n) # Nothing
  /\ mstat' = smde_to_mstat(n, find_desp(n), IF clear THEN Zeroed ELSE mstat)
  /\ zeroed' = clear
  /\ told' = [truly |-> past[n], ext |-> dir[n].ext # Nothing,
              stats |-> dir[n].user \notin {Nothing, Short}]
  /\ UNCHANGED <<directory, mlsx>>

-----------------------------------------------------------------------------
(* Changes of the directory                                                *)

\* At time i the entry n becomes e, of a member created and changed as p says.
Change(n, i, e, p) ==
  /\ tick < i /\ tick' = i
  /\ dir' = [dir EXCEPT ![n] = e]
  /\ past' = [past EXCEPT ![n] = p]
  /\ UNCHANGED <<kind, mlsx, reader>>

\* Only a PDSE has extended attributes.
Timestamp(i) == IF kind = "PDSE" THEN tod(Seconds(Instants[i])) ELSE Nothing

\* STOW of a member: readwriterec gives it statistics, f2m none.  After STOW R there may
\* be no extended attributes.
WriteEntry(n) ==
  \E i \in DOMAIN Instants :
    LET t == Instants[i]
    IN  \E m \in {[Zeroed EXCEPT !.name = n]} \cup {create_mstat(n, t, l) : l \in Lines},
           ext \in {Nothing, Timestamp(i)} :
          /\ dir[n] # Nothing => ~dir[n].alias
          /\ Change(n, i, [alias |-> FALSE, primary |-> Nothing, ext |-> ext,
                           user |-> add_mem_stats(m, t)],
                    [created |-> t, changed |-> t, lines |-> m.ispf_current_lines])

\* An editor (external) keeps the date of creation and writes statistics of either
\* length; other programs write user data that are none, or no user data.
EditEntry(n) ==
  \E i \in DOMAIN Instants, l \in Lines, ext \in BOOLEAN :
    LET now  == localtime(Instants[i])
        kept == dir[n] # Nothing /\ dir[n].user \notin {Nothing, Short}
    IN  /\ dir[n] # Nothing => ~dir[n].alias
        /\ ~ext => l \in Halfwords
        /\ Change(n, i, [alias |-> FALSE, primary |-> Nothing, ext |-> Timestamp(i),
                         user |-> [extended |-> ext, mod |-> tm_to_pdjd(now),
                                   create |-> IF kept THEN dir[n].user.create ELSE tm_to_pdjd(now),
                                   time |-> TimeOfDay(now),
                                   curr |-> IF ext THEN 0 ELSE l, full |-> IF ext THEN l ELSE 0]],
                  [created |-> IF kept THEN past[n].created ELSE Instants[i],
                   changed |-> Instants[i], lines |-> l])

WithoutStats(n) ==
  \E i \in DOMAIN Instants, user \in {Nothing, Short} :
    /\ dir[n] # Nothing => ~dir[n].alias
    /\ Change(n, i, [alias |-> FALSE, primary |-> Nothing, ext |-> Timestamp(i), user |-> user],
              [created |-> Instants[i], changed |-> Instants[i], lines |-> 0])

\* n becomes an alias of p; a PDS does not say of what.
AddAlias(n, p) ==
  /\ dir[n] = Nothing /\ dir[p] # Nothing /\ ~dir[p].alias
  /\ \E i \in DOMAIN Instants :
       Change(n, i, [dir[p] EXCEPT !.alias = TRUE,
                                   !.primary = IF kind = "PDSE" THEN p ELSE Nothing], past[p])

DeleteEntry(n) ==
  /\ dir[n] # Nothing
  /\ \E i \in DOMAIN Instants : Change(n, i, Nothing, Nothing)

Next ==
  \/ openmemdir \/ openmemdir_fails \/ readmemdir \/ closememdir
  \/ \E n \in Names :
       \/ \E clear \in BOOLEAN : readmemdir_entry(n, clear)
       \/ WriteEntry(n) \/ EditEntry(n) \/ WithoutStats(n) \/ DeleteEntry(n)
       \/ \E p \in Names : AddAlias(n, p)

Spec == Init /\ [][Next]_vars

-----------------------------------------------------------------------------
(* Properties *)

\* The numbers written into an entry fit its fields.
TypeOK ==
  /\ kind \in {"PDS", "PDSE"}
  /\ \A n \in Members :
       /\ dir[n] \in Smdes
       /\ past[n] \in Pasts
  /\ tick \in 0..Len(Instants)
  /\ at \in {"start", "reading", "ended", "other"}
  /\ sort \in [time: BOOLEAN, reverse: BOOLEAN] \cup {Nothing}
  /\ at = "reading" <=> md # Nothing
  /\ md # Nothing =>
       /\ md \in Memdirs
       /\ md.cur = Len(printed) /\ md.cur <= Len(md.head)
  /\ live \subseteq Names \X {"name", "alias_name", "ext_id", "ispf_id"}
  /\ mstat \in Mstats /\ zeroed \in BOOLEAN

\* The time a line shows; none comes before all times.
Shown(p) == IF p.changed = Nothing THEN Epoch ELSE mktime(p.changed)

InOrder(p, q) ==
  IF sort.time THEN IF sort.reverse THEN ~After(Shown(p), Shown(q)) ELSE ~After(Shown(q), Shown(p))
               ELSE IF sort.reverse THEN q.name <= p.name ELSE p.name <= q.name

\* What mlsx prints is in the order asked for, by what it prints (cmp_date and print_mem
\* choose between two times each on its own), and at the end it has printed every entry
\* there was, once, whatever has become of the directory meanwhile.
ListingSorted ==
  /\ \A i, j \in DOMAIN printed : i < j => InOrder(printed[i], printed[j])
  /\ at = "ended" /\ snap # Nothing =>
       LET members == {n \in Names : snap[n] # Nothing}
       IN  /\ Len(printed) = Cardinality(members)
           /\ \A n \in members : \E i \in DOMAIN printed :
                n = IF printed[i].alias_name # Nothing THEN printed[i].alias_name ELSE printed[i].name

Century(t) == localtime(t).year \div 100

\* What comes back of a date: the last day of a year is read as day 0 of its January.
DayRead(t) ==
  LET tm == localtime(t)
  IN  IF tm.mon = 11 /\ tm.mday = 31 THEN DayOf([tm EXCEPT !.mon = 0, !.mday = 0]) ELSE t.day

StatsTrue(m, p) ==
  /\ m.ispf_created = [day |-> DayRead(p.created), sec |-> 0]
  /\ Century(p.created) = Century(p.changed) =>
       m.ispf_changed = [day |-> DayRead(p.changed), sec |-> p.changed.sec]
  /\ m.ispf_current_lines = p.lines

ExtTrue(m, p) == Seconds(p.changed) - Seconds(m.ext_changed) \in {0, 1, 2}

\* Through packed dates, two sets of line counts and the TOD clock, a listing shows when
\* a member was created and changed, and how long it is, as it truly was: except that the
\* last day of a year comes back a year early (j_to_mmdd), and the date of a change in
\* another century than that of creation is anything (set_mod_time).
StatisticsTrue ==
  md # Nothing =>
    \A i \in DOMAIN md.head :
      LET e == md.head[i]
      IN  /\ e.m.ispf_stats => StatsTrue(e.m, snap[e.of])
          /\ e.m.has_ext => ExtTrue(e.m, snap[e.of])

\* A mstat says of an entry read into it what there is to say (memdir.h:32, 39: fields
\* are valid only if a flag is true): with what is there, whatever was in it before;
\* and if it was cleared, no more than that.  The exception is one that was not, as in
\* readwriterec.c:188: a flag of an earlier reading may stay set (memdir.c:220), although
\* memdir.h:26 says "true if this member has extended attributes".
EntryRead ==
  told # Nothing =>
    /\ told.ext => mstat.has_ext /\ ExtTrue(mstat, told.truly)
    /\ told.stats => mstat.ispf_stats /\ StatsTrue(mstat, told.truly)
    /\ zeroed => mstat.has_ext = told.ext /\ mstat.ispf_stats = told.stats

\* Every string a MEMDIR entry points to is allocated, though the array the entry was
\* copied from is freed, and closememdir leaves none (mstat_to_mdir, free_mstat).
StringsSafe ==
  live = IF at # "reading" THEN {}
         ELSE UNION {{<<md.head[i].of, f>> : f \in Strings(md.head[i].m)} : i \in DOMAIN md.head}
=============================================================================
