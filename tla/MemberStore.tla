----------------------------- MODULE MemberStore ----------------------------
(***************************************************************************)
(* What services/include/bpamio.h promises, without blocks, headers or     *)
(* TTRs: records written to a member are batched, reach the data set in    *)
(* order and at the latest with flush, become a member in one step, and a  *)
(* reader that found a member gets exactly its records, one per call, and  *)
(* then a negative return.                                                 *)
(***************************************************************************)
EXTENDS Naturals, Sequences

CONSTANT Lengths   \* lengths records can have on disk

VARIABLES count,     \* records taken so far; the identity of the last one
          buffered,  \* records taken and not yet on disk
          stored,    \* records on disk of the member being written
          members,   \* the members, each the sequence of its records
          cur,       \* the member found, 0 before the first find
          got,       \* its records delivered since it was found
          status     \* "reading", or why reading stopped: "eod", "error"

storevars == <<count, buffered, stored, members>>
readvars == <<cur, got, status>>
vars == <<count, buffered, stored, members, cur, got, status>>

Init ==
  /\ count = 0
  /\ buffered = <<>>
  /\ stored = <<>>
  /\ members = <<>>
  /\ cur = 0
  /\ got = <<>>
  /\ status = "reading"

\* A record is taken; the records before it may reach the disk at that moment,
\* but never a part of them only.
Take(len) ==
  /\ count' = count + 1
  /\ \/ /\ buffered' = Append(buffered, [id |-> count', len |-> len])
        /\ UNCHANGED stored
     \/ /\ stored' = stored \o buffered
        /\ buffered' = <<[id |-> count', len |-> len]>>
  /\ UNCHANGED <<members, readvars>>

Flush ==
  /\ stored' = stored \o buffered
  /\ buffered' = <<>>
  /\ UNCHANGED <<count, members, readvars>>

\* The member appears, complete: nothing of it is still buffered.
Enter ==
  /\ buffered = <<>>
  /\ members' = Append(members, stored)
  /\ stored' = <<>>
  /\ UNCHANGED <<count, buffered, readvars>>

Find(m) ==
  /\ cur' = m
  /\ got' = <<>>
  /\ status' = "reading"
  /\ UNCHANGED storevars

Read ==
  /\ cur # 0
  /\ status = "reading"
  /\ Len(got) < Len(members[cur])
  /\ got' = Append(got, members[cur][Len(got) + 1])
  /\ UNCHANGED <<storevars, cur, status>>

\* The end is reported when, and only when, every record has been delivered.
End ==
  /\ cur # 0
  /\ status = "reading"
  /\ got = members[cur]
  /\ status' = "eod"
  /\ UNCHANGED <<storevars, cur, got>>

Fail ==
  /\ cur # 0
  /\ status = "reading"
  /\ status' = "error"
  /\ UNCHANGED <<storevars, cur, got>>

Next ==
  \/ \E len \in Lengths : Take(len)
  \/ Flush \/ Enter
  \/ \E m \in 1..Len(members) : Find(m)
  \/ Read \/ End \/ Fail

Spec == Init /\ [][Next]_vars
=============================================================================
