----------------------------- MODULE MCF2MCopy ------------------------------
(* F2MCopy on three files of two extensions, on two that have the same member, on one *)
(* with too long a name and two without an extension, and on none that has one.       *)
EXTENDS F2MCopy

File(b, e) == [dots |-> FALSE, base |-> b, ext |-> e]
MCGlobSets == {<<File(5, 21), File(6, 23), File(9, 21)>>,
               <<File(3, 21), File(2, 23)>>,
               <<File(8, 21), [dots |-> TRUE, base |-> 6, ext |-> NoName], File(5, NoName)>>,
               <<File(2, NoName)>>}
=============================================================================
