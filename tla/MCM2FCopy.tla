----------------------------- MODULE MCM2FCopy ------------------------------
(* M2FCopy on members of no records, of two that fill the buffer with their newlines, *)
(* and of three, some of whose pieces fit in what room is left and others do not.     *)
EXTENDS M2FCopy

MCContents == {<<>>, <<0, 3>>, <<3, 2, 0>>}
=============================================================================
