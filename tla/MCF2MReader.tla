---------------------------- MODULE MCF2MReader -----------------------------
(* F2MReader on every file of up to MaxLen bytes. *)
EXTENDS F2MReader
CONSTANT MaxLen
AllFiles == UNION {[1..n -> {"nl", "ch"}] : n \in 0..MaxLen}
=============================================================================
