--------------------------- MODULE MCActionStream ---------------------------
(* An instance of ActionStream for TLC: four matching actions with holes     *)
(* between their numbers, one of them without a trx_id.                      *)
EXTENDS ActionStream

MCStream == {2, 3, 5, 6}
MCNumberings == BOOLEAN
MCNoTrx == {3}
=============================================================================
