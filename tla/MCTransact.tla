----------------------------- MODULE MCTransact -----------------------------
(* Transact with three beforeSign hooks, enough for a hook that signs between *)
(* two that change the request, and one hook of each later stage.            *)
EXTENDS Transact
=============================================================================
