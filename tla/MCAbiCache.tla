----------------------------- MODULE MCAbiCache -----------------------------
(* Two callers and two contracts, each deployed in versions that share a     *)
(* definition; the application overrides it, and adds one of its own.        *)
EXTENDS AbiCache, TLC

CONSTANTS t1, t2

MCChainAbis == {[x |-> "v1"], [x |-> "v2", y |-> "v2"]}
MCAppAbis == {[x |-> "app"], [z |-> "app"]}
MCSymmetry == Permutations({t1, t2})
=============================================================================
