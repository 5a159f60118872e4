----------------------------- MODULE MCSessionKit -----------------------------
(* SessionKit with two accounts on one chain and one on another, and two       *)
(* wallet plugins, one of which a later build of the application has dropped.  *)
EXTENDS SessionKit

CONSTANTS w1, w2

MCKeys == {<<1, 1>>, <<1, 2>>, <<2, 1>>}
\* The default of chain 1 moves between the accounts of two plugins.
MCHolds == [w \in {w1, w2} |-> IF w = w1 THEN {<<1, 1>>, <<2, 1>>}
                                          ELSE {<<1, 1>>, <<1, 2>>}]
MCPluginSets == {{w1, w2}, {w1}}
=============================================================================
