------------------------------ MODULE MCEngine ------------------------------
(* The machines of the engine adapters, each on its own: the wrapper of the   *)
(* kit with two workers and two accounts, the two engines' sockets, and HTTP   *)
(* calls.                                                                     *)
EXTENDS EngineKit, Transports

VARIABLE part

MCKeys == {<<1, 1>>, <<1, 2>>}
\* A message in frames, a short one, one that is too large, and another.
MCSizes == <<2, 1, 3, 1>>

\* One too large between two that fit.
MCPackets == <<1, 2, 1>>

MCVars == <<part, vars, socketVars, fetchVars, godotVars>>
MCInit == /\ part \in {"kit", "socket", "fetch", "godot"}
          /\ Init /\ SocketInit /\ FetchInit /\ GodotInit
MCNext == \/ part = "kit" /\ Next /\ UNCHANGED <<part, socketVars, fetchVars, godotVars>>
          \/ part = "socket" /\ SocketNext /\ UNCHANGED <<part, vars, fetchVars, godotVars>>
          \/ part = "fetch" /\ FetchNext /\ UNCHANGED <<part, vars, socketVars, godotVars>>
          \/ part = "godot" /\ GodotNext /\ UNCHANGED <<part, vars, socketVars, fetchVars>>
MCSpec == MCInit /\ [][MCNext]_MCVars /\ Fairness /\ GodotFairness

\* Nobody waits for ever: the workers of a retired kit unwind, and every call of Godot's
\* socket returns.
WaitsEnd == RetiredUnwinds /\ GodotCallsReturn
=============================================================================
