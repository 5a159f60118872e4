----------------------------- MODULE Transports -----------------------------
(* What the kit is promised by the transports the engines give it: Unreal's   *)
(* socket, Godot's socket, and one HTTP call through either engine or curl.   *)
(* The three share no state.                                                  *)
EXTENDS EngineSocket, EngineFetch, GodotSocket

\* What the transports hand to the kit: whole messages in order, whole answers
\* (the modules say where the code falls short of it).
TransportsWhole == WholeInOrder /\ WholeAnswer /\ GodotWhole
=============================================================================
