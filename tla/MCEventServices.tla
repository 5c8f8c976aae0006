-------------------------- MODULE MCEventServices --------------------------
(* Small worlds for EventServices.                                         *)
EXTENDS EventServices

(* Node 1 has one switch: its default event is <<0, 1, 0, 1>>.  The other  *)
(* event taught is a short one with the same hash, 8.                      *)
DefaultEvent == <<0, 1, 0, 1>>
Colliding    == <<0, 0, 0, 8>>
MCTaught     == {DefaultEvent, Colliding}
=============================================================================
