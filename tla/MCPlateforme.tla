---------------------------- MODULE MCPlateforme ----------------------------
(* Two runs, each started again as often as wanted. *)
EXTENDS Plateforme

Deux == {"r1", "r2"}
=============================================================================
