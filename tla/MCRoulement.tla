----------------------------- MODULE MCRoulement -----------------------------
(* Five machines in three batches: a first one, one between two others, and a last
   one that is smaller. *)
EXTENDS Roulement

CONSTANTS m1, m2, m3, m4, m5
MCCibles == <<m1, m2, m3, m4, m5>>
==============================================================================
