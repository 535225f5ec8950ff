---------------------------- MODULE MCResolution -----------------------------
(* Up to four resources, interchangeable; one name asked for, one that contains it and
   one that does not; pages of two asked for, of one to three served, at most three of
   them; one change (a creation, a removal, a new name) by another actor. *)
EXTENDS Resolution

Symetrie == Permutations(Elements)
==============================================================================
