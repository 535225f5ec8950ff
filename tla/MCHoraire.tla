------------------------------ MODULE MCHoraire ------------------------------
(* Two Instances of one account in two zones, whose region serves no private network;
   another account, empty; one inventory file. *)
EXTENDS Horaire

Deux == {"m1", "m2"}
UnCompte == [m \in Deux |-> "a"]
Zones == [m \in Deux |-> IF m = "m1" THEN "instance/1" ELSE "instance/2"]
LesDeux == {"instance/1", "instance/2"}
Parcours == <<"reseau", "instance/1", "instance/2">>

C(compte, strict, cle) ==
  [compte |-> compte, sources |-> Parcours, strict |-> strict, cache |-> TRUE, cle |-> cle]

\* The access key is an option, or its environment variable.
ParOption == {C("a", TRUE, TRUE), C("a", FALSE, TRUE), C("b", TRUE, TRUE)}

\* The access key is in the configuration file, which another option names.
ParFichier == {C("a", TRUE, FALSE), C("b", TRUE, FALSE)}
=============================================================================
