------------------------------- MODULE Travail -------------------------------
(***************************************************************************)
(* What a role may rely on, of one action it asks for and waits for: what  *)
(* the task knows of one machine, whatever run_action_module and           *)
(* poll_until do in between.  A success means that the machine took the    *)
(* action and is where the action leads; a failure promises nothing, the   *)
(* action may be under way all the same.  The promise of a success has one *)
(* hole, the one the code has: somebody else moved the machine while the   *)
(* task was on its way, and the action leads back to a state it is         *)
(* accepted from.  Action implements this; Roulement is written against it.*)
(***************************************************************************)

CONSTANTS
  Etats,      \* the states a machine rests in
  EnRoute,    \* any state it goes through because of the action
  Acceptes,   \* the states the API takes the action from
  Vise        \* where the action leads

VARIABLES
  travail,    \* the task: see Etapes
  machine

vars == <<travail, machine>>

\* "derange": moved by somebody else before the action; "presse": sent all the same, and
\* the state aimed at is the one it was in.
Etapes == {"aucun", "lance", "derange", "envoye", "presse", "ok", "echec"}

AvantEnvoi == {"lance", "derange"}
Envoyes == {"envoye", "presse"}

TypeOK == travail \in Etapes /\ machine \in Etats \cup {EnRoute}

Init == travail \in {"aucun", "lance"} /\ machine \in Etats

Lancer == travail = "aucun" /\ travail' = "lance" /\ UNCHANGED machine

Accepter == machine \in Acceptes /\ machine' = EnRoute

Envoyer ==
  /\ travail \in AvantEnvoi /\ Accepter
  /\ travail' = IF travail = "derange" /\ Vise \in Acceptes THEN "presse" ELSE "envoye"

\* The action may have been taken when its answer is lost.
Echouer ==
  /\ travail \in AvantEnvoi \cup Envoyes
  /\ travail' = "echec"
  /\ UNCHANGED machine \/ (travail \in AvantEnvoi /\ Accepter)

Reussir ==
  /\ travail \in Envoyes
  /\ travail = "envoye" => machine = Vise
  /\ travail' = "ok"
  /\ UNCHANGED machine

\* The action comes to its end.
Revenir == machine = EnRoute /\ machine' = Vise /\ UNCHANGED travail

\* Somebody else moves a machine that no action is moving.
Ailleurs ==
  /\ machine # EnRoute /\ travail \notin Envoyes
  /\ machine' \in Etats \ {machine}
  /\ travail' = IF travail = "lance" THEN "derange" ELSE travail

Next == Lancer \/ Envoyer \/ Echouer \/ Reussir \/ Revenir \/ Ailleurs

Spec == Init /\ [][Next]_vars
==============================================================================
