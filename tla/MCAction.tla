------------------------------ MODULE MCAction -------------------------------
(* One Instance and three of its actions, plus one with no state to wait for. *)
EXTENDS Action

MCActions == {"reboot", "poweroff", "poweron", "backup"}
MCEtats == {"running", "stopping", "stopped", "starting"}
MCVise == [a \in MCActions |->
  CASE a \in {"reboot", "poweron"} -> "running" [] a = "poweroff" -> "stopped" [] OTHER -> Aucun]
MCChemin == [a \in MCActions |->
  CASE a = "reboot" -> <<"stopping", "starting", "running">>
    [] a = "poweroff" -> <<"stopping", "stopped">>
    [] a = "poweron" -> <<"starting", "running">>
    [] OTHER -> <<>>]
MCAcceptes == [a \in MCActions |-> IF a = "poweron" THEN {"stopped"} ELSE {"running"}]
MCDeparts == {[etat |-> "running", reste |-> <<>>], [etat |-> "stopped", reste |-> <<>>]}
\* A machine another call has just started, seen before it is up.
MCEnTransition == {[etat |-> "starting", reste |-> <<"running">>]}
==============================================================================
