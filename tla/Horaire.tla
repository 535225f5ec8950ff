------------------------------- MODULE Horaire -------------------------------
(***************************************************************************)
(* The role power_schedule over the inventory: the group comes from the    *)
(* inventory, which may be a cached one, the power states are read live,   *)
(* and the machines that are in a state to leave are acted on one by one,  *)
(* each action waited for.  The accounts change between any two steps;     *)
(* the role is played again and again, on and off, by any configuration.   *)
(***************************************************************************)
EXTENDS Inventaire, FiniteSets

CONSTANTS
  MaxJeux,         \* bound: number of runs of the role
  MaxChangements   \* bound: number of changes made by anybody else

ASSUME HoraireAssumption == MaxJeux \in Nat /\ MaxChangements \in Nat

VARIABLES
  etape,       \* where the role is, in the run under way
  desire,      \* scaleway_power_schedule_desired_state
  check,       \* ansible_check_mode
  lu,          \* lecture.results: the state read of each machine
  resultat,    \* agi.results
  operation,   \* scaleway_operation
  envoyees,    \* history: the machines an action was sent to in this run
  passe,       \* history: those that were in the wanted state at some moment of it
  aQuitter,    \* history: those that were in a state to leave
  jeux, changements

historique == <<envoyees, passe, aQuitter>>
roleVars == <<etape, desire, check, lu, resultat, operation, envoyees>>
bornes == <<jeux, changements>>
vars == <<compteVars, inventaireVars, roleVars, passe, aQuitter, bornes>>

\* Mutant: the wanted state as the caller writes it, not as the API does.
Mut_Vise(d) == d

\* etat_vise and etats_de_depart.
Vise(d) == IF d = "on" THEN "running" ELSE "stopped"

\* Mutant: whatever is not there yet is to be acted on, in flight or locked too.
Mut_Depart(d) == Etats \ {Vise(d), "absente"}

Depart(d) == IF d = "on" THEN {"stopped", "stopped in place"} ELSE {"running"}

NonLu == [m \in Machines |-> "non_lue"]
Rien == [m \in Machines |-> "rien"]
Aucune == [changed |-> {}, already_compliant |-> {}, refused |-> {}, unmeasured |-> {}]
Operations == [changed : SUBSET Machines, already_compliant : SUBSET Machines,
               refused : SUBSET Machines, unmeasured : SUBSET Machines]

TypeOK ==
  /\ InventaireTypeOK
  /\ etape \in {"selection", "lecture", "action", "vert", "rouge"}
  /\ desire \in {"on", "off"} /\ check \in BOOLEAN
  /\ lu \in [Machines -> (Etats \ {"absente"}) \cup {"non_lue", "illisible"}]
  /\ resultat \in [Machines -> {"rien", "attend", "changed", "echec"}]
  /\ operation \in Operations
  /\ envoyees \subseteq Machines /\ passe \subseteq Machines /\ aQuitter \subseteq Machines
  /\ jeux \in 0..MaxJeux /\ changements \in 0..MaxChangements

------------------------------------------------------------------------------
(* What was true at some moment of the run. *)
Eteintes == {"stopped", "stopped in place"}
VersLe(d, e) == IF d = "on" THEN e = "running" ELSE e = "stopped"
ALInverse(d, e) == IF d = "on" THEN e \in Eteintes ELSE e = "running"

Noter(d) ==
  /\ passe' = passe \cup {m \in Machines : VersLe(d, parc'[m])}
  /\ aQuitter' = aQuitter \cup {m \in Machines : ALInverse(d, parc'[m])}

Init ==
  /\ InventaireInit
  /\ etape = "selection" /\ desire = "on" /\ check = FALSE
  /\ lu = NonLu /\ resultat = Rien /\ operation = Aucune
  /\ envoyees = {} /\ passe = {} /\ aQuitter = {}
  /\ jeux = 0 /\ changements = 0

\* The command starts: the inventory first.
Commencer ==
  /\ jeux < MaxJeux /\ jeux' = jeux + 1
  /\ \E c \in Configs, frais \in BOOLEAN : Analyser(c, frais)
  /\ UNCHANGED <<roleVars, passe, aQuitter, changements>>

Parcourir ==
  /\ Decouvrir \/ Refuser \/ Rendre
  /\ UNCHANGED <<roleVars, passe, aQuitter, bornes>>

\* The group, as the inventory has it.  An inventory that could not be parsed is an
\* empty one: Ansible only warns.
Choisir ==
  /\ phase \in {"servi", "refuse"} /\ etape = "selection"
  /\ desire' \in {"on", "off"} /\ check' \in BOOLEAN
  /\ etape' = IF inv.hotes = {} THEN "rouge" ELSE "lecture"
  /\ passe' = {m \in Machines : VersLe(desire', parc[m])}
  /\ aQuitter' = {m \in Machines : ALInverse(desire', parc[m])}
  /\ UNCHANGED <<compteVars, inventaireVars, lu, resultat, operation, envoyees, bornes>>

\* A loop takes the machines in one order.
Suivante(S) == CHOOSE m \in S : TRUE
Restantes == {m \in inv.hotes : lu[m] = "non_lue"}

LireMachine ==
  /\ etape = "lecture" /\ Restantes # {}
  /\ LET m == Suivante(Restantes)
     IN \E e \in {"illisible"}
                 \cup (IF Compte[m] = config.compte THEN {parc[m]} \ {"absente"} ELSE {}) :
          lu' = [lu EXCEPT ![m] = e]
  /\ UNCHANGED <<compteVars, inventaireVars, etape, desire, check, resultat, operation,
                 historique, bornes>>

\* Mutant: a machine that could not be read passes for one that answered.
Mut_Illisibles == {}

Illisibles == {m \in inv.hotes : lu[m] = "illisible"}

Deja == {m \in inv.hotes : lu[m] = Vise(desire)}
AAgir == {m \in inv.hotes : lu[m] \in Depart(desire)}
EnVol == inv.hotes \ (Illisibles \cup Deja \cup AAgir)

Trier ==
  /\ etape = "lecture" /\ Restantes = {}
  /\ etape' = "action"
  /\ UNCHANGED <<compteVars, inventaireVars, desire, check, lu, resultat, operation,
                 historique, bornes>>

AEnvoyer == {m \in AAgir : resultat[m] = "rien"}

Attendues == {m \in AAgir : resultat[m] = "attend"}

Resultat(m, r) == resultat' = [resultat EXCEPT ![m] = r]

\* In check mode the module reads the machine, then announces.
Annoncer ==
  /\ etape = "action" /\ check /\ AEnvoyer # {}
  /\ \E r \in {"changed", "echec"} : Resultat(Suivante(AEnvoyer), r)
  /\ UNCHANGED <<compteVars, inventaireVars, etape, desire, check, lu, operation,
                 historique, bornes>>

\* instance_server_action: the API refuses, or takes the action from a state it can
\* leave; its answer may be lost.
Envoyer ==
  /\ etape = "action" /\ ~check /\ Attendues = {} /\ AEnvoyer # {}
  /\ LET m == Suivante(AEnvoyer)
     IN /\ envoyees' = envoyees \cup {m}
        /\ \/ /\ parc[m] \in Depart(desire)
              /\ parc' = [parc EXCEPT ![m] = "transition"]
              /\ \E r \in {"attend", "echec"} : Resultat(m, r)
           \/ Resultat(m, "echec") /\ UNCHANGED parc
  /\ Noter(desire)
  /\ UNCHANGED <<groupe, inventaireVars, etape, desire, check, lu, operation, bornes>>

\* Mutant: the module answers as soon as the API took the action.
Mut_Aboutie(m) == TRUE

\* The wait of the action module, which the role leaves at its default.
Aboutie(m) == parc[m] = Vise(desire)

\* Mutant: the wait has no end of its own.
Mut_Attendre ==
  /\ etape = "action"
  /\ \E m \in Attendues : Aboutie(m) /\ Resultat(m, "changed")
  /\ UNCHANGED <<compteVars, inventaireVars, etape, desire, check, lu, operation,
                 historique, bornes>>

Attendre ==
  /\ etape = "action"
  /\ \E m \in Attendues :
       \/ Aboutie(m) /\ Resultat(m, "changed")
       \/ Resultat(m, "echec")
  /\ UNCHANGED <<compteVars, inventaireVars, etape, desire, check, lu, operation,
                 historique, bornes>>

Echouees == {m \in AAgir : resultat[m] = "echec"}

\* One item that failed stops the role before the tasks that publish; a machine that
\* could not be read stops it after them.
Publier ==
  /\ etape = "action" /\ AEnvoyer = {} /\ Attendues = {}
  /\ IF Echouees # {}
       THEN etape' = "rouge" /\ UNCHANGED operation
       ELSE /\ operation' = [changed |-> {m \in AAgir : resultat[m] = "changed"},
                             already_compliant |-> Deja, refused |-> EnVol,
                             unmeasured |-> Illisibles]
            /\ etape' = IF Illisibles = {} THEN "vert" ELSE "rouge"
  /\ UNCHANGED <<compteVars, inventaireVars, desire, check, lu, resultat, historique, bornes>>

Finir ==
  /\ etape \in {"vert", "rouge"}
  /\ Oublier
  /\ etape' = "selection" /\ desire' = "on" /\ check' = FALSE
  /\ lu' = NonLu /\ resultat' = Rien /\ operation' = Aucune
  /\ envoyees' = {} /\ passe' = {} /\ aQuitter' = {}
  /\ UNCHANGED <<compteVars, bornes>>

\* Anybody else, a transition that ends included.
Changer ==
  /\ changements < MaxChangements /\ changements' = changements + 1
  /\ \/ /\ \E m \in Machines, e \in Etats : parc' = [parc EXCEPT ![m] = e]
        /\ UNCHANGED groupe
     \/ /\ \E m \in Machines : groupe' = (groupe \ {m}) \cup ({m} \ groupe)
        /\ UNCHANGED parc
  /\ IF etape = "selection" THEN UNCHANGED <<passe, aQuitter>> ELSE Noter(desire)
  /\ UNCHANGED <<inventaireVars, roleVars, jeux>>

\* What the API does of an action it took, sooner or later.
Aboutir(m) ==
  /\ parc[m] = "transition" /\ resultat[m] = "attend"
  /\ parc' = [parc EXCEPT ![m] = Vise(desire)]
  /\ Noter(desire)
  /\ UNCHANGED <<groupe, inventaireVars, roleVars, bornes>>

Role == \/ Parcourir \/ Choisir \/ LireMachine \/ Trier
        \/ Annoncer \/ Envoyer \/ Attendre \/ Publier \/ Finir

Repos == jeux = MaxJeux /\ phase = "libre" /\ UNCHANGED vars

Next == Commencer \/ Role \/ Changer \/ (\E m \in Machines : Aboutir(m)) \/ Repos

Spec == Init /\ [][Next]_vars /\ WF_vars(Role)

------------------------------------------------------------------------------
(* Properties. *)

\* A second run changes nothing because nothing needed to change: an action goes only
\* to a machine of the group the run was served, that was in a state to leave at some
\* moment of this very run, never to one in flight, locked, or read by an earlier run;
\* and never in check mode.
RienSansBesoin ==
  envoyees # {} => /\ ~check
                   /\ envoyees \subseteq inv.hotes \cap aQuitter

\* A green run accounts for its group: every machine the inventory gave it is named
\* once, none is left unread, and each of those it reports changed or already there
\* was really in the wanted state at some moment of the run, whatever moved meanwhile.
BilanVrai ==
  etape = "vert" =>
    /\ inv.hotes = UNION {operation[f] : f \in DOMAIN operation}
    /\ \A f, g \in DOMAIN operation : f # g => operation[f] \cap operation[g] = {}
    /\ \A m \in inv.hotes : lu[m] # "illisible"
    /\ operation.already_compliant \subseteq passe
    /\ ~check => operation.changed \subseteq passe

\* Every command ends, refused, red or green, whatever the API answers.
JeuTermine == (phase # "libre") ~> (phase = "libre")
==============================================================================
