------------------------------ MODULE Roulement ------------------------------
(***************************************************************************)
(* The rolling_reboot role: read every selected machine, stop if one could *)
(* not be read, cut what is running into batches, fire the reboots of a    *)
(* batch as async jobs, wait for the jobs one after the other, and judge   *)
(* the batch before the next.  A job runs an action module, of which the   *)
(* roll only knows the contract Travail, which Action implements: it sends *)
(* one reboot and waits for the machine to be back.  The machines live     *)
(* their own life between two steps of the role.                           *)
(***************************************************************************)
EXTENDS Integers, Sequences, SequencesExt

CONSTANTS
  Machines,
  Cibles,       \* what the selector designates, in the order of the loop
  Lot,          \* scaleway_rolling_reboot_batch_size
  MaxSondages   \* bound: retries of the wait, wait_timeout + 60 in the role

ASSUME RoulementAssumption ==
  /\ Cibles \in Seq(Machines) /\ IsInjective(Cibles)
  /\ Lot \in Nat \ {0}
  /\ MaxSondages \in Nat

VARIABLES
  check,        \* ansible_check_mode
  pc,
  i,            \* position in the loop of the task under way
  sondages,     \* retries already spent on the current job
  lu,           \* what the role read of each machine
  aRedemarrer,  \* _scaleway_rolling_reboot_a_redemarrer
  numero,       \* the batch under way
  retours,      \* what the launch or the wait registered of each job of the batch
  resultat,     \* scaleway_operation: the names changed and refused
  etat,         \* the machines
  travail       \* the async job of each machine, as Travail has it

role == <<pc, i, sondages, lu, aRedemarrer, numero, retours, resultat>>
parc == <<etat, travail>>
vars == <<check, role, parc>>

Aucun == [changed |-> {}, refused |-> {}]

TypeOK ==
  /\ check \in BOOLEAN
  /\ pc \in {"lire", "lancer", "attendre", "juger", "rendre", "fini", "arret"}
  /\ i \in 1..(Len(Cibles) + 1) /\ sondages \in 0..MaxSondages
  /\ lu \in [Machines -> {"non_lue", "running", "autre", "illisible"}]
  /\ aRedemarrer \in Seq(Machines)
  /\ numero \in 0..Len(Cibles)
  /\ retours \in [Machines -> {"aucun", "non_lance", "revenu", "epuise"}]
  /\ resultat \in [changed : SUBSET Machines, refused : SUBSET Machines]
  /\ etat \in [Machines -> {"running", "redemarre", "arretee"}]
  /\ travail \in [Machines -> {"aucun", "lance", "derange", "envoye", "presse", "ok", "echec"}]

------------------------------------------------------------------------------
(* What the role computes. *)

\* Mutant: the failed field, which failed_when rewrites.
Mut_Illisibles == {}

\* A machine whose read registered no server.
Illisibles == {m \in ToSet(Cibles) : lu[m] = "illisible"}

EnMarche(m) == lu[m] = "running"

\* Some of the targets, in the order of the loop.
EnOrdre(T) ==
  {s \in UNION {[1..n -> Machines] : n \in 0..Len(Cibles)} :
     /\ IsInjective(s) /\ ToSet(s) = T
     /\ \A a, b \in DOMAIN Cibles, x, y \in DOMAIN s :
          Cibles[a] = s[x] /\ Cibles[b] = s[y] /\ a < b => x < y}

Laissees == {m \in ToSet(Cibles) : lu[m] = "autre"}

Min2(a, b) == IF a <= b THEN a ELSE b

\* Mutant: batches that overlap by one machine.
Mut_LeLot(n) == SubSeq(aRedemarrer, (n - 1) * Lot + 1, Min2(n * Lot + 1, Len(aRedemarrer)))

\* The n-th batch.
LeLot(n) == SubSeq(aRedemarrer, (n - 1) * Lot + 1, Min2(n * Lot, Len(aRedemarrer)))

\* Mutant: only full batches are rolled.
Mut_NombreDeLots == Len(aRedemarrer) \div Lot

\* How many batches the filter cuts: the last one may be smaller than the others.
NombreDeLots == (Len(aRedemarrer) + Lot - 1) \div Lot

\* Mutant: a job is back as soon as it is asked.
Mut_Revenu(m) == TRUE

\* until: the job has ended, well or not.
Revenu(m) == travail[m] \in {"ok", "echec"}

Epuise == sondages = MaxSondages

\* Mutant: the retries run out in silence.
Mut_LotTombe(n) == FALSE

\* failed_when: false rewrites what a job says of itself; only the retries running
\* out fail an item of the wait, and that already fails the task, so the assert that
\* follows never has anything to add.
LotTombe(n) == \E m \in ToSet(LeLot(n)) : retours[m] = "epuise"

------------------------------------------------------------------------------
Init ==
  /\ check \in BOOLEAN
  /\ pc = "lire" /\ i = 1 /\ sondages = 0
  /\ lu = [m \in Machines |-> "non_lue"]
  /\ aRedemarrer = <<>> /\ numero = 0
  /\ retours = [m \in Machines |-> "aucun"]
  /\ resultat = Aucun
  /\ etat \in [Machines -> {"running", "arretee"}]
  /\ travail = [m \in Machines |-> "aucun"]

\* One turn of the loop of reads, a failed one included.
Lire ==
  /\ pc = "lire" /\ i <= Len(Cibles)
  /\ LET m == Cibles[i]
     IN lu' \in {[lu EXCEPT ![m] = IF etat[m] = "running" THEN "running" ELSE "autre"],
                 [lu EXCEPT ![m] = "illisible"]}
  /\ i' = i + 1
  /\ UNCHANGED <<check, pc, sondages, aRedemarrer, numero, retours, resultat, parc>>

\* Every machine was read, or nothing moves; a rehearsal has nothing to roll.
Decider ==
  /\ pc = "lire" /\ i > Len(Cibles)
  /\ i' = 1
  /\ aRedemarrer' \in EnOrdre({m \in ToSet(Cibles) : EnMarche(m)})
  /\ IF Illisibles # {} THEN pc' = "arret" /\ numero' = 0
     ELSE IF check \/ aRedemarrer' = <<>> THEN pc' = "rendre" /\ numero' = 0
     ELSE pc' = "lancer" /\ numero' = 1
  /\ UNCHANGED <<check, sondages, lu, retours, resultat, parc>>

\* One turn of the loop that fires the reboots of the batch.  A job that could not be
\* started does not stop the loop; it fails the task, and the role, at its end.
Lancer ==
  LET lot == LeLot(numero)
  IN /\ pc = "lancer"
     /\ \/ travail' = [travail EXCEPT ![lot[i]] = "lance"] /\ UNCHANGED retours
        \/ retours' = [retours EXCEPT ![lot[i]] = "non_lance"] /\ UNCHANGED travail
     /\ IF i < Len(lot) THEN pc' = pc /\ i' = i + 1
        ELSE IF \E m \in ToSet(lot) : retours'[m] = "non_lance" THEN pc' = "arret" /\ i' = i
        ELSE pc' = "attendre" /\ i' = 1
     /\ UNCHANGED <<check, sondages, lu, aRedemarrer, numero, resultat, etat>>

\* Mutant: a job whose retries ran out is waited for again.
Mut_Suivant == sondages' = 0 /\ UNCHANGED <<pc, i>>

\* The wait for one job is over: the next one, or the judgement of the batch.
Suivant ==
  /\ sondages' = 0
  /\ IF i = Len(LeLot(numero)) THEN pc' = "juger" /\ i' = 1 ELSE pc' = pc /\ i' = i + 1

\* One retry of async_status on one job of the batch.
Sonder ==
  LET m == LeLot(numero)[i]
  IN /\ pc = "attendre"
     /\ \/ Revenu(m) /\ retours' = [retours EXCEPT ![m] = "revenu"] /\ Suivant
        \/ ~Revenu(m) /\ Epuise /\ retours' = [retours EXCEPT ![m] = "epuise"] /\ Suivant
        \/ ~Revenu(m) /\ ~Epuise /\ sondages' = sondages + 1 /\ UNCHANGED <<pc, i, retours>>
     /\ UNCHANGED <<check, lu, aRedemarrer, numero, resultat, parc>>

\* "This batch came back, or the roll stops here".
Juger ==
  /\ pc = "juger"
  /\ IF LotTombe(numero) THEN pc' = "arret" /\ UNCHANGED numero
     ELSE IF numero < NombreDeLots THEN pc' = "lancer" /\ numero' = numero + 1
     ELSE pc' = "rendre" /\ UNCHANGED numero
  /\ UNCHANGED <<check, i, sondages, lu, aRedemarrer, retours, resultat, parc>>

\* What happened, in a shape a machine reads.
Rendre ==
  /\ pc = "rendre"
  /\ pc' = "fini"
  /\ resultat' = [changed |-> ToSet(aRedemarrer), refused |-> Laissees]
  /\ UNCHANGED <<check, i, sondages, lu, aRedemarrer, numero, retours, parc>>

------------------------------------------------------------------------------
(* The jobs and the machines. *)

Accepter(m) == etat[m] = "running" /\ etat' = [etat EXCEPT ![m] = "redemarre"]

\* The module of a job sends its reboot: a machine that is up goes down.  When somebody
\* moved it since the job was fired, the module may not know what to wait for.
Envoyer(m) ==
  /\ travail[m] \in {"lance", "derange"} /\ Accepter(m)
  /\ travail' = [travail EXCEPT ![m] = IF @ = "lance" THEN "envoye" ELSE "presse"]
  /\ UNCHANGED <<check, role>>

\* The module has seen the machine leave and come back; one that was pressed only saw
\* it running.
Reussir(m) ==
  /\ \/ travail[m] = "envoye" /\ etat[m] = "running"
     \/ travail[m] = "presse"
  /\ travail' = [travail EXCEPT ![m] = "ok"]
  /\ UNCHANGED <<check, role, etat>>

\* The module failed, before or after its reboot, or its async limit killed it; the
\* reboot whose answer is lost may have been taken.
Echouer(m) ==
  /\ travail[m] \in {"lance", "derange", "envoye", "presse"}
  /\ travail' = [travail EXCEPT ![m] = "echec"]
  /\ UNCHANGED etat \/ (travail[m] \in {"lance", "derange"} /\ Accepter(m))
  /\ UNCHANGED <<check, role>>

Revenir(m) ==
  /\ etat[m] = "redemarre"
  /\ etat' = [etat EXCEPT ![m] = "running"]
  /\ UNCHANGED <<check, role, travail>>

\* Somebody else stops or starts a machine the roll is not rebooting.
Ailleurs(m) ==
  /\ etat[m] # "redemarre" /\ travail[m] \notin {"envoye", "presse"}
  /\ etat' = [etat EXCEPT ![m] = IF @ = "running" THEN "arretee" ELSE "running"]
  /\ travail' = [travail EXCEPT ![m] = IF @ = "lance" THEN "derange" ELSE @]
  /\ UNCHANGED <<check, role>>

Role == Lire \/ Decider \/ Lancer \/ Sonder \/ Juger \/ Rendre

Parc == \E m \in Machines :
  Envoyer(m) \/ Reussir(m) \/ Echouer(m) \/ Revenir(m) \/ Ailleurs(m)

Next == Role \/ Parc

Spec == Init /\ [][Next]_vars

\* The playbook goes on; nothing is asked of the jobs nor of the machines.
FairSpec == Spec /\ WF_vars(Role)

------------------------------------------------------------------------------
(* Properties. *)

Lance(m) == travail[m] # "aucun"
EnCours(m) == travail[m] \in {"lance", "derange", "envoye", "presse"}

\* "Rebooting a fleet that is only partly known is how a roll takes down what it
\* could not see": a job is fired only once every target was read, never in check
\* mode, and never on a machine that was not running when it was read.
RienSansSavoir ==
  \A m \in Machines : Lance(m) =>
    /\ ~check /\ lu[m] = "running"
    /\ \A c \in ToSet(Cibles) : lu[c] \in {"running", "autre"}

\* Before the roll gives up on a batch, the jobs under way are all of that batch.
UnLotALaFois ==
  pc # "arret" => \A m \in Machines : EnCours(m) => m \in ToSet(LeLot(numero))

\* How a roll leaves its machines.  One that stops has touched nothing past the batch
\* it stopped at, and all that is still on its way is of that batch.  One that ends
\* accounts for every target once, as changed or as refused, and what it says changed is
\* what it asked a reboot of, the last batch included, whose jobs are all over: well or
\* not, since a reboot that failed is counted too.
FinExacte ==
  /\ pc = "arret" => \A k \in DOMAIN aRedemarrer :
       /\ Lance(aRedemarrer[k]) => k <= numero * Lot
       /\ EnCours(aRedemarrer[k]) => k > (numero - 1) * Lot
  /\ pc = "fini" =>
       /\ resultat.changed \cup resultat.refused = ToSet(Cibles)
       /\ resultat.changed \cap resultat.refused = {}
       /\ ~check => \A m \in Machines : ~EnCours(m) /\ (Lance(m) <=> m \in resultat.changed)

\* The roll ends, even when a job never does.
RoulementTermine == <>(pc \in {"fini", "arret"})

\* "waits for each batch to come back before touching the next", "the roll stops here
\* rather than continuing on a fleet a third of which may be down".
LotRevenu ==
  \A m \in Machines : EnCours(m)
    => \A n \in 1..(numero - 1) : \A r \in ToSet(LeLot(n)) : travail[r] = "ok"

\* The contract of a job, and of the machine it reboots.
Contrat(m) == INSTANCE Travail WITH
  Etats <- {"running", "arretee"}, EnRoute <- "redemarre",
  Acceptes <- {"running"}, Vise <- "running",
  travail <- travail[m], machine <- etat[m]

\* The roll asks each job of its contract, once: no machine is fired at twice, and nothing
\* but the jobs and the others moves a machine.
TravauxTenus ==
  /\ \A m \in Machines : Contrat(m)!Init
  /\ [][\A m \in Machines : [Contrat(m)!Next]_(Contrat(m)!vars)]_vars
==============================================================================
