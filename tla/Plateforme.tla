----------------------------- MODULE Plateforme -----------------------------
(***************************************************************************)
(* The exercise on the real cloud (scripts/example.py) and the lock that a *)
(* standing platform leaves behind it (scripts/verrou_plateforme.py):      *)
(* several runs share one lock file, one Terraform state and one residue   *)
(* reference.  A run may be killed anywhere, Terraform may fail anywhere,  *)
(* and somebody puts the account right by hand afterwards.                 *)
(***************************************************************************)
EXTENDS FiniteSets

CONSTANTS Runs

ASSUME PlateformeAssumption == "absent" \notin Runs /\ "illisible" \notin Runs

\* What the account holds: what the Terraform state knows, and what it does not.
Choses == {"stack", "residu"}
Etapes == {"debut", "capture", "lu", "pose", "deploye", "finally", "derive",
           "detruite", "nettoyee", "verifiee", "rendu", "leve", "tue"}

VARIABLES
  compte,      \* what the exercise left on the account so far
  reference,   \* build/residue/baseline.json
  verrou,      \* build/example/plateforme.json: its run, "absent" or "illisible"
  pc,
  code,        \* the exit status so far: code, 1 once an exception is on its way
  detruit,     \* detruit
  croise,      \* history: two runs were inside poser together, nothing was put right since
  auteur,      \* history: whose capture the reference is
  avant        \* history: the account at the last capture of each run

vars == <<compte, reference, verrou, pc, code, detruit, croise, auteur, avant>>
histoire == <<croise, auteur, avant>>

TypeOK ==
  /\ compte \subseteq Choses /\ reference \subseteq Choses
  /\ verrou \in Runs \cup {"absent", "illisible"}
  /\ pc \in [Runs -> Etapes]
  /\ code \in [Runs -> {0, 1}]
  /\ detruit \in [Runs -> BOOLEAN]
  /\ croise \in BOOLEAN
  /\ auteur \in Runs \cup {"absent"}
  /\ avant \in [Runs -> SUBSET Choses]

Init ==
  /\ compte \in SUBSET {"residu"} /\ reference = {}
  /\ verrou = "absent"
  /\ pc = [r \in Runs |-> "debut"]
  /\ code = [r \in Runs |-> 0]
  /\ detruit = [r \in Runs |-> FALSE]
  /\ croise = FALSE
  /\ auteur = "absent"
  /\ avant = [r \in Runs |-> {}]

Aller(r, de, a) == pc[r] = de /\ pc' = [pc EXCEPT ![r] = a]
Arretes == {"debut", "rendu", "leve", "tue"}
AuRepos == \A r \in Runs : pc[r] \in Arretes

------------------------------------------------------------------------------
(* Before the try. *)

\* residue.py capture: the reference is whatever the account holds, and it is taken
\* before the lock is asked for, whoever holds it.
Capturer(r) ==
  /\ \/ /\ Aller(r, "debut", "capture")
        /\ reference' = compte /\ auteur' = r /\ avant' = [avant EXCEPT ![r] = compte]
     \/ Aller(r, "debut", "leve") /\ UNCHANGED <<reference, auteur, avant>>
  /\ croise' = (croise /\ ~(AuRepos /\ verrou = "absent" /\ "stack" \notin compte))
  /\ UNCHANGED <<compte, verrou, code, detruit>>

\* Mutant: a run takes the lock without a look at what stands.
Mut_Libre == TRUE

\* lire: a file nobody can read says that a platform may stand.
Libre == verrou = "absent"

\* poser: the lock is read, several git commands run, and only then is it written;
\* nothing keeps another run from reading it in between.
LireVerrou(r) ==
  /\ \/ /\ Libre /\ Aller(r, "capture", "lu")
        /\ croise' = (croise \/ \E q \in Runs : pc[q] = "lu")
     \/ ~Libre /\ Aller(r, "capture", "leve") /\ UNCHANGED croise
  /\ UNCHANGED <<compte, reference, verrou, code, detruit, auteur, avant>>

EcrireVerrou(r) ==
  /\ Aller(r, "lu", "pose")
  /\ verrou' = r
  /\ UNCHANGED <<compte, reference, code, detruit, histoire>>

------------------------------------------------------------------------------
(* The try. *)

\* terraform init and apply: a failed apply leaves part of the stack in its state,
\* and may leave some of it out.
Deployer(r) ==
  /\ \/ /\ Aller(r, "pose", "deploye")
        /\ \E s \in SUBSET {"residu"} : compte' = compte \cup {"stack"} \cup s
        /\ UNCHANGED code
     \/ /\ Aller(r, "pose", "finally")
        /\ \E s \in SUBSET Choses : compte' = compte \cup s
        /\ code' = [code EXCEPT ![r] = 1]
  /\ UNCHANGED <<reference, verrou, detruit, histoire>>

\* The checks and the playbooks: green, red, or an exception the finally interrupts.
Jouer(r) ==
  /\ Aller(r, "deploye", "finally")
  /\ \E c \in {0, 1} : code' = [code EXCEPT ![r] = c]
  /\ UNCHANGED <<compte, reference, verrou, detruit, histoire>>

------------------------------------------------------------------------------
(* The finally. *)

\* derive reads the lock first, and a lock nobody can read makes it raise.
Deriver(r) ==
  /\ IF verrou = "illisible" THEN Aller(r, "finally", "leve") ELSE Aller(r, "finally", "derive")
  /\ UNCHANGED <<compte, reference, verrou, code, detruit, histoire>>

\* Mutant: a destruction that failed is reported on the terminal only.
Mut_Sortie(echec, c) == c

\* What a failed destruction, or a residue, makes of the exit code.
Sortie(echec, c) == IF echec THEN 1 ELSE c

\* terraform destroy and, when it failed and network cards were taken away, one retry:
\* either way the last attempt decides.
Detruire(r) ==
  /\ Aller(r, "derive", "detruite")
  /\ \E echec \in BOOLEAN :
       /\ compte' = IF echec THEN compte ELSE compte \ {"stack"}
       /\ code' = [code EXCEPT ![r] = Sortie(echec, @)]
       /\ detruit' = [detruit EXCEPT ![r] = ~echec]
  /\ UNCHANGED <<reference, verrou, histoire>>

\* nettoyer_ce_que_kapsule_laisse: the group of the cluster, when it can be deleted;
\* a call that gets no answer raises.
Nettoyer(r) ==
  /\ \/ Aller(r, "detruite", "nettoyee") /\ \E s \in {{}, {"residu"}} : compte' = compte \ s
     \/ Aller(r, "detruite", "leve") /\ UNCHANGED compte
  /\ UNCHANGED <<reference, verrou, code, detruit, histoire>>

\* residue.py verify: what appeared, what disappeared, or a listing that failed.
Verifier(r) ==
  /\ Aller(r, "nettoyee", "verifiee")
  /\ \E echec \in (IF compte = reference THEN BOOLEAN ELSE {TRUE}) :
       code' = [code EXCEPT ![r] = Sortie(echec, @)]
  /\ UNCHANGED <<compte, reference, verrou, detruit, histoire>>

\* Mutant: the end of the run decides.
Mut_ARetirerToujours(r) == TRUE

\* a_retirer: on the real cloud nothing is kept.
ARetirer(r) == detruit[r]

\* The artefact is written before the lock is given back and the proxy is awaited
\* after it; either may raise.
Rendre(r) ==
  /\ \/ /\ Aller(r, "verifiee", "rendu") \/ Aller(r, "verifiee", "leve")
        /\ verrou' = IF ARetirer(r) THEN "absent" ELSE verrou
     \/ Aller(r, "verifiee", "leve") /\ UNCHANGED verrou
  /\ UNCHANGED <<compte, reference, code, detruit, histoire>>

------------------------------------------------------------------------------
\* A run is killed; in the middle of a write, the lock is left half written, in the
\* middle of Terraform, the account is left anywhere.
Tuer(r) ==
  /\ pc[r] \notin Arretes
  /\ pc' = [pc EXCEPT ![r] = "tue"]
  /\ verrou' \in (IF pc[r] = "lu" THEN {verrou, "illisible"} ELSE {verrou})
  /\ compte' \in (CASE pc[r] = "pose" -> {compte \cup s : s \in SUBSET Choses}
                    [] pc[r] = "derive" -> {compte, compte \ {"stack"}}
                    [] OTHER -> {compte})
  /\ UNCHANGED <<reference, code, detruit, histoire>>

\* What the refusal tells somebody to do, once nothing runs: destroy, then remove.
DetruireALaMain ==
  /\ AuRepos /\ verrou # "absent" /\ "stack" \in compte
  /\ compte' = compte \ {"stack"}
  /\ UNCHANGED <<reference, verrou, pc, code, detruit, histoire>>

RetirerALaMain ==
  /\ AuRepos /\ verrou # "absent" /\ "stack" \notin compte
  /\ verrou' = "absent"
  /\ UNCHANGED <<compte, reference, pc, code, detruit, histoire>>

\* Started again, under another run_id.
Relancer(r) ==
  /\ pc[r] \in {"rendu", "leve", "tue"}
  /\ pc' = [pc EXCEPT ![r] = "debut"]
  /\ code' = [code EXCEPT ![r] = 0]
  /\ detruit' = [detruit EXCEPT ![r] = FALSE]
  /\ UNCHANGED <<compte, reference, verrou, histoire>>

Pas(r) ==
  \/ Capturer(r) \/ LireVerrou(r) \/ EcrireVerrou(r) \/ Deployer(r) \/ Jouer(r)
  \/ Deriver(r) \/ Detruire(r) \/ Nettoyer(r) \/ Verifier(r) \/ Rendre(r)

Next == (\E r \in Runs : Pas(r) \/ Tuer(r) \/ Relancer(r)) \/ DetruireALaMain \/ RetirerALaMain

Spec == Init /\ [][Next]_vars

------------------------------------------------------------------------------
(* Properties. *)

\* Between the lock it wrote and its return.
Tient(r) == pc[r] \in {"pose", "deploye", "finally", "derive", "detruite", "nettoyee", "verifiee"}

\* What holds of the lock as long as no two runs met inside poser: whoever is at work
\* owns it, whoever is about to write it is alone and found none, and what a run
\* destroyed no longer stands.
Exclusif ==
  /\ \A r \in Runs : Tient(r) => verrou = r
  /\ \A r \in Runs : pc[r] = "lu" => verrou = "absent" /\ \A q \in Runs : pc[q] = "lu" => q = r
  /\ "stack" \in compte => verrou # "absent"
  /\ \A r \in Runs : pc[r] \in {"detruite", "nettoyee", "verifiee"} /\ detruit[r]
                       => "stack" \notin compte
  /\ \A r \in Runs : pc[r] = "verifiee" /\ code[r] = 0 => compte = reference

\* The inductive invariant. Runs that met or not, a status still 0 after the
\* destruction says that it succeeded, and the reference is its author's capture.
IInv ==
  /\ TypeOK
  /\ \A r \in Runs : pc[r] \in {"detruite", "nettoyee", "verifiee"} /\ code[r] = 0
                       => detruit[r]
  /\ \A r \in Runs : auteur = r => reference = avant[r]
  /\ ~croise => Exclusif

\* "Une plateforme debout laisse une trace", and no second run is let in before the
\* first gave it back: as long as Terraform knows of something that stands, the lock
\* says so, whoever was killed or failed and wherever; and of two runs, one at most is
\* between its lock and its return. Both but for runs that met inside poser, where
\* the lock is read and written in two steps: there, neither holds.
DeboutVerrouille ==
  ~croise => /\ "stack" \in compte => verrou # "absent"
             /\ \A r, q \in Runs : Tient(r) /\ Tient(q) => r = q

\* What the lock and the status say when a run that held the lock ends, its runs having
\* not met inside poser. Returned or raised, the lock is only given back over nothing
\* that stands. A run that returns, red or green, gives it back if and only if
\* it destroyed its platform (one that raises may leave the lock of a platform it did
\* destroy). With status 0 the platform is destroyed, and the account is what this
\* run found before it, unless another run, refused or not, captured it since: the
\* verdict is then about that other run's reference.
RetourFidele ==
  [][\A r \in Runs : Tient(r) /\ pc'[r] \in {"rendu", "leve"} /\ ~croise =>
       /\ verrou' = "absent" => "stack" \notin compte'
       /\ pc'[r] = "rendu" => (verrou' = "absent" <=> detruit'[r])
       /\ pc'[r] = "rendu" /\ code'[r] = 0
            => detruit'[r] /\ (auteur' = r => compte' = avant'[r])]_vars
==============================================================================
