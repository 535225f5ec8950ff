------------------------------- MODULE Action --------------------------------
(***************************************************************************)
(* The action modules of the collection (run_action_module, poll_until):   *)
(* a module reads the state of a machine, triggers an action once, and     *)
(* waits until it observes the state its override declares.  The machine   *)
(* is the environment: it goes through its states at its own pace, before  *)
(* the call, between two reads and during a read.  The clock is the one of *)
(* poll_until (time.monotonic), counted from the first read of the wait.   *)
(***************************************************************************)
EXTENDS Integers, Sequences

CONSTANTS
  Actions,           \* what the module may be asked to trigger
  Etats,             \* the values of state_field
  Aucun,             \* no state: none expected, none read
  Vise,              \* wait_states: [Actions -> Etats or Aucun]
  Chemin,            \* the states a machine goes through: [Actions -> Seq(Etats)]
  Acceptes,          \* the states in which the API accepts it: [Actions -> SUBSET Etats]
  Departs,           \* the machines before the call: [etat, reste]
  DelaisDemandes,    \* wait_timeout, in ticks
  DELAI_PAR_DEFAUT,  \* the 300 seconds of "wait_timeout or 300"
  INTERVALLE,        \* the pause between two reads
  LectureMax,        \* the longest read, its replays included
  LecturesMuettes    \* may a read render no state: no resource, or no such field

Plafond == DELAI_PAR_DEFAUT + INTERVALLE + LectureMax + 1  \* bound: the clock saturates

\* "echec" does not say changed; the five others do.  "expire" is a wait that ran out,
\* "echec_change" one of whose reads failed.
Verdicts == {"echec", "echec_change", "expire", "repetition", "fait", "confirme"}

ASSUME ActionAssumption ==
  /\ Aucun \notin Etats \cup Verdicts
  /\ Vise \in [Actions -> Etats \cup {Aucun}]
  /\ Chemin \in [Actions -> Seq(Etats)]
  /\ Acceptes \in [Actions -> SUBSET Etats]
  /\ Departs \subseteq [etat : Etats, reste : Seq(Etats)]
  /\ DELAI_PAR_DEFAUT \in Nat /\ LectureMax \in Nat
  /\ DelaisDemandes \subseteq 0..DELAI_PAR_DEFAUT
  /\ INTERVALLE \in Nat \ {0}
  /\ LecturesMuettes \in BOOLEAN

VARIABLES
  action, wait, check, lisible, delai,  \* the task: its parameters, check mode, and
                                        \* whether the contract gives a read of the resource
  etat, reste,   \* the machine: its state, and those it has still to go through
  pc,
  depart,        \* the state read before the action
  observe,       \* poll_until's observe
  quitte,        \* poll_until's quitte
  horloge,       \* ticks since poll_until started
  verdict,       \* exit_json or fail_json, and what it says of changed
  acceptee,      \* history: the API answered the action with a 2xx
  partie,        \* history: the machine took the action
  derangee       \* history: somebody else moved the machine before the action

tache == <<action, wait, check, lisible, delai>>
machine == <<etat, reste, derangee>>
attente == <<depart, observe, quitte, horloge>>
vars == <<tache, machine, pc, attente, verdict, acceptee, partie>>

TypeOK ==
  /\ action \in Actions /\ wait \in BOOLEAN /\ check \in BOOLEAN
  /\ lisible \in BOOLEAN /\ delai \in DelaisDemandes
  /\ etat \in Etats /\ reste \in Seq(Etats)
  /\ pc \in {"debut", "declencher", "sonder", "pause", "fini"}
  /\ depart \in Etats \cup {Aucun} /\ observe \in Etats \cup {Aucun}
  /\ quitte \in BOOLEAN /\ horloge \in 0..Plafond
  /\ verdict \in Verdicts \cup {Aucun}
  /\ acceptee \in BOOLEAN /\ partie \in BOOLEAN /\ derangee \in BOOLEAN

------------------------------------------------------------------------------
(* The decisions of the module. *)

\* A wait_timeout of zero counts as not given.
Limite == IF delai = 0 THEN DELAI_PAR_DEFAUT ELSE delai

Attente == Vise[action] # Aucun /\ lisible /\ wait

\* Mutant: the state to leave is never required.
Mut_DoitQuitter(d) == FALSE

\* leave_first: only when the state aimed at is the one read before.
DoitQuitter(d) == d = Vise[action]

\* Having left is having read anything else, "inconnu" included.
AQuitte(vu) == quitte \/ vu # depart

\* Mutant: a machine that has not left yet never times out.
Mut_Expiree(h) == h >= Limite /\ quitte

\* Mutant: a wait whose next pause would reach its limit is given up on at once.
Mut_ExpireeTot(h) == h + INTERVALLE >= Limite

Expiree(h) == h >= Limite

\* What a read that began when the machine was in state e renders: its state, or
\* none: no resource in the answer, or a resource without the field.
Rendus(e) == IF LecturesMuettes THEN {e, Aucun} ELSE {e}

\* Mutant: a failed wait is an ordinary failure.
Mut_EchecDeLAttente == "echec"

\* The API accepted: a read of the wait that fails says changed, as a wait that runs out.
EchecDeLAttente == "echec_change"

------------------------------------------------------------------------------
Init ==
  /\ action \in Actions /\ wait \in BOOLEAN /\ check \in BOOLEAN
  /\ lisible \in BOOLEAN /\ delai \in DelaisDemandes
  /\ \E d \in Departs : etat = d.etat /\ reste = d.reste
  /\ pc = "debut" /\ depart = Aucun /\ observe = Aucun
  /\ quitte = FALSE /\ horloge = 0
  /\ verdict = Aucun
  /\ acceptee = FALSE /\ partie = FALSE /\ derangee = FALSE

Sortir(v) == pc' = "fini" /\ verdict' = v

\* No client: no SDK, no credentials.  Check mode sees it too.
ClientAbsent ==
  /\ pc = "debut"
  /\ Sortir("echec")
  /\ UNCHANGED <<tache, machine, attente, acceptee, partie>>

\* Check mode: one read when the contract gives one, and nothing sent.
Repeter ==
  /\ pc = "debut" /\ check
  /\ \/ Sortir("repetition")
     \/ lisible /\ Sortir("echec")
  /\ UNCHANGED <<tache, machine, attente, acceptee, partie>>

\* The read before the action, made only when there is something to wait for.
LireAvant ==
  /\ pc = "debut" /\ ~check
  /\ \/ /\ ~Attente /\ depart' = Aucun /\ pc' = "declencher" /\ UNCHANGED verdict
     \/ /\ Attente /\ pc' = "declencher" /\ UNCHANGED verdict
        /\ depart' \in Rendus(etat)
     \/ Attente /\ Sortir("echec") /\ UNCHANGED depart
  /\ UNCHANGED <<tache, machine, observe, quitte, horloge, acceptee, partie>>

\* poll_until, up to its first read.
CommencerAAttendre ==
  /\ observe' = Aucun /\ horloge' = 0
  /\ quitte' = ~DoitQuitter(depart)

\* The action is accepted: an idle machine in a state that allows it takes it.
Declencher ==
  /\ pc = "declencher"
  /\ etat \in Acceptes[action] /\ reste = <<>>
  /\ reste' = Chemin[action]
  /\ acceptee' = TRUE /\ partie' = TRUE
  /\ IF Attente
       THEN pc' = "sonder" /\ CommencerAAttendre /\ UNCHANGED verdict
       ELSE /\ Sortir("fait")
            /\ UNCHANGED <<observe, horloge, quitte>>
  /\ UNCHANGED <<tache, etat, depart, derangee>>

\* A refusal, an answer lost or ambiguous, a 2xx whose body cannot be read: the
\* machine may have taken the action in every case but the first.
DeclencherEchoue ==
  /\ pc = "declencher"
  /\ Sortir("echec")
  /\ \/ UNCHANGED <<reste, acceptee, partie>>
     \/ /\ etat \in Acceptes[action] /\ reste = <<>>
        /\ reste' = Chemin[action] /\ partie' = TRUE
        /\ acceptee' \in BOOLEAN
  /\ UNCHANGED <<tache, etat, attente, derangee>>

------------------------------------------------------------------------------
(* poll_until. *)

\* Mutant: the time left taken for the time spent.
Mut_Avancer(d) == horloge - d

Avancer(d) == IF horloge + d < Plafond THEN horloge + d ELSE Plafond

\* observe after a read: what it rendered; a resource without the field is unknown,
\* no resource at all leaves what was read before.
Observes(lu) == IF lu = Aucun THEN {observe, Aucun} ELSE {lu}

\* One turn: read, look at what was left, at what was expected, then at the time.
Sonder ==
  /\ pc = "sonder"
  /\ \E d \in 0..LectureMax : \E vu \in UNION {Observes(lu) : lu \in Rendus(etat)} :
       LET parti == AQuitte(vu)
       IN /\ horloge' = Avancer(d)
          /\ observe' = vu
          /\ quitte' = parti
          /\ IF parti /\ vu = Vise[action]
               THEN Sortir("confirme")
             ELSE IF Expiree(horloge') THEN Sortir("expire")
             ELSE pc' = "pause" /\ UNCHANGED verdict
  /\ UNCHANGED <<tache, machine, depart, acceptee, partie>>

\* A read of the wait fails: so does the wait.
SonderEchoue ==
  /\ pc = "sonder"
  /\ Sortir(EchecDeLAttente)
  /\ UNCHANGED <<tache, machine, attente, acceptee, partie>>

Dormir ==
  /\ pc = "pause"
  /\ pc' = "sonder"
  /\ horloge' = Avancer(INTERVALLE)
  /\ UNCHANGED <<tache, machine, depart, observe, quitte, verdict, acceptee, partie>>

\* The machine goes on, at its own pace.
Basculer ==
  /\ reste # <<>>
  /\ etat' = Head(reste) /\ reste' = Tail(reste)
  /\ UNCHANGED <<tache, pc, attente, verdict, acceptee, partie, derangee>>

\* Somebody else moves a machine at rest, before the action or between the read that
\* precedes it and the action.
Ailleurs ==
  /\ pc \in {"debut", "declencher"} /\ reste = <<>>
  /\ etat' \in Etats \ {etat}
  /\ derangee' = TRUE
  /\ UNCHANGED <<tache, reste, pc, attente, verdict, acceptee, partie>>

Module ==
  \/ ClientAbsent \/ Repeter \/ LireAvant \/ Declencher \/ DeclencherEchoue
  \/ Sonder \/ SonderEchoue \/ Dormir

Repos == pc = "fini" /\ reste = <<>> /\ UNCHANGED vars

Next == Module \/ Basculer \/ Ailleurs \/ Repos

Spec == Init /\ [][Next]_vars

FairSpec == Spec /\ WF_vars(Module)

------------------------------------------------------------------------------
(* Properties. *)

Fini == pc = "fini"

\* "Rendre la main avant d'avoir vu l'etat ferait passer une attente pour une
\* confirmation": a module that confirms the state has waited out the whole effect
\* of its action, be the state aimed at the one the machine started from.  One wait is
\* not faithful: the read before the action found the machine elsewhere, somebody else
\* brought it to the state aimed at, and the API took the action from there.
AttenteFidele ==
  verdict = "confirme" =>
    /\ partie
    /\ \/ reste = <<>> /\ etat = Vise[action]
       \/ derangee /\ depart # Vise[action] /\ Vise[action] \in Acceptes[action]

\* What changed says: never claimed before the API took the action, never kept
\* back by a failure of the wait; a rehearsal sends nothing.
ChangedExact ==
  /\ verdict \in {"echec_change", "expire", "fait", "confirme"} => acceptee /\ partie
  /\ Fini /\ horloge > 0 => verdict # "echec"
  /\ check => ~partie

\* The limit of a task is the one it gives, the default when it gives none, 0 included.
\* A wait outlasts it by less than one pause and one read, however long the reads last,
\* and a wait that fails for want of time has had all of it.
AttenteBornee ==
  LET limite == IF delai > 0 THEN delai ELSE DELAI_PAR_DEFAUT
  IN /\ horloge < limite + INTERVALLE + LectureMax
     /\ verdict = "expire" => horloge >= limite

\* The module always hands back, whatever the machine does and however long its
\* reads last.
ModuleTermine == <>(pc = "fini")

\* The inductive invariant: what each step of the module has already established.
InvVerdict ==
  /\ pc # "fini" => verdict = Aucun
  /\ pc \in {"debut", "declencher"} => ~partie /\ ~acceptee
  /\ pc = "declencher" => ~check
  /\ pc \in {"sonder", "pause"} => acceptee /\ ~check /\ Attente
  /\ acceptee => partie
  /\ check => ~partie
  /\ verdict \in {"echec_change", "expire", "fait", "confirme"} => acceptee

InvHorloge ==
  /\ pc \in {"debut", "declencher"} => horloge = 0
  /\ pc = "sonder" => horloge < Limite + INTERVALLE
  /\ pc = "pause" => horloge < Limite
  /\ pc = "fini" => horloge < Limite + INTERVALLE + LectureMax
  /\ pc = "fini" /\ horloge > 0 => verdict # "echec"
  /\ verdict = "expire" => pc = "fini" /\ horloge >= Limite

IInv == TypeOK /\ InvVerdict /\ InvHorloge

\* A machine idle before the call, that renders its state, and whose path ends in
\* the state aimed at without going through it before.
MeneA(s, v) == s # <<>> => s[Len(s)] = v /\ \A i \in 1..(Len(s) - 1) : s[i] # v

MachineFidele ==
  /\ ~LecturesMuettes
  /\ \A d \in Departs : d.reste = <<>>
  /\ \A a \in Actions : Vise[a] # Aucun => Chemin[a] # <<>> /\ MeneA(Chemin[a], Vise[a])

\* With such a machine: as long as it has not moved it is not said to have left, unless
\* somebody else moved it, and once it has moved the state aimed at is the end of its path.
InvFidele ==
  /\ ~partie => reste = <<>>
  /\ pc = "declencher" /\ Attente /\ ~derangee => depart = etat
  /\ partie /\ Attente => MeneA(reste, Vise[action]) /\ (reste = <<>> => etat = Vise[action])
  /\ pc \in {"sonder", "pause"} /\ etat = Vise[action] /\ reste # <<>>
       => /\ Vise[action] \in Acceptes[action]
          /\ IF depart = Vise[action] THEN ~quitte ELSE derangee
  /\ verdict = "confirme" =>
       /\ pc = "fini" /\ Attente /\ partie
       /\ \/ reste = <<>>
          \/ derangee /\ depart # Vise[action] /\ Vise[action] \in Acceptes[action]

------------------------------------------------------------------------------
(* The contract a role relies on. *)

\* A task with something to wait for; in check mode nothing is asked.
Concerne(a) == action = a /\ Attente /\ ~check

EtatDuTravail(a) ==
  IF ~Concerne(a) THEN "aucun"
  ELSE IF pc \in {"debut", "declencher"} THEN IF derangee THEN "derange" ELSE "lance"
  ELSE IF pc \in {"sonder", "pause"}
         THEN IF derangee /\ Vise[a] \in Acceptes[a] THEN "presse" ELSE "envoye"
  ELSE IF verdict = "confirme" THEN "ok" ELSE "echec"

MachineDuTravail(a) ==
  IF ~Concerne(a) THEN Vise[a] ELSE IF reste = <<>> THEN etat ELSE Aucun

Promesse(a) == INSTANCE Travail WITH
  EnRoute <- Aucun, Acceptes <- Acceptes[a], Vise <- Vise[a],
  travail <- EtatDuTravail(a), machine <- MachineDuTravail(a)

Attendables == {a \in Actions : Vise[a] # Aucun}

\* "The action module observes the machine leave running before accepting that it came
\* back" (batch.yml): what the roles rely on, of the tasks they wait for.  It is
\* Promesse(a)!Spec for each action, all their steps in one formula.
RespecteLaPromesse ==
  /\ \A a \in Attendables : Promesse(a)!Init
  /\ [][\A a \in Attendables : [Promesse(a)!Next]_(Promesse(a)!vars)]_vars
==============================================================================
