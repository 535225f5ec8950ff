------------------------------- MODULE Gestion -------------------------------
(***************************************************************************)
(* The managing modules of the collection (run_manage_module): several     *)
(* playbook runs read the same resource, compare what they ask for with    *)
(* what they read, write the difference (PATCH) or the whole set of        *)
(* managed fields (PUT), read again and verify.  Reads and writes of       *)
(* different runs interleave.  Of the write call this module only knows    *)
(* the contract OneShot, which Transport implements: it may fail for the   *)
(* caller and land later all the same.                                     *)
(***************************************************************************)
EXTENDS Comparaison

CONSTANTS
  Executions,     \* the runs: one task of one playbook each
  Valeurs,        \* what a playbook may ask for
  Null,           \* null as a playbook writes it
  Methode,        \* method of update_operation
  Secrets,        \* secret_params: the API never renders them
  NonVerifies,    \* unverified_params
  Nullables,      \* nullable_params
  Pose(_, _, _),  \* what the API may store: field, value sent, value held
  MaxTours        \* bound: how many times one run is replayed

Etapes == {"debut", "ecrire", "attend", "relire", "fini"}
Stockees == Valeurs \cup {Rien}
Corps == UNION {[S -> Valeurs] : S \in SUBSET Champs}
Envois == [execution : Executions, tour : 0..MaxTours, corps : Corps]

ASSUME GestionAssumption ==
  /\ Methode \in {"PUT", "PATCH"}
  /\ Secrets \subseteq Champs /\ NonVerifies \subseteq Champs /\ Nullables \subseteq Champs
  /\ Rien \notin Valeurs /\ Null \notin Valeurs /\ Rien # Null
  /\ MaxTours \in Nat
  /\ \A f \in Champs, v \in Valeurs, w \in Stockees : Pose(f, v, w) \subseteq Stockees
  /\ \A f \in Champs, v \in Valeurs : Rend(f, v) # Rien
  /\ Methode = "PUT" => \A f \in Champs : Strategie[f] # "id_list"

VARIABLES
  params,      \* module.params, Rien for an option the task omits
  check,       \* module.check_mode
  ressource,   \* what the API holds
  etape,       \* where each run is
  lu,          \* courant, the first read of the run
  vol,         \* writes transmitted, not applied yet
  verdict,     \* exit_json or fail_json: [echec, changed]
  tour,        \* how many times the run was replayed
  applique,    \* history: the write of this turn took effect
  conforme     \* history: this run ended well and nothing was applied since

vars == <<params, check, ressource, etape, lu, vol, verdict, tour, applique, conforme>>
historique == <<applique, conforme>>

\* What a read renders: everything but the secrets.
Rendu(r) == [f \in Champs |-> IF f \in Secrets THEN Rien ELSE Rend(f, r[f])]
Lectures == {Rendu(r) : r \in [Champs -> Stockees]}

TypeOK ==
  /\ params \in [Executions -> [Champs -> Valeurs \cup {Rien, Null}]]
  /\ check \in [Executions -> BOOLEAN]
  /\ ressource \in [Champs -> Stockees]
  /\ etape \in [Executions -> Etapes]
  /\ lu \in [Executions -> Lectures]
  /\ vol \subseteq Envois
  /\ verdict \in [Executions -> [echec : BOOLEAN, changed : BOOLEAN]]
  /\ tour \in [Executions -> 0..MaxTours]
  /\ applique \in [Executions -> BOOLEAN]
  /\ conforme \in [Executions -> BOOLEAN]

------------------------------------------------------------------------------
(* What run_manage_module computes from what it read. *)

\* explicit_nulls: a clearable field written null in the playbook.
NulsExplicites(p) == {f \in Nullables : params[p][f] = Null}

\* Mutant: a null that is not clearable goes through as a value.
Mut_Demande(p) == {f \in Champs : params[p][f] # Rien}

\* An absent parameter is not managed; a null that got here counts as absent.
Demande(p) == {f \in Champs : params[p][f] \in Valeurs}

\* Mutant: strict equality whatever the strategy of the field.
Mut_Ecarts(p, courant) == {f \in Demande(p) : params[p][f] # ValeurCourante(courant, f)}

Ecarts(p, courant) == {f \in Demande(p) : ~Identique(f, params[p][f], ValeurCourante(courant, f))}

HorsMesure == Secrets \cup NonVerifies

\* Mutant: the read after the write is announced, not looked at.
Mut_PostconditionsNonTenues(p, apres) == {}

PostconditionsNonTenues(p, apres) ==
  {f \in Demande(p) \ HorsMesure : ~Identique(f, params[p][f], ValeurCourante(apres, f))}

Rendus(courant) == {f \in Champs : ValeurCourante(courant, f) # Rien}

\* Mutants: a PUT that sends only what differs; a PATCH that sends everything.
Mut_CorpsEcrit(p, courant) == [f \in Ecarts(p, courant) |-> params[p][f]]

Mut_CorpsEntier(p, courant) ==
  [f \in Demande(p) \cup Rendus(courant) |->
     IF f \in Demande(p) THEN params[p][f]
     ELSE Projection(Strategie[f], ValeurCourante(courant, f))]

\* The body of a PATCH is the difference; the body of a PUT is every managed
\* field, asked for or read again, except those the read does not render.
CorpsEcrit(p, courant) ==
  IF Methode = "PUT"
    THEN [f \in Demande(p) \cup Rendus(courant) |->
            IF f \in Demande(p) THEN params[p][f] ELSE ValeurCourante(courant, f)]
    ELSE [f \in Ecarts(p, courant) |-> params[p][f]]

------------------------------------------------------------------------------
Init ==
  /\ params \in [Executions -> [Champs -> Valeurs \cup {Rien, Null}]]
  /\ check \in [Executions -> BOOLEAN]
  /\ ressource \in [Champs -> Stockees]
  /\ etape = [p \in Executions |-> "debut"]
  /\ lu = [p \in Executions |-> Rendu(ressource)]
  /\ vol = {}
  /\ verdict = [p \in Executions |-> [echec |-> FALSE, changed |-> FALSE]]
  /\ tour = [p \in Executions |-> 0]
  /\ applique = [p \in Executions |-> FALSE]
  /\ conforme = [p \in Executions |-> FALSE]

Sortir(p, echec, changed) ==
  /\ etape' = [etape EXCEPT ![p] = "fini"]
  /\ verdict' = [verdict EXCEPT ![p] = [echec |-> echec, changed |-> changed]]

\* An explicit null is refused before anything is read.
RefuserLeNull(p) ==
  /\ etape[p] = "debut" /\ NulsExplicites(p) # {}
  /\ Sortir(p, TRUE, FALSE)
  /\ UNCHANGED <<params, check, ressource, lu, vol, tour, historique>>

\* No client, an API error, or an answer that is not an object.
LectureEchouee(p) ==
  /\ etape[p] = "debut" /\ NulsExplicites(p) = {}
  /\ Sortir(p, TRUE, FALSE)
  /\ UNCHANGED <<params, check, ressource, lu, vol, tour, historique>>

\* Mutant: check mode looked at after the write was prepared.
Mut_ApresLaLecture(p, courant) ==
  IF Ecarts(p, courant) = {} THEN "conforme" ELSE "ecrire"

\* What follows the read: nothing to do, a rehearsal, or a write.
ApresLaLecture(p, courant) ==
  IF Ecarts(p, courant) = {} THEN "conforme" ELSE IF check[p] THEN "repetition" ELSE "ecrire"

\* The read, the comparison and the decision: no other call in between.
Lire(p) ==
  LET courant == Rendu(ressource)
      suite == ApresLaLecture(p, courant)
  IN /\ etape[p] = "debut" /\ NulsExplicites(p) = {}
     /\ lu' = [lu EXCEPT ![p] = courant]
     /\ IF suite = "ecrire"
          THEN etape' = [etape EXCEPT ![p] = "ecrire"] /\ UNCHANGED verdict
          ELSE Sortir(p, FALSE, suite = "repetition")
     /\ conforme' = [conforme EXCEPT ![p] = @ \/ suite = "conforme"]
     /\ UNCHANGED <<params, check, ressource, vol, tour, applique>>

Emettre(p) ==
  /\ etape[p] = "ecrire"
  /\ etape' = [etape EXCEPT ![p] = "attend"]
  /\ vol' = vol \cup {[execution |-> p, tour |-> tour[p], corps |-> CorpsEcrit(p, lu[p])]}
  /\ UNCHANGED <<params, check, ressource, lu, verdict, tour, historique>>

EcritureFaite(p) ==
  /\ etape[p] = "attend" /\ applique[p]
  /\ etape' = [etape EXCEPT ![p] = "relire"]
  /\ UNCHANGED <<params, check, ressource, lu, vol, verdict, tour, applique, conforme>>

DeCeTour(w, p) == w.execution = p /\ w.tour = tour[p]

\* The API refused the write: it did not happen and will not.
EcritureRefusee(p) ==
  /\ etape[p] = "attend" /\ ~applique[p]
  /\ vol' = {w \in vol : ~DeCeTour(w, p)}
  /\ Sortir(p, TRUE, FALSE)
  /\ UNCHANGED <<params, check, ressource, lu, tour, historique>>

\* No answer, an ambiguous one, or a success whose body is unreadable.
EcritureInconnue(p) ==
  /\ etape[p] = "attend"
  /\ Sortir(p, TRUE, FALSE)
  /\ UNCHANGED <<params, check, ressource, lu, vol, tour, historique>>

\* The second read, and its verification.
Relire(p) ==
  LET apres == Rendu(ressource)
      tenues == PostconditionsNonTenues(p, apres) = {}
  IN /\ etape[p] = "relire"
     /\ Sortir(p, ~tenues, TRUE)
     /\ conforme' = [conforme EXCEPT ![p] = tenues]
     /\ UNCHANGED <<params, check, ressource, lu, vol, tour, applique>>

\* The second read fails: the same except clause as the write's.
RelectureEchouee(p) ==
  /\ etape[p] = "relire"
  /\ Sortir(p, TRUE, FALSE)
  /\ UNCHANGED <<params, check, ressource, lu, vol, tour, historique>>

\* The playbook is played again.
Rejouer(p) ==
  /\ etape[p] = "fini" /\ tour[p] < MaxTours
  /\ etape' = [etape EXCEPT ![p] = "debut"]
  /\ tour' = [tour EXCEPT ![p] = @ + 1]
  /\ verdict' = [verdict EXCEPT ![p] = [echec |-> FALSE, changed |-> FALSE]]
  /\ applique' = [applique EXCEPT ![p] = FALSE]
  /\ UNCHANGED <<params, check, ressource, lu, vol, conforme>>

\* The API.  A field a PUT does not name is kept or reset: the contract does not
\* say which.
Stockable(f, corps, tenue) ==
  IF f \in DOMAIN corps THEN Pose(f, corps[f], tenue)
  ELSE IF Methode = "PUT" THEN {Rien, tenue} ELSE {tenue}

Appliquer(w) ==
  /\ w \in vol
  /\ vol' = vol \ {w}
  /\ \E r \in [Champs -> Stockees] :
       /\ \A f \in Champs : r[f] \in Stockable(f, w.corps, ressource[f])
       /\ ressource' = r
  /\ applique' = [p \in Executions |-> applique[p] \/ DeCeTour(w, p)]
  /\ conforme' = [p \in Executions |-> FALSE]
  /\ UNCHANGED <<params, check, etape, lu, verdict, tour>>

\* A write nobody waits for any more never reaches the API.
Perdre(w) ==
  /\ w \in vol
  /\ \A p \in Executions : DeCeTour(w, p) => etape[p] # "attend"
  /\ vol' = vol \ {w}
  /\ UNCHANGED <<params, check, ressource, etape, lu, verdict, tour, historique>>

Etape(p) ==
  \/ RefuserLeNull(p) \/ LectureEchouee(p) \/ Lire(p) \/ Emettre(p)
  \/ EcritureFaite(p) \/ EcritureRefusee(p) \/ EcritureInconnue(p)
  \/ Relire(p) \/ RelectureEchouee(p)

Api == \E w \in vol : Appliquer(w) \/ Perdre(w)

Repos == /\ \A p \in Executions : etape[p] = "fini" /\ tour[p] = MaxTours
         /\ vol = {}
         /\ UNCHANGED vars

Next == (\E p \in Executions : Etape(p) \/ Rejouer(p)) \/ Api \/ Repos

Spec == Init /\ [][Next]_vars

------------------------------------------------------------------------------
(* Properties. *)

Observee(f) == ValeurCourante(Rendu(ressource), f)
Fini(p) == etape[p] = "fini"
Reussi(p) == Fini(p) /\ ~verdict[p].echec

\* A success says what happened: changed when the write was applied, not changed
\* when nothing was sent; a failure never claims a write that did not take effect;
\* a rehearsal sends nothing whatever it announces.
ChangedExact ==
  \A p \in Executions :
    /\ Reussi(p) /\ ~check[p] => (verdict[p].changed <=> applique[p])
    /\ Fini(p) /\ ~check[p] /\ verdict[p].changed => applique[p]
    /\ check[p] => ~applique[p] /\ \A w \in vol : w.execution # p

\* The inductive invariant: a run that has not sent anything yet has nothing on the
\* wire, and what it says of its write agrees with what the API did of it.
InvVol == \A w \in vol : w.tour <= tour[w.execution] /\ ~check[w.execution]

SansEnvoi(p) == ~applique[p] /\ \A w \in vol : ~DeCeTour(w, p)

Cours(p) ==
  /\ etape[p] \in {"debut", "ecrire"} => SansEnvoi(p)
  /\ etape[p] \in {"ecrire", "attend", "relire"} => ~check[p]
  /\ etape[p] = "relire" => applique[p]
  /\ check[p] => ~applique[p]
  /\ Fini(p) /\ ~check[p] /\ verdict[p].changed => applique[p]
  /\ Reussi(p) /\ ~check[p] /\ ~verdict[p].changed => SansEnvoi(p)

InvCours == \A p \in Executions : Cours(p)

\* The write of a turn on the wire is the one decided on what this turn read, and the
\* only one: once applied there is none left.
InvEnvois ==
  \A w \in vol : w.tour = tour[w.execution] =>
    /\ w.corps = CorpsEcrit(w.execution, lu[w.execution])
    /\ ~applique[w.execution]

IInv == TypeOK /\ InvVol /\ InvCours /\ InvEnvois

\* A success was observed and not announced: as long as nothing is applied after
\* it, what the resource renders is what the playbook asked for.
SuccesObserve ==
  \A p \in Executions : conforme[p] =>
    \A f \in Demande(p) \ HorsMesure : Identique(f, params[p][f], Observee(f))

\* Played again on a resource nothing else was applied to, a run that ended well
\* has nothing to write, whatever the API normalised.  A secret is written at
\* each run, and a field left unverified may be.
Idempotence ==
  \A p \in Executions :
    (conforme[p] /\ Demande(p) \cap HorsMesure = {})
      => etape[p] \notin {"ecrire", "attend", "relire"}

\* What the strategies are for: a value the API held, sent back to it, is normalised
\* into nothing a task would see as a difference.
PoseFidele ==
  \A f \in Champs, v \in Valeurs : \A x \in Pose(f, v, v) :
    x = v \/ Comparer(Strategie[f], v, x)

\* A write applied to the resource as its run read it leaves alone every field
\* its playbook did not ask for, PUT or PATCH, as far as the read renders it
\* and up to what the API normalises.
NonDemandesPreserves ==
  [][\A w \in vol \ vol' :
       LET p == w.execution
       IN (w.tour = tour[p] /\ applique'[p] # applique[p] /\ lu[p] = Rendu(ressource))
            => \A f \in Champs \ Demande(p) :
                 \/ Observee(f)' = Observee(f)
                 \/ Comparer(Strategie[f], Observee(f), Observee(f)')]_vars

\* Nobody else asks for a field of p.
Seul(p) == \A q \in Executions \ {p} : Demande(p) \cap Demande(q) = {}

\* Two playbooks manage two facets of one resource without stepping on each other, as
\* the comment of ManageModule has it: a run alone on its fields that ended well the
\* first time it was played keeps what it asked for, whatever the others read, write and
\* replay meanwhile, and whatever of theirs lands late.
DeuxFacettes ==
  \A p \in Executions : Seul(p) /\ tour[p] = 0 /\ Reussi(p) /\ ~check[p] =>
    \A f \in Demande(p) \ HorsMesure : Identique(f, params[p][f], Observee(f))
==============================================================================
