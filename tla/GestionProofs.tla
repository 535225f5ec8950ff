---------------------------- MODULE GestionProofs ----------------------------
(***************************************************************************)
(* What a managing module says of changed, and what its success promises,  *)
(* for any number of runs on one resource, any fields and strategies, PUT  *)
(* or PATCH, and any interleaving with the API.                            *)
(***************************************************************************)
EXTENDS Gestion, FiniteSetTheorems, FunctionTheorems, TLAPS

\* What a read renders.
LEMMA RenduType == ASSUME NEW r \in [Champs -> Stockees] PROVE Rendu(r) \in Lectures
BY DEF Lectures

\* Without lists of references, what is found in a read is the value that is held.
LEMMA CouranteType ==
  ASSUME NEW courant \in Lectures, NEW f \in Champs, Strategie[f] # "id_list"
  PROVE  ValeurCourante(courant, f) \in Stockees
<1>1. PICK r \in [Champs -> Stockees] : courant = Rendu(r)
  BY DEF Lectures
<1>2. courant[f] = IF f \in Secrets THEN Rien ELSE Rend(f, r[f])
  BY <1>1 DEF Rendu
<1>3. CASE f \in Secrets \/ r[f] = Rien
  BY <1>2, <1>3 DEF ValeurCourante, Rend, Stockees
<1>4. CASE f \notin Secrets /\ r[f] # Rien /\ f \in References
  <2>1. courant[f] = [id |-> r[f]]
    BY <1>2, <1>4 DEF Rend
  <2>2. courant[f].id = r[f]
    BY <2>1
  <2>3. CASE courant[f] = Rien
    BY <2>3 DEF ValeurCourante, Stockees
  <2>4. CASE courant[f] # Rien
    BY <1>4, <2>2, <2>4 DEF ValeurCourante
  <2> QED BY <2>3, <2>4
<1>5. CASE f \notin Secrets /\ r[f] # Rien /\ f \notin References
  <2>1. courant[f] = r[f]
    BY <1>2, <1>5 DEF Rend
  <2> QED BY <1>5, <2>1 DEF ValeurCourante
<1> QED BY <1>3, <1>4, <1>5

\* The body sent holds values a playbook may ask for, of fields that exist.
LEMMA CorpsType ==
  ASSUME NEW p \in Executions, NEW courant \in Lectures
  PROVE  CorpsEcrit(p, courant) \in Corps
<1>1. Demande(p) \subseteq Champs /\ \A f \in Demande(p) : params[p][f] \in Valeurs
  BY DEF Demande
<1>2. CASE Methode = "PUT"
  <2> DEFINE S == Demande(p) \cup Rendus(courant)
  <2>1. S \in SUBSET Champs
    BY <1>1 DEF Rendus
  <2>2. \A f \in Rendus(courant) : ValeurCourante(courant, f) \in Valeurs
    BY <1>2, CouranteType, GestionAssumption DEF Rendus, Stockees
  <2>3. CorpsEcrit(p, courant) \in [S -> Valeurs]
    BY <1>1, <1>2, <2>2 DEF CorpsEcrit
  <2> QED BY <2>1, <2>3 DEF Corps
<1>3. CASE Methode # "PUT"
  <2>1. Ecarts(p, courant) \in SUBSET Champs /\ Ecarts(p, courant) \subseteq Demande(p)
    BY <1>1 DEF Ecarts
  <2>2. CorpsEcrit(p, courant) \in [Ecarts(p, courant) -> Valeurs]
    BY <1>1, <1>3, <2>1 DEF CorpsEcrit
  <2> QED BY <2>1, <2>2 DEF Corps
<1> QED BY <1>2, <1>3

LEMMA InitIInv == Init => IInv
<1> SUFFICES ASSUME Init PROVE IInv
  OBVIOUS
<1>1. \A p \in Executions : etape[p] = "debut" /\ ~applique[p]
  BY DEF Init
<1>2. TypeOK
  <2>1. lu \in [Executions -> Lectures]
    BY RenduType DEF Init
  <2> QED BY <2>1, GestionAssumption DEF Init, TypeOK, Etapes
<1>3. InvVol /\ InvCours /\ InvEnvois
  BY <1>1 DEF Init, InvVol, InvCours, InvEnvois, Cours, SansEnvoi, Fini, Reussi
<1> QED BY <1>2, <1>3 DEF IInv

------------------------------------------------------------------------------
(* TypeOK, one step per action. *)

LEMMA NextTypeOK == TypeOK /\ [Next]_vars => TypeOK'
<1> SUFFICES ASSUME TypeOK, [Next]_vars PROVE TypeOK'
  OBVIOUS
<1>1. ASSUME NEW p \in Executions, NEW e \in BOOLEAN, NEW c \in BOOLEAN, Sortir(p, e, c)
      PROVE  /\ etape' \in [Executions -> Etapes]
             /\ verdict' \in [Executions -> [echec : BOOLEAN, changed : BOOLEAN]]
  <2>1. etape' \in [Executions -> Etapes]
    BY <1>1 DEF Sortir, TypeOK, Etapes
  <2>2. [echec |-> e, changed |-> c] \in [echec : BOOLEAN, changed : BOOLEAN]
    OBVIOUS
  <2>3. verdict' \in [Executions -> [echec : BOOLEAN, changed : BOOLEAN]]
    BY <1>1, <2>2 DEF Sortir, TypeOK
  <2> QED BY <2>1, <2>3
<1>2. ASSUME NEW p \in Executions, RefuserLeNull(p) \/ LectureEchouee(p) \/ RelectureEchouee(p) \/ EcritureInconnue(p)
      PROVE  TypeOK'
  BY <1>1, <1>2 DEF RefuserLeNull, LectureEchouee, RelectureEchouee, EcritureInconnue, TypeOK, historique
<1>3. ASSUME NEW p \in Executions, Lire(p) PROVE TypeOK'
  <2> DEFINE courant == Rendu(ressource)
             suite == ApresLaLecture(p, courant)
  <2>1. courant \in Lectures
    BY RenduType DEF TypeOK
  <2>2. lu' \in [Executions -> Lectures]
    BY <1>3, <2>1 DEF Lire, TypeOK
  <2>3. /\ etape' \in [Executions -> Etapes]
        /\ verdict' \in [Executions -> [echec : BOOLEAN, changed : BOOLEAN]]
    <3>1. CASE suite = "ecrire"
      BY <1>3, <3>1 DEF Lire, TypeOK, Etapes
    <3>2. CASE suite # "ecrire"
      <4>1. Sortir(p, FALSE, suite = "repetition")
        BY <1>3, <3>2 DEF Lire
      <4> HIDE DEF suite
      <4>2. (suite = "repetition") \in BOOLEAN
        OBVIOUS
      <4> QED BY <1>1, <4>1, <4>2
    <3> QED BY <3>1, <3>2
  <2>4. conforme' \in [Executions -> BOOLEAN]
    BY <1>3 DEF Lire, TypeOK
  <2> QED BY <1>3, <2>2, <2>3, <2>4 DEF Lire, TypeOK
<1>4. ASSUME NEW p \in Executions, Emettre(p) PROVE TypeOK'
  <2>1. CorpsEcrit(p, lu[p]) \in Corps
    BY CorpsType DEF TypeOK
  <2>2. [execution |-> p, tour |-> tour[p], corps |-> CorpsEcrit(p, lu[p])] \in Envois
    BY <2>1 DEF Envois, TypeOK
  <2>3. vol' \subseteq Envois
    BY <1>4, <2>2 DEF Emettre, TypeOK
  <2>4. etape' \in [Executions -> Etapes]
    BY <1>4 DEF Emettre, TypeOK, Etapes
  <2> QED BY <1>4, <2>3, <2>4 DEF Emettre, TypeOK, historique
<1>5. ASSUME NEW p \in Executions, EcritureFaite(p) PROVE TypeOK'
  BY <1>5 DEF EcritureFaite, TypeOK, Etapes
<1>6. ASSUME NEW p \in Executions, EcritureRefusee(p) PROVE TypeOK'
  BY <1>1, <1>6 DEF EcritureRefusee, TypeOK, historique
<1>7. ASSUME NEW p \in Executions, Relire(p) PROVE TypeOK'
  <2> DEFINE tenues == PostconditionsNonTenues(p, Rendu(ressource)) = {}
  <2>1. Sortir(p, ~tenues, TRUE) /\ conforme' = [conforme EXCEPT ![p] = tenues]
    BY <1>7 DEF Relire
  <2>2. tenues \in BOOLEAN
    OBVIOUS
  <2> HIDE DEF tenues
  <2>3. conforme' \in [Executions -> BOOLEAN]
    BY <2>1, <2>2 DEF TypeOK
  <2>4. /\ etape' \in [Executions -> Etapes]
        /\ verdict' \in [Executions -> [echec : BOOLEAN, changed : BOOLEAN]]
    <3>1. (~tenues) \in BOOLEAN
      BY <2>2
    <3> QED BY <1>1, <2>1, <3>1
  <2> QED BY <1>7, <2>3, <2>4 DEF Relire, TypeOK
<1>8. ASSUME NEW p \in Executions, Rejouer(p) PROVE TypeOK'
  <2>1. tour' \in [Executions -> 0..MaxTours]
    <3>1. tour[p] + 1 \in 0..MaxTours
      BY <1>8, GestionAssumption DEF Rejouer, TypeOK
    <3> QED BY <1>8, <3>1 DEF Rejouer, TypeOK
  <2>2. [echec |-> FALSE, changed |-> FALSE] \in [echec : BOOLEAN, changed : BOOLEAN]
    OBVIOUS
  <2>3. verdict' \in [Executions -> [echec : BOOLEAN, changed : BOOLEAN]]
    BY <1>8, <2>2 DEF Rejouer, TypeOK
  <2> QED BY <1>8, <2>1, <2>3 DEF Rejouer, TypeOK, Etapes
<1>9. ASSUME NEW w \in vol, Appliquer(w) PROVE TypeOK'
  <2>1. applique' \in [Executions -> BOOLEAN] /\ conforme' \in [Executions -> BOOLEAN]
    BY <1>9 DEF Appliquer
  <2> QED BY <1>9, <2>1 DEF Appliquer, TypeOK
<1>10. ASSUME NEW w \in vol, Perdre(w) PROVE TypeOK'
  BY <1>10 DEF Perdre, TypeOK, historique
<1>11. CASE Repos \/ UNCHANGED vars
  BY <1>11 DEF Repos, vars, TypeOK
<1> QED BY <1>2, <1>3, <1>4, <1>5, <1>6, <1>7, <1>8, <1>9, <1>10, <1>11 DEF Next, Etape, Api

------------------------------------------------------------------------------
(* InvVol and InvCours: what each step leaves alone in the other runs. *)

LEMMA NextVol == TypeOK /\ InvVol /\ InvCours /\ [Next]_vars => InvVol'
<1> SUFFICES ASSUME TypeOK, InvVol, InvCours, [Next]_vars, NEW w \in vol'
             PROVE  w.tour <= tour'[w.execution] /\ ~check'[w.execution]
  BY DEF InvVol
<1>1. ASSUME w \in vol, tour' = tour, check' = check
      PROVE  w.tour <= tour'[w.execution] /\ ~check'[w.execution]
  BY <1>1 DEF InvVol
<1>2. ASSUME NEW p \in Executions, Emettre(p)
      PROVE  w.tour <= tour'[w.execution] /\ ~check'[w.execution]
  <2>1. CASE w \in vol
    BY <1>1, <1>2, <2>1 DEF Emettre
  <2>2. CASE w \notin vol
    <3>1. w.execution = p /\ w.tour = tour[p]
      BY <1>2, <2>2 DEF Emettre
    <3>2. ~check[p] /\ tour[p] \in Int
      BY <1>2, GestionAssumption DEF Emettre, InvCours, Cours, TypeOK
    <3> QED BY <1>2, <3>1, <3>2 DEF Emettre
  <2> QED BY <2>1, <2>2
<1>3. ASSUME NEW p \in Executions, Rejouer(p)
      PROVE  w.tour <= tour'[w.execution] /\ ~check'[w.execution]
  <2>1. w \in vol /\ check' = check /\ w.execution \in Executions /\ w.tour \in Int
    BY <1>3, GestionAssumption DEF Rejouer, TypeOK, Envois
  <2>2. tour[w.execution] \in Int /\ tour'[w.execution] \in {tour[w.execution], tour[w.execution] + 1}
    BY <1>3, <2>1, GestionAssumption DEF Rejouer, TypeOK
  <2> QED BY <2>1, <2>2 DEF InvVol
<1>4. ASSUME NEW p \in Executions, Etape(p), ~Emettre(p)
      PROVE  w \in vol /\ tour' = tour /\ check' = check
  BY <1>4 DEF Etape, RefuserLeNull, LectureEchouee, Lire, EcritureFaite, EcritureRefusee,
              EcritureInconnue, Relire, RelectureEchouee
<1>5. CASE Api
  BY <1>1, <1>5 DEF Api, Appliquer, Perdre
<1>6. CASE Repos \/ UNCHANGED vars
  BY <1>1, <1>6 DEF Repos, vars
<1> QED BY <1>1, <1>2, <1>3, <1>4, <1>5, <1>6 DEF Next

\* A step that touches neither the run nor its write leaves what is known of it.
LEMMA Ailleurs ==
  ASSUME NEW q \in Executions, Cours(q),
         etape'[q] = etape[q], check'[q] = check[q], applique'[q] = applique[q],
         verdict'[q] = verdict[q], tour'[q] = tour[q],
         \A w \in vol' : w \in vol \/ w.execution # q
  PROVE  Cours(q)'
BY DEF Cours, SansEnvoi, DeCeTour, Fini, Reussi

LEMMA NextCours == TypeOK /\ InvVol /\ InvCours /\ [Next]_vars => InvCours'
<1> SUFFICES ASSUME TypeOK, InvVol, InvCours, [Next]_vars, NEW q \in Executions
             PROVE  Cours(q)'
  BY DEF InvCours
<1>0. Cours(q)
  BY DEF InvCours
<1>1. ASSUME NEW p \in Executions, Etape(p) \/ Rejouer(p), p # q PROVE Cours(q)'
  <2>1. /\ etape'[q] = etape[q] /\ check'[q] = check[q] /\ applique'[q] = applique[q]
        /\ verdict'[q] = verdict[q] /\ tour'[q] = tour[q]
    BY <1>1 DEF Etape, Rejouer, RefuserLeNull, LectureEchouee, Lire, Emettre, EcritureFaite,
                EcritureRefusee, EcritureInconnue, Relire, RelectureEchouee, Sortir, historique, TypeOK
  <2>2. \A w \in vol' : w \in vol \/ w.execution # q
    <3>1. CASE Emettre(p)
      <4>1. \A w \in vol' : w \in vol \/ w = [execution |-> p, tour |-> tour[p], corps |-> CorpsEcrit(p, lu[p])]
        BY <3>1 DEF Emettre
      <4> QED BY <1>1, <4>1
    <3>2. CASE ~Emettre(p)
      <4>1. vol' = vol \/ vol' = {w \in vol : ~DeCeTour(w, p)}
        BY <1>1, <3>2 DEF Etape, Rejouer, RefuserLeNull, LectureEchouee, Lire, EcritureFaite,
                          EcritureRefusee, EcritureInconnue, Relire, RelectureEchouee
      <4> QED BY <4>1
    <3> QED BY <3>1, <3>2
  <2> QED BY <1>0, <2>1, <2>2, Ailleurs
<1>2. CASE RefuserLeNull(q) \/ LectureEchouee(q) \/ RelectureEchouee(q) \/ EcritureInconnue(q)
  BY <1>0, <1>2 DEF RefuserLeNull, LectureEchouee, RelectureEchouee, EcritureInconnue, Sortir,
                    Cours, Fini, Reussi, TypeOK, historique
<1>3. CASE Lire(q)
  <2> DEFINE suite == ApresLaLecture(q, Rendu(ressource))
  <2>1. SansEnvoi(q) /\ vol' = vol /\ applique' = applique /\ check' = check /\ tour' = tour
    BY <1>0, <1>3 DEF Lire, Cours
  <2>2. SansEnvoi(q)'
    BY <2>1 DEF SansEnvoi, DeCeTour
  <2>3. CASE suite = "ecrire"
    <3>1. etape'[q] = "ecrire" /\ ~check[q]
      BY <1>3, <2>3 DEF Lire, TypeOK, ApresLaLecture
    <3> QED BY <2>1, <2>2, <3>1 DEF Cours, SansEnvoi, Fini, Reussi
  <2>4. CASE suite # "ecrire"
    <3>1. etape'[q] = "fini" /\ verdict'[q].changed = (suite = "repetition")
      BY <1>3, <2>4 DEF Lire, Sortir, TypeOK
    <3>2. suite = "repetition" => check[q]
      BY DEF ApresLaLecture
    <3> QED BY <2>1, <2>2, <3>1, <3>2 DEF Cours, SansEnvoi, Fini, Reussi
  <2> QED BY <2>3, <2>4
<1>4. CASE Emettre(q)
  <2>1. etape'[q] = "attend" /\ ~check[q] /\ check' = check
    BY <1>0, <1>4 DEF Emettre, Cours, TypeOK
  <2> QED BY <2>1 DEF Cours, Fini, Reussi
<1>5. CASE EcritureFaite(q)
  <2>1. etape'[q] = "relire" /\ applique[q] /\ applique' = applique /\ ~check[q] /\ check' = check
    BY <1>0, <1>5 DEF EcritureFaite, Cours, TypeOK
  <2> QED BY <2>1 DEF Cours, Fini, Reussi
<1>6. CASE EcritureRefusee(q)
  <2>1. /\ etape'[q] = "fini" /\ verdict'[q].echec /\ ~verdict'[q].changed
        /\ ~check[q] /\ check' = check
    BY <1>0, <1>6 DEF EcritureRefusee, Sortir, Cours, TypeOK
  <2> QED BY <2>1 DEF Cours, Fini, Reussi
<1>7. CASE Relire(q)
  <2>1. /\ etape'[q] = "fini" /\ verdict'[q].changed
        /\ applique[q] /\ applique' = applique /\ ~check[q] /\ check' = check
    BY <1>0, <1>7 DEF Relire, Sortir, Cours, TypeOK
  <2> QED BY <2>1 DEF Cours, Fini, Reussi
<1>8. CASE Rejouer(q)
  <2>1. etape'[q] = "debut" /\ ~applique'[q] /\ vol' = vol /\ tour'[q] = tour[q] + 1 /\ tour[q] \in Int
    BY <1>8, GestionAssumption DEF Rejouer, TypeOK
  <2>2. ASSUME NEW w \in vol PROVE ~DeCeTour(w, q)'
    <3>1. w.execution = q => w.tour <= tour[q] /\ w.tour \in Int
      BY <2>2, GestionAssumption DEF InvVol, TypeOK, Envois
    <3> QED BY <2>1, <3>1 DEF DeCeTour
  <2>3. SansEnvoi(q)'
    BY <2>1, <2>2 DEF SansEnvoi
  <2> QED BY <2>1, <2>3 DEF Cours, Fini, Reussi
<1>9. ASSUME NEW w \in vol, Appliquer(w) PROVE Cours(q)'
  <2>1. /\ vol' = vol \ {w} /\ etape' = etape /\ check' = check /\ verdict' = verdict /\ tour' = tour
        /\ applique'[q] = (applique[q] \/ DeCeTour(w, q))
    BY <1>9 DEF Appliquer
  <2>2. CASE DeCeTour(w, q)
    <3>1. ~check[q] /\ ~SansEnvoi(q) /\ applique'[q]
      BY <2>1, <2>2 DEF InvVol, DeCeTour, SansEnvoi
    <3> QED BY <1>0, <2>1, <3>1 DEF Cours, Fini, Reussi
  <2>3. CASE ~DeCeTour(w, q)
    <3>1. applique'[q] = applique[q]
      BY <2>1, <2>3 DEF TypeOK
    <3> QED BY <1>0, <2>1, <3>1, Ailleurs
  <2> QED BY <2>2, <2>3
<1>10. ASSUME NEW w \in vol, Perdre(w) PROVE Cours(q)'
  BY <1>0, <1>10, Ailleurs DEF Perdre, historique
<1>11. CASE Repos \/ UNCHANGED vars
  BY <1>0, <1>11, Ailleurs DEF Repos, vars
<1>12. ASSUME NEW p \in Executions, Etape(p) \/ Rejouer(p) PROVE Cours(q)'
  BY <1>1, <1>2, <1>3, <1>4, <1>5, <1>6, <1>7, <1>8, <1>12 DEF Etape
<1> QED BY <1>9, <1>10, <1>11, <1>12 DEF Next, Api

\* A step that leaves the run of a write where it was leaves what is known of the write.
LEMMA MemeEnvoi ==
  ASSUME InvEnvois, NEW w \in vol, w.execution \in Executions,
         params' = params, tour'[w.execution] = tour[w.execution],
         lu'[w.execution] = lu[w.execution], applique'[w.execution] = applique[w.execution]
  PROVE  (w.tour = tour[w.execution] =>
            /\ w.corps = CorpsEcrit(w.execution, lu[w.execution])
            /\ ~applique[w.execution])'
<1>1. /\ Demande(w.execution)' = Demande(w.execution)
      /\ Ecarts(w.execution, lu[w.execution])' = Ecarts(w.execution, lu[w.execution])
      /\ Rendus(lu[w.execution])' = Rendus(lu[w.execution])
  BY DEF Demande, Ecarts, Rendus
<1>2. CorpsEcrit(w.execution, lu[w.execution])' = CorpsEcrit(w.execution, lu[w.execution])
  BY <1>1 DEF CorpsEcrit
<1> QED BY <1>2 DEF InvEnvois

LEMMA NextEnvois == TypeOK /\ InvVol /\ InvCours /\ InvEnvois /\ [Next]_vars => InvEnvois'
<1> SUFFICES ASSUME TypeOK, InvVol, InvCours, InvEnvois, [Next]_vars, NEW w \in vol'
             PROVE  (w.tour = tour[w.execution] =>
                       /\ w.corps = CorpsEcrit(w.execution, lu[w.execution])
                       /\ ~applique[w.execution])'
  BY DEF InvEnvois
<1> DEFINE Suit == (w.tour = tour[w.execution] =>
                      /\ w.corps = CorpsEcrit(w.execution, lu[w.execution])
                      /\ ~applique[w.execution])'
<1>0. \A v \in vol : v.execution \in Executions /\ v.tour \in Nat
  BY GestionAssumption DEF TypeOK, Envois
<1>1. ASSUME w \in vol, params' = params, tour' = tour, lu' = lu, applique' = applique
      PROVE  Suit
  BY <1>0, <1>1, MemeEnvoi
<1>2. ASSUME NEW p \in Executions, Etape(p), ~Lire(p), ~Emettre(p) PROVE Suit
  <2>1. w \in vol /\ params' = params /\ tour' = tour /\ lu' = lu /\ applique' = applique
    BY <1>2 DEF Etape, RefuserLeNull, LectureEchouee, EcritureFaite, EcritureRefusee,
                EcritureInconnue, Relire, RelectureEchouee, historique
  <2> QED BY <1>1, <2>1
\* A run reads before it has sent anything.
<1>3. ASSUME NEW p \in Executions, Lire(p) PROVE Suit
  <2>1. w \in vol /\ UNCHANGED <<params, tour, applique>> /\ SansEnvoi(p)
    BY <1>3 DEF Lire, InvCours, Cours
  <2>2. \A q \in Executions : q # p => lu'[q] = lu[q]
    BY <1>3 DEF Lire, TypeOK
  <2>3. w.execution = p => w.tour # tour'[p]
    BY <2>1 DEF SansEnvoi, DeCeTour
  <2> QED BY <1>0, <2>1, <2>2, <2>3, MemeEnvoi
<1>4. ASSUME NEW p \in Executions, Emettre(p) PROVE Suit
  <2>1. UNCHANGED <<params, lu, tour, applique>> /\ SansEnvoi(p)
        /\ vol' = vol \cup {[execution |-> p, tour |-> tour[p], corps |-> CorpsEcrit(p, lu[p])]}
    BY <1>4 DEF Emettre, InvCours, Cours, historique
  <2>2. CASE w \in vol BY <1>1, <2>1, <2>2
  <2>3. CASE w \notin vol
    <3>1. w.execution = p /\ w.corps = CorpsEcrit(p, lu[p]) /\ ~applique[p]
      BY <2>1, <2>3 DEF SansEnvoi
    <3>2. CorpsEcrit(p, lu[p])' = CorpsEcrit(p, lu[p])
      BY <2>1 DEF CorpsEcrit, Demande, Ecarts, Rendus
    <3> QED BY <2>1, <3>1, <3>2
  <2> QED BY <2>2, <2>3
<1>5. ASSUME NEW p \in Executions, Rejouer(p) PROVE Suit
  <2>1. w \in vol /\ UNCHANGED <<params, lu>> /\ tour[p] \in Nat /\ tour'[p] = tour[p] + 1
    BY <1>5, GestionAssumption DEF Rejouer, TypeOK
  <2>2. \A q \in Executions : q # p => tour'[q] = tour[q] /\ applique'[q] = applique[q]
    BY <1>5 DEF Rejouer, TypeOK
  <2>3. w.execution = p => w.tour # tour'[p]
    BY <1>0, <2>1 DEF InvVol
  <2> QED BY <1>0, <2>1, <2>2, <2>3, MemeEnvoi
\* Two writes of one turn would be the same write.
<1>6. ASSUME NEW v \in vol, Appliquer(v) PROVE Suit
  <2>1. /\ w \in vol /\ w # v /\ UNCHANGED <<params, lu, tour>>
        /\ \A q \in Executions : applique'[q] = (applique[q] \/ DeCeTour(v, q))
    BY <1>6 DEF Appliquer
  <2>2. CASE DeCeTour(v, w.execution) /\ w.tour = tour[w.execution]
    <3>1. v.execution = w.execution /\ v.tour = w.tour /\ v.corps = w.corps
      BY <2>1, <2>2 DEF DeCeTour, InvEnvois
    <3>2. v = [execution |-> v.execution, tour |-> v.tour, corps |-> v.corps]
          /\ w = [execution |-> w.execution, tour |-> w.tour, corps |-> w.corps]
      BY <2>1 DEF TypeOK, Envois
    <3> QED BY <2>1, <3>1, <3>2
  <2>3. CASE ~DeCeTour(v, w.execution)
    <3>1. applique'[w.execution] = applique[w.execution]
      BY <1>0, <2>1, <2>3 DEF TypeOK
    <3> QED BY <1>0, <2>1, <3>1, MemeEnvoi
  <2>4. CASE w.tour # tour[w.execution]
    BY <2>1, <2>4
  <2> QED BY <2>2, <2>3, <2>4
<1>7. ASSUME NEW v \in vol, Perdre(v) PROVE Suit
  BY <1>1, <1>7 DEF Perdre, historique
<1>8. CASE Repos \/ UNCHANGED vars
  BY <1>1, <1>8 DEF Repos, vars
<1> QED BY <1>2, <1>3, <1>4, <1>5, <1>6, <1>7, <1>8 DEF Next, Api

LEMMA NextIInv == IInv /\ [Next]_vars => IInv'
BY NextTypeOK, NextVol, NextCours, NextEnvois DEF IInv

------------------------------------------------------------------------------
\* IInv: the inductive invariant of the managing modules.
THEOREM Inductif == Spec => []IInv
BY InitIInv, NextIInv, PTL DEF Spec

\* ChangedExact: what a run says of its write is what the API did of it.
THEOREM Changed == Spec => []ChangedExact
<1>1. IInv => ChangedExact
  <2> SUFFICES ASSUME IInv, NEW p \in Executions
               PROVE  /\ Reussi(p) /\ ~check[p] => (verdict[p].changed <=> applique[p])
                      /\ Fini(p) /\ ~check[p] /\ verdict[p].changed => applique[p]
                      /\ check[p] => ~applique[p] /\ \A w \in vol : w.execution # p
    BY DEF ChangedExact
  <2>1. Cours(p)
    BY DEF IInv, InvCours
  <2>2. check[p] => \A w \in vol : w.execution # p
    BY DEF IInv, InvVol
  <2>3. verdict[p].changed \in BOOLEAN /\ applique[p] \in BOOLEAN
    BY DEF IInv, TypeOK
  <2> QED BY <2>1, <2>2, <2>3 DEF Cours, SansEnvoi, Reussi, Fini
<1> QED BY <1>1, Inductif, PTL
------------------------------------------------------------------------------
(* What a success promises. *)

\* What is asked of the fields a run verifies, of the resource as it renders it.
Tenue(p, r) ==
  \A f \in Demande(p) \ HorsMesure :
    Identique(f, params[p][f], ValeurCourante(Rendu(r), f))

LEMMA SansEcartTenue ==
  ASSUME NEW p \in Executions, NEW r
  PROVE  /\ Ecarts(p, Rendu(r)) = {} => Tenue(p, r)
         /\ PostconditionsNonTenues(p, Rendu(r)) = {} <=> Tenue(p, r)
         /\ Tenue(p, r) /\ Demande(p) \cap HorsMesure = {} => Ecarts(p, Rendu(r)) = {}
BY DEF Tenue, Ecarts, PostconditionsNonTenues

\* SuccesObserve: a success was observed, and holds until something is applied.
THEOREM Observe == Spec => []SuccesObserve
<1>1. Init => SuccesObserve
  BY DEF Init, SuccesObserve
<1>2. TypeOK /\ SuccesObserve /\ [Next]_vars => SuccesObserve'
  <2> SUFFICES ASSUME TypeOK, SuccesObserve, [Next]_vars, NEW q \in Executions, conforme'[q]
               PROVE  Tenue(q, ressource)'
    BY DEF SuccesObserve, Tenue, Observee
  <2>0. conforme[q] => Tenue(q, ressource)
    BY DEF SuccesObserve, Tenue, Observee
  <2>1. ASSUME params' = params, ressource' = ressource, conforme[q] \/ Tenue(q, ressource)
        PROVE  Tenue(q, ressource)'
    BY <2>0, <2>1 DEF Tenue, Demande, Rendu
  <2>2. ASSUME NEW p \in Executions, Lire(p) PROVE Tenue(q, ressource)'
    <3>1. conforme[q] \/ (q = p /\ ApresLaLecture(p, Rendu(ressource)) = "conforme")
      BY <2>2 DEF Lire, TypeOK
    <3>2. ApresLaLecture(p, Rendu(ressource)) = "conforme" => Ecarts(p, Rendu(ressource)) = {}
      BY DEF ApresLaLecture
    <3> QED BY <2>1, <2>2, <3>1, <3>2, SansEcartTenue DEF Lire
  <2>3. ASSUME NEW p \in Executions, Relire(p) PROVE Tenue(q, ressource)'
    <3>1. conforme[q] \/ (q = p /\ PostconditionsNonTenues(p, Rendu(ressource)) = {})
      BY <2>3 DEF Relire, TypeOK
    <3> QED BY <2>1, <2>3, <3>1, SansEcartTenue DEF Relire
  <2>4. ASSUME NEW p \in Executions, Etape(p), ~Lire(p), ~Relire(p) PROVE Tenue(q, ressource)'
    <3>1. params' = params /\ ressource' = ressource /\ conforme' = conforme
      BY <2>4 DEF Etape, RefuserLeNull, LectureEchouee, Emettre, EcritureFaite, EcritureRefusee,
                  EcritureInconnue, RelectureEchouee, historique
    <3> QED BY <2>1, <3>1
  <2>5. ASSUME NEW p \in Executions, Rejouer(p) PROVE Tenue(q, ressource)'
    BY <2>1, <2>5 DEF Rejouer
  <2>6. ASSUME NEW w \in vol, Appliquer(w) PROVE FALSE
    BY <2>6 DEF Appliquer
  <2>7. ASSUME NEW w \in vol, Perdre(w) PROVE Tenue(q, ressource)'
    BY <2>1, <2>7 DEF Perdre, historique
  <2>8. CASE Repos \/ UNCHANGED vars
    BY <2>1, <2>8 DEF Repos, vars
  <2> QED BY <2>2, <2>3, <2>4, <2>5, <2>6, <2>7, <2>8 DEF Next, Api
<1> QED BY <1>1, <1>2, Inductif, PTL DEF Spec, IInv

\* Idempotence: a run that ended well has nothing left to write.
THEOREM Idempotent == Spec => []Idempotence
<1>1. Init => Idempotence
  BY DEF Init, Idempotence
<1>2. TypeOK /\ SuccesObserve /\ Idempotence /\ [Next]_vars => Idempotence'
  <2> SUFFICES ASSUME TypeOK, SuccesObserve, Idempotence, [Next]_vars, NEW q \in Executions,
                      conforme'[q], (Demande(q) \cap HorsMesure = {})'
               PROVE  etape'[q] \notin {"ecrire", "attend", "relire"}
    BY DEF Idempotence
  <2>0. conforme[q] /\ Demande(q) \cap HorsMesure = {}
          => Tenue(q, ressource) /\ etape[q] \notin {"ecrire", "attend", "relire"}
    BY DEF SuccesObserve, Tenue, Observee, Idempotence
  <2>1. ASSUME params' = params, etape'[q] = etape[q], conforme[q]
        PROVE  etape'[q] \notin {"ecrire", "attend", "relire"}
    BY <2>0, <2>1 DEF Demande
  <2>2. ASSUME Lire(q) PROVE etape'[q] \notin {"ecrire", "attend", "relire"}
    <3>1. CASE ApresLaLecture(q, Rendu(ressource)) = "ecrire"
      <4>1. conforme[q] /\ params' = params /\ Ecarts(q, Rendu(ressource)) # {}
        BY <2>2, <3>1 DEF Lire, ApresLaLecture, TypeOK
      <4>2. Demande(q) \cap HorsMesure = {}
        BY <4>1 DEF Demande
      <4> QED BY <2>0, <4>1, <4>2, SansEcartTenue
    <3>2. CASE ApresLaLecture(q, Rendu(ressource)) # "ecrire"
      BY <2>2, <3>2 DEF Lire, Sortir, TypeOK
    <3> QED BY <3>1, <3>2
  <2>3. ASSUME Etape(q), ~Lire(q) PROVE etape'[q] \notin {"ecrire", "attend", "relire"}
    <3>1. CASE Emettre(q) \/ EcritureFaite(q)
      <4>1. conforme[q] /\ params' = params /\ etape[q] \in {"ecrire", "attend"}
        BY <3>1 DEF Emettre, EcritureFaite, historique
      <4>2. Demande(q) \cap HorsMesure = {}
        BY <4>1 DEF Demande
      <4> QED BY <2>0, <4>1, <4>2
    <3>2. CASE ~(Emettre(q) \/ EcritureFaite(q))
      BY <2>3, <3>2 DEF Etape, RefuserLeNull, LectureEchouee, EcritureRefusee, EcritureInconnue,
                        Relire, RelectureEchouee, Sortir, TypeOK
    <3> QED BY <3>1, <3>2
  <2>4. ASSUME NEW p \in Executions, Etape(p) \/ Rejouer(p), p # q
        PROVE  etape'[q] \notin {"ecrire", "attend", "relire"}
    <3>1. params' = params /\ etape'[q] = etape[q] /\ conforme'[q] = conforme[q]
      BY <2>4 DEF Etape, Rejouer, RefuserLeNull, LectureEchouee, Lire, Emettre, EcritureFaite,
                  EcritureRefusee, EcritureInconnue, Relire, RelectureEchouee, Sortir, historique, TypeOK
    <3> QED BY <2>1, <3>1
  <2>5. CASE Rejouer(q)
    BY <2>5 DEF Rejouer, TypeOK
  <2>6. ASSUME NEW w \in vol, Appliquer(w) PROVE FALSE
    BY <2>6 DEF Appliquer
  <2>7. ASSUME NEW w \in vol, Perdre(w) PROVE etape'[q] \notin {"ecrire", "attend", "relire"}
    BY <2>1, <2>7 DEF Perdre, historique
  <2>8. CASE Repos \/ UNCHANGED vars
    BY <2>1, <2>8 DEF Repos, vars
  <2> QED BY <2>2, <2>3, <2>4, <2>5, <2>6, <2>7, <2>8 DEF Next, Api
<1> QED BY <1>1, <1>2, Observe, Inductif, PTL DEF Spec, IInv

------------------------------------------------------------------------------
(* What is read is what is held. *)

\* A list or an object is the function of its places or keys.
Collection(v) == v = [i \in DOMAIN v |-> v[i]]

\* Rendered and read again, a value is identical to itself, under each strategy of
\* the table: references, lists of identifiers and enriched objects included.
LEMMA RendIdentique ==
  ASSUME NEW f \in Champs \ Secrets, NEW r \in [Champs -> Stockees], r[f] \in Valeurs,
         Strategie[f] \in {"id_list", "normalized_object"} => Collection(r[f])
  PROVE  Identique(f, r[f], ValeurCourante(Rendu(r), f))
<1> DEFINE v == r[f]
<1>1. Rendu(r)[f] = Rend(f, v) /\ v # Rien /\ Rend(f, v) # Rien
  BY GestionAssumption DEF Rendu
<1>2. Strategie[f] \in STRATEGIES
  BY ComparaisonAssumption
<1>3. CASE Strategie[f] = "id_list"
  <2>1. f \notin References
    BY <1>3, ComparaisonAssumption
  <2>2. Rend(f, v) = [i \in DOMAIN v |-> [id |-> v[i]]]
    BY <1>1, <1>3, <2>1 DEF Rend
  <2>3. ValeurCourante(Rendu(r), f) = Rend(f, v)
    BY <1>1, <2>1 DEF ValeurCourante
  <2>4. Identifiants(Rend(f, v)) = [i \in DOMAIN v |-> v[i]]
    BY <2>2 DEF Identifiants
  <2>5. Projection("id_list", ValeurCourante(Rendu(r), f)) = v
    BY <1>1, <1>3, <2>3, <2>4 DEF Projection, Collection
  <2> QED BY <1>3, <2>5 DEF Identique, Comparer
<1>4. CASE Strategie[f] # "id_list"
  <2>1. ValeurCourante(Rendu(r), f) = v
    <3>1. CASE f \in References
      <4>1. Rend(f, v) = [id |-> v]
        BY <1>1, <3>1 DEF Rend
      <4> QED BY <1>1, <3>1, <4>1 DEF ValeurCourante
    <3>2. CASE f \notin References
      BY <1>1, <1>4, <3>2 DEF ValeurCourante, Rend
    <3> QED BY <3>1, <3>2
  <2>2. Projection(Strategie[f], v) = v
    BY <1>4 DEF Projection
  <2>3. Strategie[f] = "normalized_object" => v = ClesDemandees(v, v)
    BY DEF ClesDemandees, Collection
  <2>4. Comparer(Strategie[f], v, v)
    BY <1>1, <1>2, <2>3 DEF Comparer, STRATEGIES
  <2> QED BY <2>1, <2>2, <2>4 DEF Identique
<1> QED BY <1>3, <1>4

\* A resource that holds what a task asks for leaves it nothing to write and nothing
\* to report, whatever form the read gives each field: a task that names no secret is
\* changed only by a difference.
THEOREM RienAEcrire ==
  ASSUME NEW p \in Executions, TypeOK,
         Demande(p) \cap Secrets = {},
         \A f \in Demande(p) : ressource[f] = params[p][f],
         \A f \in Demande(p) : Strategie[f] \in {"id_list", "normalized_object"}
                                 => Collection(params[p][f])
  PROVE  /\ Ecarts(p, Rendu(ressource)) = {}
         /\ PostconditionsNonTenues(p, Rendu(ressource)) = {}
<1>1. ASSUME NEW f \in Demande(p)
      PROVE  Identique(f, params[p][f], ValeurCourante(Rendu(ressource), f))
  <2>1. f \in Champs \ Secrets /\ params[p][f] \in Valeurs
    BY DEF Demande
  <2> QED BY <2>1, RendIdentique DEF TypeOK
<1> QED BY <1>1 DEF Ecarts, PostconditionsNonTenues

------------------------------------------------------------------------------
(* What a write touches. *)

\* A field a read renders as it is held: no secret, no list of references.
LEMMA RenduCourant ==
  ASSUME NEW f \in Champs, Strategie[f] # "id_list", NEW r \in [Champs -> Stockees]
  PROVE  ValeurCourante(Rendu(r), f) = IF f \in Secrets THEN Rien ELSE r[f]
<1>1. Rendu(r)[f] = IF f \in Secrets THEN Rien ELSE Rend(f, r[f])
  BY DEF Rendu
<1>2. CASE f \in Secrets \/ r[f] = Rien
  BY <1>1, <1>2 DEF Rend, ValeurCourante
<1>3. CASE f \notin Secrets /\ r[f] # Rien
  <2>1. r[f] \in Valeurs BY <1>3 DEF Stockees
  <2>2. Rend(f, r[f]) # Rien BY <2>1, GestionAssumption
  <2>3. CASE f \in References
    <3>1. Rend(f, r[f]) = [id |-> r[f]] BY <1>3, <2>3 DEF Rend
    <3>2. Rend(f, r[f]).id = r[f] BY <3>1
    <3> QED BY <1>1, <1>3, <2>2, <2>3, <3>2 DEF ValeurCourante
  <2>4. CASE f \notin References
    BY <1>1, <1>3, <2>4 DEF ValeurCourante, Rend
  <2> QED BY <2>3, <2>4
<1> QED BY <1>2, <1>3

\* The body of a PATCH names only fields the task asks for; so does the body of a PUT,
\* but for those it renders again as they were read.
LEMMA ChampsDuCorps ==
  ASSUME NEW p \in Executions, NEW courant
  PROVE  /\ Methode = "PATCH" => DOMAIN CorpsEcrit(p, courant) \subseteq Demande(p)
         /\ Methode = "PUT" =>
              /\ DOMAIN CorpsEcrit(p, courant) = Demande(p) \cup Rendus(courant)
              /\ \A f \in Rendus(courant) \ Demande(p) :
                   CorpsEcrit(p, courant)[f] = ValeurCourante(courant, f)
BY DEF CorpsEcrit, Ecarts

\* The step of NonDemandesPreserves: one write, decided on what the resource holds.
LEMMA EcritureLocale ==
  ASSUME TypeOK, NEW p \in Executions, NEW w \in vol, Appliquer(w),
         w.corps = CorpsEcrit(p, Rendu(ressource)), PoseFidele, NEW f \in Champs \ Demande(p)
  PROVE  \/ Observee(f)' = Observee(f)
         \/ Comparer(Strategie[f], Observee(f), Observee(f)')
<1> DEFINE courant == Rendu(ressource)
<1>1. PICK r \in [Champs -> Stockees] :
        /\ ressource' = r
        /\ r[f] \in Stockable(f, w.corps, ressource[f])
  BY DEF Appliquer
<1>2. ASSUME r[f] = ressource[f] PROVE Observee(f)' = Observee(f)
  BY <1>1, <1>2 DEF Observee, Rendu, ValeurCourante
<1>3. CASE Methode = "PATCH"
  BY <1>1, <1>2, <1>3, ChampsDuCorps DEF Stockable
<1>4. CASE Methode = "PUT"
  <2>1. Strategie[f] # "id_list" BY <1>4, GestionAssumption
  <2>2. /\ Observee(f) = IF f \in Secrets THEN Rien ELSE ressource[f]
        /\ Observee(f)' = IF f \in Secrets THEN Rien ELSE r[f]
    BY <1>1, <2>1, RenduCourant DEF TypeOK, Observee
  <2>3. CASE f \in Secrets BY <2>2, <2>3
  <2>4. CASE f \notin Secrets /\ f \in Rendus(courant)
    <3>1. ValeurCourante(courant, f) = ressource[f] /\ ressource[f] # Rien
      BY <2>1, <2>4, RenduCourant DEF TypeOK, Rendus
    <3>2. f \in DOMAIN w.corps /\ w.corps[f] = ressource[f]
      BY <1>4, <2>4, <3>1, ChampsDuCorps
    <3>3. r[f] \in Pose(f, ressource[f], ressource[f]) /\ ressource[f] \in Valeurs
      BY <1>1, <3>1, <3>2 DEF Stockable, TypeOK, Stockees
    <3> QED BY <2>2, <2>4, <3>3 DEF PoseFidele
  <2>5. CASE f \notin Secrets /\ f \notin Rendus(courant)
    <3>1. ressource[f] = Rien
      BY <2>1, <2>5, RenduCourant DEF TypeOK, Rendus
    <3>2. f \notin DOMAIN w.corps
      BY <1>4, <2>5, ChampsDuCorps
    <3> QED BY <1>1, <1>2, <3>1, <3>2 DEF Stockable
  <2> QED BY <2>3, <2>4, <2>5
<1> QED BY <1>3, <1>4, GestionAssumption

\* NonDemandesPreserves: a write applied to the resource as its run read it leaves alone
\* what its playbook did not ask for, when the API keeps what it is sent back.
THEOREM NonDemandes == ASSUME PoseFidele PROVE Spec => NonDemandesPreserves
<1> DEFINE Preserves ==
      \A w \in vol \ vol' :
        LET p == w.execution
        IN (w.tour = tour[p] /\ applique'[p] # applique[p] /\ lu[p] = Rendu(ressource))
             => \A f \in Champs \ Demande(p) :
                  \/ Observee(f)' = Observee(f)
                  \/ Comparer(Strategie[f], Observee(f), Observee(f)')
<1>1. IInv /\ [Next]_vars => Preserves
  <2> SUFFICES ASSUME IInv, [Next]_vars, NEW w \in vol, w \notin vol',
                      w.tour = tour[w.execution], applique'[w.execution] # applique[w.execution],
                      lu[w.execution] = Rendu(ressource), NEW f \in Champs \ Demande(w.execution)
               PROVE  \/ Observee(f)' = Observee(f)
                      \/ Comparer(Strategie[f], Observee(f), Observee(f)')
    OBVIOUS
  <2>1. w.execution \in Executions BY DEF IInv, TypeOK, Envois
  <2>2. \E v \in vol : Appliquer(v)
    <3>1. ASSUME NEW p \in Executions, Etape(p) PROVE FALSE
      <4>1. applique' = applique
        BY <3>1 DEF Etape, RefuserLeNull, LectureEchouee, Lire, Emettre, EcritureFaite,
                    EcritureRefusee, EcritureInconnue, Relire, RelectureEchouee, historique
      <4> QED BY <4>1
    <3>2. ASSUME NEW p \in Executions, Rejouer(p) PROVE FALSE BY <3>2 DEF Rejouer
    <3>3. ASSUME NEW v \in vol, Perdre(v) PROVE FALSE BY <3>3 DEF Perdre, historique
    <3>4. CASE Repos \/ UNCHANGED vars BY <3>4 DEF Repos, vars
    <3> QED BY <3>1, <3>2, <3>3, <3>4 DEF Next, Api
  <2>3. Appliquer(w) BY <2>2 DEF Appliquer
  <2>4. w.corps = CorpsEcrit(w.execution, Rendu(ressource)) BY DEF IInv, InvEnvois
  <2> QED BY <2>1, <2>3, <2>4, EcritureLocale DEF IInv
<1>2. Spec => [][Preserves]_vars BY <1>1, Inductif, PTL DEF Spec
<1> QED BY <1>2 DEF NonDemandesPreserves

------------------------------------------------------------------------------
(* Two facets of one resource, written by PATCH. *)

\* A PATCH holds nothing but what its run asks for, of whatever turn it is.
InvCorps == \A w \in vol : DOMAIN w.corps \subseteq Demande(w.execution)

LEMMA NextCorps ==
  ASSUME Methode = "PATCH", IInv, InvCorps, [Next]_vars
  PROVE  InvCorps'
<1>0. TypeOK BY DEF IInv
<1>1. params' = params /\ check' = check
  BY DEF Next, Api, Etape, RefuserLeNull, LectureEchouee, Lire, Emettre, EcritureFaite,
         EcritureRefusee, EcritureInconnue, Relire, RelectureEchouee, Rejouer, Appliquer, Perdre,
         Repos, vars
<1>2. \A q \in Executions : Demande(q)' = Demande(q) BY <1>1 DEF Demande
<1>3. ASSUME NEW p \in Executions, Emettre(p) PROVE InvCorps'
  <2> SUFFICES ASSUME NEW w \in vol' PROVE DOMAIN w.corps \subseteq Demande(w.execution)'
    BY DEF InvCorps
  <2>1. CASE w \in vol
    <3>1. w.execution \in Executions BY <1>0, <2>1 DEF TypeOK, Envois
    <3> QED BY <1>2, <2>1, <3>1 DEF InvCorps
  <2>2. CASE w = [execution |-> p, tour |-> tour[p], corps |-> CorpsEcrit(p, lu[p])]
    <3>1. w.execution = p /\ w.corps = CorpsEcrit(p, lu[p]) BY <2>2
    <3>2. DOMAIN w.corps \subseteq Demande(p) BY <3>1, ChampsDuCorps
    <3> QED BY <1>2, <3>1, <3>2
  <2> QED BY <1>3, <2>1, <2>2 DEF Emettre
<1>4. CASE vol' \subseteq vol
  BY <1>0, <1>1, <1>2, <1>4 DEF InvCorps, TypeOK, Envois
<1>5. ASSUME NEW p \in Executions, Etape(p), ~Emettre(p) PROVE vol' \subseteq vol
  BY <1>5 DEF Etape, RefuserLeNull, LectureEchouee, Lire, EcritureFaite, EcritureRefusee,
         EcritureInconnue, Relire, RelectureEchouee
<1>6. ASSUME NEW p \in Executions, Rejouer(p) PROVE vol' \subseteq vol BY <1>6 DEF Rejouer
<1>7. ASSUME Api \/ Repos \/ UNCHANGED vars PROVE vol' \subseteq vol
  BY <1>7 DEF Api, Appliquer, Perdre, Repos, vars
<1> QED BY <1>3, <1>4, <1>5, <1>6, <1>7 DEF Next

LEMMA NextFacette ==
  ASSUME Methode = "PATCH", IInv, InvCorps, DeuxFacettes, [Next]_vars
  PROVE  DeuxFacettes'
<1> SUFFICES ASSUME NEW p \in Executions, Seul(p)', tour'[p] = 0, Reussi(p)', ~check'[p]
             PROVE  Tenue(p, ressource)'
  BY DEF DeuxFacettes, Tenue, Observee
<1>0. TypeOK BY DEF IInv
<1>1. params' = params /\ check' = check
  BY DEF Next, Api, Etape, RefuserLeNull, LectureEchouee, Lire, Emettre, EcritureFaite,
         EcritureRefusee, EcritureInconnue, Relire, RelectureEchouee, Rejouer, Appliquer, Perdre,
         Repos, vars
<1>2. \A q \in Executions : Demande(q)' = Demande(q) BY <1>1 DEF Demande
<1>3. ASSUME ressource' = ressource, Tenue(p, ressource) PROVE Tenue(p, ressource)'
  BY <1>1, <1>3 DEF Tenue, Demande, Rendu
<1>4. ASSUME tour'[p] = tour[p], ressource' = ressource, etape'[p] = etape[p],
             verdict'[p] = verdict[p]
      PROVE  Tenue(p, ressource)'
  <2>1. Seul(p) /\ tour[p] = 0 /\ Reussi(p) /\ ~check[p]
    BY <1>1, <1>2, <1>4 DEF Seul, Reussi, Fini
  <2> QED BY <1>3, <1>4, <2>1 DEF DeuxFacettes, Tenue, Observee
<1>5. ASSUME Lire(p) PROVE Tenue(p, ressource)'
  <2>1. ressource' = ressource /\ ApresLaLecture(p, Rendu(ressource)) # "ecrire"
    BY <1>0, <1>5 DEF Lire, Reussi, Fini, TypeOK
  <2>2. Ecarts(p, Rendu(ressource)) = {} BY <1>1, <2>1 DEF ApresLaLecture
  <2> QED BY <1>3, <2>1, <2>2, SansEcartTenue
<1>6. ASSUME Relire(p) PROVE Tenue(p, ressource)'
  <2>1. ressource' = ressource /\ PostconditionsNonTenues(p, Rendu(ressource)) = {}
    BY <1>0, <1>6 DEF Relire, Sortir, Reussi, Fini, TypeOK
  <2> QED BY <1>3, <2>1, SansEcartTenue
<1>7. ASSUME Etape(p), ~Lire(p), ~Relire(p) PROVE FALSE
  BY <1>0, <1>7 DEF Etape, RefuserLeNull, LectureEchouee, Emettre, EcritureFaite,
         EcritureRefusee, EcritureInconnue, RelectureEchouee, Sortir, Reussi, Fini, TypeOK
<1>8. ASSUME NEW q \in Executions, q # p, Etape(q) PROVE Tenue(p, ressource)'
  <2>1. tour' = tour /\ ressource' = ressource /\ etape'[p] = etape[p] /\ verdict'[p] = verdict[p]
    BY <1>0, <1>8 DEF Etape, RefuserLeNull, LectureEchouee, Lire, Emettre, EcritureFaite,
           EcritureRefusee, EcritureInconnue, Relire, RelectureEchouee, Sortir, TypeOK
  <2> QED BY <1>4, <2>1
<1>9. ASSUME NEW q \in Executions, Rejouer(q) PROVE Tenue(p, ressource)'
  <2>1. q # p
    <3>1. q = p => tour'[p] = tour[p] + 1 /\ tour[p] \in Nat
      BY <1>0, <1>9, GestionAssumption DEF Rejouer, TypeOK
    <3> QED BY <3>1
  <2> QED BY <1>0, <1>4, <1>9, <2>1 DEF Rejouer, TypeOK
<1>10. ASSUME NEW w \in vol, Appliquer(w) PROVE Tenue(p, ressource)'
  <2>1. UNCHANGED <<etape, verdict, tour>> BY <1>10 DEF Appliquer
  <2>2. Seul(p) /\ tour[p] = 0 /\ Reussi(p) /\ ~check[p]
    BY <1>1, <1>2, <2>1 DEF Seul, Reussi, Fini
  <2>3. w.execution \in Executions /\ w.tour \in Nat /\ w.tour <= tour[w.execution]
    BY GestionAssumption DEF IInv, TypeOK, Envois, InvVol
  <2>5. w.execution # p
    <3> SUFFICES ASSUME w.execution = p PROVE FALSE OBVIOUS
    <3>0. w.tour = tour[w.execution] BY <2>2, <2>3
    <3>1. ~applique[p] /\ DeCeTour(w, p) BY <3>0 DEF IInv, InvEnvois, DeCeTour
    <3>2. Cours(p) BY DEF IInv, InvCours
    <3> QED BY <2>2, <3>1, <3>2 DEF Cours, SansEnvoi, Reussi, Fini
  <2>6. DOMAIN w.corps \subseteq Demande(w.execution)
    BY DEF InvCorps
  <2>7. PICK r \in [Champs -> Stockees] :
          ressource' = r /\ \A f \in Champs : r[f] \in Stockable(f, w.corps, ressource[f])
    BY <1>10 DEF Appliquer
  <2>8. \A f \in Demande(p) : f \in Champs /\ f \notin DOMAIN w.corps
    BY <2>2, <2>3, <2>5, <2>6 DEF Seul, Demande
  <2>9. \A f \in Demande(p) : ressource'[f] = ressource[f]
    BY <2>7, <2>8 DEF Stockable
  <2>10. \A f \in Demande(p) :
           ValeurCourante(Rendu(ressource'), f) = ValeurCourante(Rendu(ressource), f)
    BY <2>8, <2>9 DEF Rendu, ValeurCourante
  <2>11. Tenue(p, ressource) BY <2>2 DEF DeuxFacettes, Tenue, Observee
  <2> QED BY <1>1, <1>2, <2>10, <2>11 DEF Tenue
<1>11. ASSUME NEW w \in vol, Perdre(w) PROVE Tenue(p, ressource)'
  BY <1>4, <1>11 DEF Perdre
<1>12. CASE Repos \/ UNCHANGED vars BY <1>4, <1>12 DEF Repos, vars
<1> QED BY <1>5, <1>6, <1>7, <1>8, <1>9, <1>10, <1>11, <1>12 DEF Next, Api

\* DeuxFacettes: among any number of runs that write by PATCH, the first success of one
\* whose fields no other asks for holds for as long as it is not played again, whatever
\* the others write and replay, their late writes included.
THEOREM Facette == ASSUME Methode = "PATCH" PROVE Spec => []DeuxFacettes
<1>1. Init => DeuxFacettes /\ InvCorps BY DEF Init, DeuxFacettes, InvCorps, Reussi, Fini
<1> QED BY <1>1, NextFacette, NextCorps, Inductif, PTL DEF Spec

------------------------------------------------------------------------------
(* What the strategies compare. *)

Places(l, v) == {i \in DOMAIN l : l[i] = v}

LEMMA PlacesFinies ==
  ASSUME NEW S, NEW l \in Seq(S), NEW v
  PROVE  IsFiniteSet(Places(l, v))
<1>1. DOMAIN l = 1..Len(l) /\ Len(l) \in Int /\ IsFiniteSet(1..Len(l))
  BY FS_Interval
<1>2. Places(l, v) \in SUBSET (1..Len(l))
  BY <1>1 DEF Places
<1> QED BY <1>1, <1>2, FS_Subset

\* Two lists that count alike are matched value by value.
LEMMA CompteAlike ==
  ASSUME NEW S, NEW a \in Seq(S), NEW o \in Seq(S), SansOrdre(a) = SansOrdre(o)
  PROVE  Reordre(a, o)
<1>1. ToSet(a) = ToSet(o)
  <2>1. DOMAIN SansOrdre(a) = ToSet(a) /\ DOMAIN SansOrdre(o) = ToSet(o)
    BY DEF SansOrdre
  <2> QED BY <2>1
<1>2. ASSUME NEW v \in ToSet(a)
      PROVE  \E f : f \in Bijection(Places(a, v), Places(o, v))
  <2>1. SansOrdre(a)[v] = Cardinality(Places(a, v)) /\ SansOrdre(o)[v] = Cardinality(Places(o, v))
    BY <1>1 DEF SansOrdre, Places
  <2>2. ExistsBijection(Places(a, v), Places(o, v))
    BY <2>1, PlacesFinies, FS_SameCardinalityBij
  <2> QED BY <2>2 DEF ExistsBijection
<1> DEFINE b == [v \in ToSet(a) |-> CHOOSE f : f \in Bijection(Places(a, v), Places(o, v))]
           s == [i \in DOMAIN a |-> b[a[i]][i]]
<1>3. \A v \in ToSet(a) : b[v] \in Bijection(Places(a, v), Places(o, v))
  BY <1>2
<1> HIDE DEF b
<1>4. \A v \in ToSet(a) :
        /\ b[v] \in [Places(a, v) -> Places(o, v)]
        /\ \A i, j \in Places(a, v) : b[v][i] = b[v][j] => i = j
        /\ \A k \in Places(o, v) : \E i \in Places(a, v) : b[v][i] = k
  <2> SUFFICES ASSUME NEW v \in ToSet(a)
               PROVE  /\ b[v] \in [Places(a, v) -> Places(o, v)]
                      /\ \A i, j \in Places(a, v) : b[v][i] = b[v][j] => i = j
                      /\ \A k \in Places(o, v) : \E i \in Places(a, v) : b[v][i] = k
    OBVIOUS
  <2>1. b[v] \in Bijection(Places(a, v), Places(o, v))
    BY <1>3
  <2> QED BY <2>1, Fun_BijectionProperties
<1>5. \A i \in DOMAIN a : a[i] \in ToSet(a) /\ i \in Places(a, a[i])
  BY DEF ToSet, Places
<1>6. \A i \in DOMAIN a : s[i] \in DOMAIN o /\ o[s[i]] = a[i]
  <2> SUFFICES ASSUME NEW i \in DOMAIN a PROVE s[i] \in DOMAIN o /\ o[s[i]] = a[i]
    OBVIOUS
  <2>1. b[a[i]][i] \in Places(o, a[i])
    BY <1>4, <1>5
  <2> QED BY <2>1 DEF Places
<1>7. \A i, j \in DOMAIN a : s[i] = s[j] => i = j
  <2> SUFFICES ASSUME NEW i \in DOMAIN a, NEW j \in DOMAIN a, s[i] = s[j] PROVE i = j
    OBVIOUS
  <2>1. a[i] = a[j]
    BY <1>6
  <2>2. b[a[i]][i] = b[a[i]][j]
    BY <2>1
  <2> QED BY <1>4, <1>5, <2>1, <2>2
<1>8. \A k \in DOMAIN o : \E i \in DOMAIN a : s[i] = k
  <2> SUFFICES ASSUME NEW k \in DOMAIN o PROVE \E i \in DOMAIN a : s[i] = k
    OBVIOUS
  <2>1. o[k] \in ToSet(a) /\ k \in Places(o, o[k])
    BY <1>1 DEF ToSet, Places
  <2>2. PICK i \in Places(a, o[k]) : b[o[k]][i] = k
    BY <1>4, <2>1
  <2>3. i \in DOMAIN a /\ a[i] = o[k]
    BY DEF Places
  <2> QED BY <2>2, <2>3
<1>9. s \in Bijection(DOMAIN a, DOMAIN o)
  <2>1. s \in [DOMAIN a -> DOMAIN o]
    BY <1>6
  <2> HIDE DEF s
  <2> QED BY <1>7, <1>8, <2>1, Fun_IsBij
<1> QED BY <1>6, <1>9 DEF Reordre

\* A reordering keeps the count of every value.
LEMMA MemeCompte ==
  ASSUME NEW S, NEW a \in Seq(S), NEW o \in Seq(S), Reordre(a, o)
  PROVE  SansOrdre(a) = SansOrdre(o)
<1>1. PICK s \in Bijection(DOMAIN a, DOMAIN o) : \A i \in DOMAIN a : a[i] = o[s[i]]
  BY DEF Reordre
<1>2. /\ s \in [DOMAIN a -> DOMAIN o]
      /\ \A i, j \in DOMAIN a : s[i] = s[j] => i = j
      /\ \A k \in DOMAIN o : \E i \in DOMAIN a : s[i] = k
  BY Fun_BijectionProperties
<1>3. ToSet(a) = ToSet(o)
  BY <1>1, <1>2 DEF ToSet
<1>4. ASSUME NEW v PROVE Cardinality(Places(a, v)) = Cardinality(Places(o, v))
  <2> DEFINE r == [i \in Places(a, v) |-> s[i]]
  <2>1. r \in [Places(a, v) -> Places(o, v)]
    BY <1>1, <1>2 DEF Places
  <2>2. \A i, j \in Places(a, v) : r[i] = r[j] => i = j
    BY <1>2 DEF Places
  <2>3. \A k \in Places(o, v) : \E i \in Places(a, v) : r[i] = k
    <3> SUFFICES ASSUME NEW k \in Places(o, v) PROVE \E i \in Places(a, v) : r[i] = k
      OBVIOUS
    <3>1. k \in DOMAIN o /\ o[k] = v
      BY DEF Places
    <3>2. PICK i \in DOMAIN a : s[i] = k
      BY <1>2, <3>1
    <3>3. i \in Places(a, v)
      BY <1>1, <3>1, <3>2 DEF Places
    <3> QED BY <3>2, <3>3
  <2> HIDE DEF r
  <2>4. ExistsBijection(Places(a, v), Places(o, v))
    BY <2>1, <2>2, <2>3, Fun_IsBij DEF ExistsBijection
  <2> QED BY <2>4, PlacesFinies, FS_Bijection
<1> QED BY <1>3, <1>4 DEF SansOrdre, Places

\* The strategy "set" of the table: two lists are identical exactly when the one is the
\* other in another order, repetitions included, whatever they hold.
THEOREM EnsembleReordre ==
  ASSUME NEW S, NEW a \in Seq(S), NEW o \in Seq(S), Rien \notin Seq(S)
  PROVE  Comparer("set", a, o) <=> Reordre(a, o)
<1>1. OuVide(a) = a /\ OuVide(o) = o
  BY DEF OuVide
<1>2. Comparer("set", a, o) <=> SansOrdre(a) = SansOrdre(o)
  BY <1>1 DEF Comparer
<1> QED BY <1>2, CompteAlike, MemeCompte

\* The strategy "normalized_object": what the API adds to an object is no difference, and
\* what it lacks or changes is one.
THEOREM ObjetDemande ==
  ASSUME NEW A, NEW B, NEW X, NEW Y, NEW a \in [A -> X], NEW o \in [B -> Y], o # Rien
  PROVE  Comparer("normalized_object", a, o) <=> Enrichi(a, o)
<1> DEFINE d == ClesDemandees(a, o)
<1>1. DOMAIN d = A \cap B /\ \A c \in A \cap B : d[c] = o[c]
  BY DEF ClesDemandees
<1>2. d = [c \in A \cap B |-> o[c]]
  BY DEF ClesDemandees
<1>3. Comparer("normalized_object", a, o) <=> a = d
  BY DEF Comparer
<1> HIDE DEF d
<1>4. a = d => Enrichi(a, o)
  BY <1>1 DEF Enrichi
<1>5. ASSUME Enrichi(a, o) PROVE a = d
  <2>1. A \cap B = A /\ \A c \in A : o[c] = a[c]
    BY <1>5 DEF Enrichi
  <2>2. d = [c \in A |-> a[c]]
    BY <1>2, <2>1
  <2> QED BY <2>2
<1> QED BY <1>3, <1>4, <1>5
==============================================================================
