---------------------------- MODULE SuiviProofs -----------------------------
(* The reading of a fleet over time, for any resources, probes and exceptions. *)
EXTENDS Suivi, TLAPS

LEMMA TypeInit == Init => TypeOK
<1> SUFFICES ASSUME Init PROVE TypeOK OBVIOUS
<1>1. RienLu \in Lectures /\ AucunChangement \in Changements /\ gardes \in Dates
  BY SuiviAssumption DEF Init, RienLu, Lectures, AucunChangement, Changements, Dates
<1>2. SansPhoto \in Photos
  BY <1>1 DEF SansPhoto, Photos
<1>3. jour \in 0..MaxJours /\ i \in Nat \ {0} /\ i = 1 /\ pc = "repos"
  BY SuiviAssumption DEF Init
<1>4. parc \in [Ressources -> Etats] /\ aGarde \in BOOLEAN /\ niveau = "aucun"
  BY DEF Init
<1>5. repondu = {} /\ reponduR = {} /\ vu = RienLu /\ vuR = RienLu /\ photo = SansPhoto
        /\ changes = AucunChangement
  BY DEF Init
<1> QED
  BY <1>1, <1>2, <1>3, <1>4, <1>5 DEF TypeOK

LEMMA LireType ==
  ASSUME TypeOK, NEW v \in Lectures, NEW s
  PROVE  Lire(v, s) \in Lectures
  BY DEF TypeOK, Lire, Lectures, Etats

LEMMA PhotoType ==
  ASSUME NEW v \in Lectures, NEW rep, rep \subseteq Membres(SondesReleve)
  PROVE  Photo(v, rep) \in Photos
<1>1. {s[2] : s \in {t \in rep : t[1] \in {"instance", "k8s_cluster"}}} \subseteq Portees
  BY DEF Portees
<1>2. {s[2] : s \in {t \in Membres(SondesReleve) \ rep :
                       t[1] \in {"instance", "lb", "k8s_cluster"}}} \subseteq Portees
  BY DEF Portees
<1> QED BY <1>1, <1>2 DEF Photo, Photos

LEMMA ChangesType ==
  ASSUME TypeOK
  PROVE  AuditChanges \in Changements
<1>1. [r \in Ressources |-> IF r \notin Constats THEN 0 ELSE IF r \in Anciens THEN gardes[r] ELSE jour]
        \in Dates
  BY SuiviAssumption DEF TypeOK, Dates
<1> QED BY <1>1 DEF TypeOK, AuditChanges, Changements, Constats, Anciens

\* A loop ends at its last probe, and never goes past it.
LEMMA SuiteType ==
  ASSUME NEW q \in Seq(STRING \X STRING), i \in 1..Len(q), NEW apres, Suite(q, apres)
  PROVE  \/ pc' = apres /\ i' = 1
         \/ pc' = pc /\ i' \in 1..Len(q) /\ i' # 1
  BY DEF Suite

LEMMA TypePas ==
  ASSUME TypeOK, [Next]_vars
  PROVE  TypeOK'
<1> USE SuiviAssumption
<1>1. CASE Lancer
  BY <1>1 DEF Lancer, TypeOK, lectures, appelant, Jours
<1>2. CASE SonderAudit
  <2>1. vu' \in Lectures
    BY <1>2, LireType DEF SonderAudit, TypeOK
  <2>2. repondu' \subseteq Membres(SondesAudit)
    BY <1>2 DEF SonderAudit, TypeOK, Membres
  <2>3. \/ pc' = "juger" /\ i' = 1
        \/ pc' = "audit" /\ i' \in 1..Len(SondesAudit)
    BY <1>2, SuiteType DEF SonderAudit, TypeOK
  <2> QED BY <1>2, <2>1, <2>2, <2>3 DEF SonderAudit, TypeOK, appelant
<1>3. CASE Juger
  <2>1. changes' \in Changements BY <1>3, ChangesType DEF Juger
  <2>2. i = 1 /\ i' = 1 BY <1>3 DEF Juger, TypeOK
  <2>3. pc' \in {"releve", "resumer"} BY <1>3 DEF Juger
  <2> QED BY <1>3, <2>1, <2>2, <2>3 DEF Juger, TypeOK, lectures, appelant
<1>4. CASE Photographier
  BY <1>4 DEF Photographier, TypeOK, lectures, appelant
<1>5. CASE SonderReleve
  <2>1. vuR' \in Lectures
    BY <1>5, LireType DEF SonderReleve, TypeOK
  <2>2. reponduR' \subseteq Membres(SondesReleve)
    BY <1>5 DEF SonderReleve, TypeOK, Membres
  <2>3. \/ pc' \in {"rendu", "resumer"} /\ i' = 1
        \/ pc' \in {"releve", "photo"} /\ i' \in 1..Len(SondesReleve)
    BY <1>5, SuiteType DEF SonderReleve, TypeOK
  <2> QED BY <1>5, <2>1, <2>2, <2>3 DEF SonderReleve, TypeOK, appelant
<1>6. CASE Resumer
  <2>1. niveau' \in Membres(NIVEAUX) \cup {"aucun"}
    <3> DEFINE N == {"action_required", "changed", "quiet", "baseline"}
    <3>1. \A infra : VerdictBilan(infra) \in N BY DEF VerdictBilan
    <3>2. \A a, b : VerdictDiff(a, b) \in N BY DEF VerdictDiff
    <3>3. \A n \in N : n \in Membres(NIVEAUX)
      <4>1. DOMAIN NIVEAUX = 1..4 BY DEF NIVEAUX
      <4>2. NIVEAUX[1] = "baseline" /\ NIVEAUX[2] = "quiet" /\ NIVEAUX[3] = "changed"
              /\ NIVEAUX[4] = "action_required"
        BY DEF NIVEAUX
      <4> QED BY <4>1, <4>2 DEF Membres
    <3> HIDE DEF N
    <3>4. \A m, n \in N : PireNiveau(m, n) \in Membres(NIVEAUX) BY <3>3 DEF PireNiveau
    <3>5. "action_required" \in N BY DEF N
    <3>6. CASE photo.prise
      <4> DEFINE apres == Photo(vuR, reponduR)
                 m == IF Incomparables(photo, apres) # {} THEN "action_required"
                      ELSE VerdictBilan(Ecarts(photo, apres))
      <4>1. niveau' = PireNiveau(m, VerdictDiff(photo, apres)) BY <1>6, <3>6 DEF Resumer, NiveauRendu
      <4>2. m \in N BY <3>1, <3>5
      <4> HIDE DEF m, apres
      <4> QED BY <4>1, <4>2, <3>2, <3>4
    <3>7. CASE ~photo.prise
      <4>1. niveau' = VerdictBilan({}) BY <1>6, <3>7 DEF Resumer, NiveauRendu
      <4> QED BY <4>1, <3>1, <3>3
    <3> QED BY <3>6, <3>7
  <2> QED BY <1>6, <2>1 DEF Resumer, TypeOK, lectures, appelant
<1>7. CASE Garder
  <2>1. photo' \in Photos
    BY <1>7, PhotoType DEF Garder, TypeOK
  <2>2. gardes' \in Dates /\ aGarde' \in BOOLEAN
    BY <1>7 DEF Garder, TypeOK, Changements
  <2>3. RienLu \in Lectures /\ AucunChangement \in Changements
    BY DEF RienLu, Lectures, AucunChangement, Changements, Dates
  <2> QED BY <1>7, <2>1, <2>2, <2>3 DEF Garder, TypeOK
<1>8. ASSUME NEW r \in Ressources, Evoluer(r) PROVE TypeOK'
  BY <1>8 DEF Evoluer, TypeOK, lectures, appelant, Etats
<1>9. CASE UNCHANGED vars
  BY <1>9 DEF vars, TypeOK, lectures, appelant
<1> QED BY <1>1, <1>2, <1>3, <1>4, <1>5, <1>6, <1>7, <1>8, <1>9 DEF Next, Role

\* Every variable keeps its type, whatever is probed.
THEOREM Type == Spec => []TypeOK
<1>1. TypeOK /\ [Next]_vars => TypeOK' BY TypePas
<1> QED BY TypeInit, <1>1, PTL DEF Spec

------------------------------------------------------------------------------
\* A scope that holds resources of one product only, as a region with its clusters does.
UnProduitParPortee ==
  \A r \in Ressources : \A s \in Membres(SondesAudit) :
    s[2] = Portee[r] /\ s[1] \in {"instance", "k8s_cluster", "lb"} => s[1] = Produit[r]

\* Before the judgement there is nothing to announce.
Inv ==
  /\ TypeOK
  /\ pc \in {"repos", "audit", "juger"} => changes.resolved = {}
  /\ ResoluFonde

LEMMA ResoluPas ==
  ASSUME UnProduitParPortee, Inv, [Next]_vars
  PROVE  Inv'
<1>0. TypeOK' BY TypePas DEF Inv
<1> USE DEF ResoluFonde
<1>1. CASE Juger
  <2>1. ASSUME NEW r \in AuditChanges.resolved PROVE Sonde(r) \in repondu /\ vu[r] # "fautive"
    <3>1. r \in Ressources /\ r \notin Constats /\ Portee[r] \in MesureesAudit
      BY <2>1 DEF AuditChanges, Anciens
    <3>2. PICK s \in repondu : s[1] \in {"instance", "k8s_cluster", "lb"} /\ s[2] = Portee[r]
      BY <3>1 DEF MesureesAudit
    <3>3. s \in Membres(SondesAudit) BY <3>2 DEF Inv, TypeOK
    <3>4. s \in STRING \X STRING BY <3>3, SuiviAssumption DEF Membres
    <3>5. s[1] = Produit[r] BY <3>1, <3>2, <3>3 DEF UnProduitParPortee
    <3>6. s = Sonde(r) BY <3>2, <3>4, <3>5 DEF Sonde
    <3> QED BY <3>1, <3>2, <3>6 DEF Constats
  <2> QED BY <1>0, <1>1, <2>1 DEF Juger, Inv, lectures, Sonde
<1>2. CASE SonderAudit
  <2>1. changes.resolved = {} /\ changes' = changes BY <1>2 DEF SonderAudit, Inv
  <2>2. pc' \in {"audit", "juger"} BY <1>2 DEF SonderAudit, Suite
  <2> QED BY <1>0, <2>1 DEF Inv
<1>3. CASE Garder
  BY <1>0, <1>3 DEF Garder, Inv, AucunChangement
<1>4. CASE SonderReleve
  <2>1. pc' \notin {"repos", "audit", "juger"} BY <1>4 DEF SonderReleve, Suite
  <2> QED BY <1>0, <1>4, <2>1 DEF SonderReleve, Inv, Sonde
<1>5. CASE Lancer \/ Photographier \/ Resumer \/ UNCHANGED vars
  BY <1>0, <1>5 DEF Lancer, Photographier, Resumer, vars, lectures, appelant, Inv, Sonde
<1>6. ASSUME NEW r \in Ressources, Evoluer(r) PROVE Inv'
  BY <1>0, <1>6 DEF Evoluer, lectures, Inv, Sonde
<1> QED BY <1>1, <1>2, <1>3, <1>4, <1>5, <1>6 DEF Next, Role

\* Where a scope carries one product, a finding announced resolved was looked for by the
\* probe of its own product, which answered (audit_changes over fleet_audit).
THEOREM Resolu == UnProduitParPortee => (Spec => []ResoluFonde)
<1> SUFFICES ASSUME UnProduitParPortee PROVE Spec => []ResoluFonde OBVIOUS
<1>1. Init => Inv
  BY TypeInit DEF Init, Inv, ResoluFonde, AucunChangement
<1>2. Inv /\ [Next]_vars => Inv' BY ResoluPas
<1>3. Inv => ResoluFonde BY DEF Inv
<1> QED BY <1>1, <1>2, <1>3, PTL DEF Spec

------------------------------------------------------------------------------
\* The products whose silence makes a scope mute in the report.
ProduitsSuivis == \A r \in Ressources : Produit[r] \in {"instance", "lb", "k8s_cluster"}

\* A resource is read when its own probe answered, and only then.
InvReleve ==
  /\ TypeOK
  /\ \A r \in Ressources : vuR[r] # "non_lue" <=> Sonde(r) \in reponduR
  /\ \A r \in Ressources : photo.vu[r] # "non_lue" => Sonde(r) \in Membres(SondesReleve)

LEMMA RelevePas ==
  ASSUME InvReleve, [Next]_vars
  PROVE  InvReleve'
<1>0. TypeOK' BY TypePas DEF InvReleve
<1>1. CASE SonderReleve
  <2>1. CASE UNCHANGED <<vuR, reponduR>>
    BY <1>0, <1>1, <2>1 DEF SonderReleve, InvReleve, appelant, Sonde
  <2>2. CASE vuR' = Lire(vuR, SondesReleve[i]) /\ reponduR' = reponduR \cup {SondesReleve[i]}
    <3>1. ASSUME NEW r \in Ressources
          PROVE  vuR'[r] # "non_lue" <=> Sonde(r) \in reponduR'
      <4>1. vuR'[r] = IF Sonde(r) = SondesReleve[i] THEN parc[r] ELSE vuR[r]
        BY <2>2 DEF Lire
      <4>2. parc[r] # "non_lue" BY DEF InvReleve, TypeOK, Etats
      <4> QED BY <2>2, <4>1, <4>2 DEF InvReleve
    <3> QED BY <1>0, <1>1, <3>1 DEF SonderReleve, InvReleve, appelant, Sonde
  <2> QED BY <1>1, <2>1, <2>2 DEF SonderReleve
<1>2. CASE Garder
  <2>1. \A r \in Ressources : vuR'[r] = "non_lue" /\ Sonde(r)' \notin reponduR'
    BY <1>2 DEF Garder, RienLu
  <2>2. \A r \in Ressources : photo'.vu[r] # "non_lue" => Sonde(r) \in Membres(SondesReleve)
    <3>1. CASE photo' = photo BY <3>1 DEF InvReleve
    <3>2. CASE photo' = Photo(vuR, reponduR)
      <4>1. photo'.vu = vuR BY <3>2 DEF Photo
      <4> QED BY <4>1 DEF InvReleve, TypeOK
    <3> QED BY <1>2, <3>1, <3>2 DEF Garder
  <2> QED BY <1>0, <2>1, <2>2 DEF InvReleve, Sonde
<1>3. CASE Lancer \/ Juger \/ Photographier \/ Resumer \/ SonderAudit \/ UNCHANGED vars
  BY <1>0, <1>3 DEF Lancer, Juger, Photographier, Resumer, SonderAudit, vars, lectures, appelant,
                    InvReleve, Sonde
<1>4. ASSUME NEW r \in Ressources, Evoluer(r) PROVE InvReleve'
  BY <1>0, <1>4 DEF Evoluer, lectures, appelant, InvReleve, Sonde
<1> QED BY <1>1, <1>2, <1>3, <1>4 DEF Next, Role

\* A resource announced removed was looked for by its own probe, which answered
\* (fleet_diff over the scopes fleet_report calls measured and mute).
THEOREM Disparue == ProduitsSuivis => (Spec => []DisparueFondee)
<1> SUFFICES ASSUME ProduitsSuivis PROVE Spec => []DisparueFondee OBVIOUS
<1>1. Init => InvReleve
  BY TypeInit DEF Init, InvReleve, RienLu, SansPhoto
<1>2. InvReleve /\ [Next]_vars => InvReleve' BY RelevePas
<1>3. InvReleve => DisparueFondee
  <2> DEFINE b == Photo(vuR, reponduR)
  <2> SUFFICES ASSUME InvReleve, NEW r \in Disparues(photo, b)
               PROVE  Sonde(r) \in reponduR /\ vuR[r] = "absente"
    BY DEF DisparueFondee
  <2>1. b.vu = vuR /\ b.muettes = {s[2] : s \in {t \in Membres(SondesReleve) \ reponduR :
                                                   t[1] \in {"instance", "lb", "k8s_cluster"}}}
    BY DEF Photo
  <2> HIDE DEF b
  <2>2. /\ r \in Ressources /\ photo.vu[r] \in {"saine", "fautive"}
        /\ Portee[r] \notin Incomparables(photo, b)
        /\ vuR[r] \notin {"saine", "fautive"}
    BY <2>1 DEF Disparues, Retenues, Presentes
  <2>3. Sonde(r) \in Membres(SondesReleve) BY <2>2 DEF InvReleve
  <2>4. Portee[r] \notin b.muettes BY <2>2 DEF Incomparables
  <2>5. Sonde(r)[1] = Produit[r] /\ Sonde(r)[2] = Portee[r] BY DEF Sonde
  <2>6. Produit[r] \in {"instance", "lb", "k8s_cluster"} BY <2>2 DEF ProduitsSuivis
  <2>7. Sonde(r) \in reponduR
    <3> SUFFICES ASSUME Sonde(r) \notin reponduR PROVE FALSE OBVIOUS
    <3>1. Sonde(r) \in {t \in Membres(SondesReleve) \ reponduR :
                          t[1] \in {"instance", "lb", "k8s_cluster"}}
      BY <2>3, <2>5, <2>6
    <3>2. Sonde(r)[2] \in b.muettes BY <2>1, <3>1
    <3> QED BY <2>4, <2>5, <3>2
  <2>8. vuR[r] \in {"absente", "saine", "fautive"}
    BY <2>2, <2>7 DEF InvReleve, TypeOK, Lectures, Etats
  <2> QED BY <2>2, <2>7, <2>8
<1> QED BY <1>1, <1>2, <1>3, PTL DEF Spec

------------------------------------------------------------------------------
(* The level, and what the history of findings loses. *)

\* Once the findings are judged, what became of them and the level are those of what
\* was read, until the caller keeps them; a finding was read by its own probe.
InvAudit ==
  /\ TypeOK
  /\ \A r \in Ressources : vu[r] # "non_lue" <=> Sonde(r) \in repondu
  /\ \A r \in Ressources : gardes[r] # 0 => Sonde(r) \in Membres(SondesAudit)
  /\ pc \in {"releve", "resumer"} \/ niveau # "aucun" => changes = AuditChanges
  /\ niveau # "aucun" => pc = "rendu" /\ niveau = NiveauRendu

\* Neither moves as long as nothing is read and nothing is kept.
LEMMA Fige ==
  /\ UNCHANGED <<jour, vu, repondu, gardes, aGarde>> => AuditChanges' = AuditChanges
  /\ UNCHANGED <<jour, vu, repondu, vuR, reponduR, photo, changes>> => NiveauRendu' = NiveauRendu
<1>1. UNCHANGED <<jour, vu, repondu, gardes, aGarde>> => AuditChanges' = AuditChanges
  BY DEF AuditChanges, Constats, Anciens, MesureesAudit
<1>2. ASSUME UNCHANGED <<jour, vu, repondu, vuR, reponduR, photo, changes>>
      PROVE  NiveauRendu' = NiveauRendu
  <2>1. MuettesAudit' = MuettesAudit /\ Expirees' = Expirees
    BY <1>2 DEF MuettesAudit, Expirees, Presentes
  <2>2. \A r \in Ressources : Ouvert(r)' = Ouvert(r)
    BY <1>2 DEF Ouvert
  <2> QED BY <1>2, <2>1 DEF NiveauRendu, VerdictBilan, Ouvert, Photo
<1> QED BY <1>1, <1>2

LEMMA AuditDepart == Init => InvAudit
  BY TypeInit DEF Init, InvAudit, RienLu

LEMMA AuditPas ==
  ASSUME InvAudit, [Next]_vars
  PROVE  InvAudit'
<1>0. TypeOK' BY TypePas DEF InvAudit
<1>1. CASE SonderAudit
  <2>1. niveau = "aucun" /\ niveau' = "aucun" /\ pc' \in {"audit", "juger"} /\ gardes' = gardes
    BY <1>1 DEF SonderAudit, Suite, InvAudit, appelant
  <2>2. ASSUME NEW r \in Ressources
        PROVE  vu'[r] # "non_lue" <=> Sonde(r) \in repondu'
    <3>1. CASE UNCHANGED <<vu, repondu>> BY <3>1 DEF InvAudit
    <3>2. CASE vu' = Lire(vu, SondesAudit[i]) /\ repondu' = repondu \cup {SondesAudit[i]}
      <4>1. vu'[r] = IF Sonde(r) = SondesAudit[i] THEN parc[r] ELSE vu[r]
        BY <3>2 DEF Lire
      <4>2. parc[r] # "non_lue" BY DEF InvAudit, TypeOK, Etats
      <4> QED BY <3>2, <4>1, <4>2 DEF InvAudit
    <3> QED BY <1>1, <3>1, <3>2 DEF SonderAudit
  <2> QED BY <1>0, <2>1, <2>2 DEF InvAudit, Sonde
<1>2. CASE Juger
  <2>1. niveau = "aucun" /\ niveau' = "aucun" /\ changes' = AuditChanges
        /\ UNCHANGED <<jour, vu, repondu, gardes, aGarde>>
    BY <1>2 DEF Juger, InvAudit, lectures, appelant
  <2> QED BY <1>0, <2>1, Fige DEF InvAudit, Sonde
<1>3. CASE SonderReleve
  <2>1. niveau = "aucun" /\ niveau' = "aucun" /\ UNCHANGED <<jour, vu, repondu, gardes, aGarde, changes>>
    BY <1>3 DEF SonderReleve, InvAudit, appelant
  <2>2. pc' \in {"releve", "resumer"} => pc = "releve"
    BY <1>3 DEF SonderReleve, Suite
  <2> QED BY <1>0, <2>1, <2>2, Fige DEF InvAudit, Sonde
<1>4. CASE Resumer
  <2>1. UNCHANGED <<jour, vu, repondu, vuR, reponduR, gardes, aGarde, photo, changes>>
        /\ pc = "resumer" /\ pc' = "rendu" /\ niveau' = NiveauRendu
    BY <1>4 DEF Resumer, lectures, appelant
  <2> QED BY <1>0, <2>1, Fige DEF InvAudit, Sonde
<1>5. CASE Garder
  <2>1. /\ niveau' = "aucun" /\ pc' = "repos"
        /\ \A r \in Ressources : vu'[r] = "non_lue" /\ Sonde(r) \notin repondu'
    BY <1>5 DEF Garder, RienLu
  <2>2. ASSUME NEW r \in Ressources, gardes'[r] # 0 PROVE Sonde(r) \in Membres(SondesAudit)
    <3>1. CASE gardes' = gardes BY <2>2, <3>1 DEF InvAudit
    <3>2. CASE niveau # "aucun" /\ gardes' = changes.current
      <4>1. AuditChanges.current[r] # 0 BY <2>2, <3>2 DEF InvAudit
      <4>2. vu[r] = "fautive" BY <4>1 DEF AuditChanges, Constats
      <4> QED BY <4>2 DEF InvAudit, TypeOK
    <3> QED BY <1>5, <3>1, <3>2 DEF Garder
  <2> QED BY <1>0, <2>1, <2>2 DEF InvAudit, Sonde
<1>6. CASE Lancer \/ Photographier
  <2>1. niveau = "aucun" /\ niveau' = "aucun" /\ pc' \in {"audit", "photo"}
        /\ UNCHANGED <<vu, repondu, gardes>>
    BY <1>6 DEF Lancer, Photographier, InvAudit, lectures, appelant
  <2> QED BY <1>0, <2>1 DEF InvAudit, Sonde
<1>7. ASSUME NEW r \in Ressources, Evoluer(r) PROVE InvAudit'
  <2>1. UNCHANGED <<jour, pc, vu, repondu, vuR, reponduR, gardes, aGarde, photo, changes, niveau>>
    BY <1>7 DEF Evoluer, lectures, appelant
  <2> QED BY <1>0, <2>1, Fige DEF InvAudit, Sonde
<1>8. CASE UNCHANGED vars
  <2>1. UNCHANGED <<jour, pc, vu, repondu, vuR, reponduR, gardes, aGarde, photo, changes, niveau>>
    BY <1>8 DEF vars, lectures, appelant
  <2> QED BY <1>0, <2>1, Fige DEF InvAudit, Sonde
<1> QED BY <1>1, <1>2, <1>3, <1>4, <1>5, <1>6, <1>7, <1>8 DEF Next, Role

LEMMA Audit == Spec => []InvAudit
<1>1. InvAudit /\ [Next]_vars => InvAudit' BY AuditPas
<1> QED BY AuditDepart, <1>1, PTL DEF Spec

\* The place of each level.
LEMMA Rangs ==
  /\ Rang("baseline") = 1 /\ Rang("quiet") = 2 /\ Rang("changed") = 3
  /\ Rang("action_required") = 4
<1>1. DOMAIN NIVEAUX = 1..4 BY DEF NIVEAUX
<1>2. /\ NIVEAUX[1] = "baseline" /\ NIVEAUX[2] = "quiet" /\ NIVEAUX[3] = "changed"
      /\ NIVEAUX[4] = "action_required"
  BY DEF NIVEAUX
<1> HIDE DEF NIVEAUX
<1>3. \A k \in DOMAIN NIVEAUX : k = 1 \/ k = 2 \/ k = 3 \/ k = 4 BY <1>1
<1>4. Rang("baseline") = 1 BY <1>1, <1>2, <1>3 DEF Rang
<1>5. Rang("quiet") = 2 BY <1>1, <1>2, <1>3 DEF Rang
<1>6. Rang("changed") = 3 BY <1>1, <1>2, <1>3 DEF Rang
<1>7. Rang("action_required") = 4 BY <1>1, <1>2, <1>3 DEF Rang
<1> QED BY <1>4, <1>5, <1>6, <1>7

\* The worse of two levels is below none of them.
LEMMA Pire ==
  ASSUME NEW m \in {"baseline", "quiet", "changed", "action_required"},
         NEW n \in {"baseline", "quiet", "changed", "action_required"}
  PROVE  /\ PireNiveau(m, n) # "action_required" => m # "action_required" /\ n # "action_required"
         /\ PireNiveau(m, n) = "quiet" => m \in {"baseline", "quiet"} /\ n \in {"baseline", "quiet"}
BY Rangs DEF PireNiveau

\* A level below action_required, taken apart: nothing the audit or the comparison of
\* two snapshots says is worse than it.
LEMMA Sous ==
  ASSUME niveau \in {"quiet", "changed", "baseline"}, niveau = NiveauRendu
  PROVE  /\ MuettesAudit = {} /\ changes.unmeasured = {} /\ Expirees = {}
         /\ \A r \in changes.new : Severite[r] = "fail" => ~Ouvert(r)
         /\ niveau = "quiet" =>
              /\ changes.baseline \/ (changes.new = {} /\ changes.resolved = {})
              /\ photo.prise => VerdictDiff(photo, Photo(vuR, reponduR)) = "quiet"
<1> DEFINE apres == Photo(vuR, reponduR)
           infra == IF photo.prise THEN Ecarts(photo, apres) ELSE {}
           b == VerdictBilan(infra)
           d == VerdictDiff(photo, apres)
           m == IF Incomparables(photo, apres) # {} THEN "action_required" ELSE b
           N == {"baseline", "quiet", "changed", "action_required"}
<1>1. b \in N /\ d \in N /\ d # "baseline" BY DEF VerdictBilan, VerdictDiff
<1>2. niveau = IF photo.prise THEN PireNiveau(m, d) ELSE b
  BY DEF NiveauRendu
<1>3. /\ b # "action_required"
      /\ niveau = "quiet" => b \in {"baseline", "quiet"} /\ (photo.prise => d = "quiet")
  <2>1. CASE photo.prise
    <3>1. m \in N BY <1>1
    <3> HIDE DEF b, d
    <3>2. /\ PireNiveau(m, d) # "action_required" => m # "action_required"
          /\ PireNiveau(m, d) = "quiet" => m \in {"baseline", "quiet"} /\ d \in {"baseline", "quiet"}
      <4> HIDE DEF m
      <4> QED BY <1>1, <3>1, Pire
    <3>3. niveau = PireNiveau(m, d) BY <1>2, <2>1
    <3>4. niveau # "action_required" OBVIOUS
    <3>5. m # "action_required" /\ (niveau = "quiet" => m \in {"baseline", "quiet"} /\ d \in {"baseline", "quiet"})
      <4> HIDE DEF m
      <4> QED BY <3>2, <3>3, <3>4
    <3>6. m = b BY <3>5
    <3> QED BY <1>1, <3>5, <3>6
  <2>2. CASE ~photo.prise
    <3> HIDE DEF b, d
    <3>1. niveau = b BY <1>2, <2>2
    <3> QED BY <2>2, <3>1
  <2> QED BY <2>1, <2>2
<1>4. /\ MuettesAudit = {} /\ changes.unmeasured = {} /\ Expirees = {}
      /\ ~\E r \in changes.new : Severite[r] = "fail" /\ Ouvert(r)
      /\ b \in {"baseline", "quiet"} => changes.baseline \/ changes.new \cup changes.resolved \cup infra = {}
  <2> HIDE DEF infra
  <2> QED BY <1>3 DEF VerdictBilan
<1> HIDE DEF b, infra, d
<1>5. niveau = "quiet" => changes.baseline \/ changes.new \cup changes.resolved \cup infra = {}
  BY <1>3, <1>4
<1>6. niveau = "quiet" /\ photo.prise => d = "quiet" BY <1>3
<1> QED BY <1>4, <1>5, <1>6 DEF d

\* Below action_required, every probe of the audit answered.
LEMMA TousRepondu ==
  ASSUME TypeOK, MuettesAudit = {}
  PROVE  repondu = Membres(SondesAudit)
<1>1. ASSUME NEW s \in Membres(SondesAudit), s \notin repondu PROVE FALSE
  <2>1. s[2] \in MuettesAudit BY <1>1 DEF MuettesAudit
  <2> QED BY <2>1
<1> QED BY <1>1 DEF TypeOK

\* JamaisEnSilence: no finding leaves the history but read repaired or gone, or under a
\* level that says to act, whatever probes fail and whatever the caller keeps.
THEOREM JamaisPerdu == Spec => JamaisEnSilence
<1> DEFINE Dit ==
      \A r \in Ressources : gardes[r] # 0 /\ gardes'[r] = 0 =>
        (r \in changes.resolved /\ vu[r] \in {"saine", "absente"}) \/ niveau = "action_required"
<1>1. ASSUME InvAudit, [Next]_vars PROVE Dit
  <2> SUFFICES ASSUME NEW r \in Ressources, gardes[r] # 0, gardes'[r] = 0, niveau # "action_required"
               PROVE  r \in changes.resolved /\ vu[r] \in {"saine", "absente"}
    OBVIOUS
  <2>1. niveau # "aucun" /\ gardes' = changes.current
    <3>1. gardes' # gardes OBVIOUS
    <3>2. Garder
      BY <1>1, <3>1 DEF Next, Role, Lancer, SonderAudit, Juger, Photographier, SonderReleve, Resumer,
                        Evoluer, vars, appelant
    <3> QED BY <3>1, <3>2 DEF Garder
  <2>2. changes = AuditChanges /\ niveau = NiveauRendu /\ niveau \in {"quiet", "changed", "baseline"}
    <3>1. niveau \in Membres(NIVEAUX) BY <1>1, <2>1 DEF InvAudit, TypeOK
    <3>2. \A n \in Membres(NIVEAUX) : n \in {"baseline", "quiet", "changed", "action_required"}
      BY DEF Membres, NIVEAUX
    <3> QED BY <1>1, <2>1, <3>1, <3>2 DEF InvAudit
  <2>3. MuettesAudit = {} /\ changes.unmeasured = {} BY <2>2, Sous
  <2>4. r \in Anciens /\ r \notin Constats
    BY <2>1, <2>2 DEF AuditChanges, Anciens
  <2>5. r \in changes.resolved
    BY <2>2, <2>3, <2>4 DEF AuditChanges
  <2>6. Sonde(r) \in repondu BY <1>1, <2>3, TousRepondu DEF InvAudit
  <2>7. vu[r] \in {"saine", "absente"}
    BY <1>1, <2>4, <2>6 DEF InvAudit, TypeOK, Lectures, Etats, Constats
  <2> QED BY <2>5, <2>7
<1>2. Spec => [][Dit]_vars
  <2>1. InvAudit /\ [Next]_vars => Dit BY <1>1
  <2> QED BY <2>1, Audit, PTL DEF Spec
<1> QED BY <1>2 DEF JamaisEnSilence

------------------------------------------------------------------------------
(* What a quiet run says of the snapshot. *)

\* Every scope the report reads is one that its Instances or its clusters measure.
PorteesMesurees ==
  \A s \in Membres(SondesReleve) :
    \E t \in Membres(SondesReleve) : t[2] = s[2] /\ t[1] \in {"instance", "k8s_cluster"}

\* A snapshot says which of its scopes did not answer.
InvPhoto ==
  photo.prise => \A r \in Ressources :
    Sonde(r) \in Membres(SondesReleve) /\ photo.vu[r] = "non_lue" => Portee[r] \in photo.muettes

LEMMA PhotoPas ==
  ASSUME ProduitsSuivis, InvReleve, InvPhoto, [Next]_vars
  PROVE  InvPhoto'
<1>1. CASE photo' = photo BY <1>1 DEF InvPhoto, Sonde
<1>2. CASE photo' = Photo(vuR, reponduR)
  <2>1. ASSUME NEW r \in Ressources, Sonde(r) \in Membres(SondesReleve), photo'.vu[r] = "non_lue"
        PROVE  Portee[r] \in photo'.muettes
    <3>1. Sonde(r) \notin reponduR BY <1>2, <2>1 DEF Photo, InvReleve
    <3>2. Sonde(r)[1] \in {"instance", "lb", "k8s_cluster"} /\ Sonde(r)[2] = Portee[r]
      BY DEF Sonde, ProduitsSuivis
    <3>3. Sonde(r) \in {t \in Membres(SondesReleve) \ reponduR :
                           t[1] \in {"instance", "lb", "k8s_cluster"}}
      BY <2>1, <3>1, <3>2
    <3>4. Sonde(r)[2] \in {s[2] : s \in {t \in Membres(SondesReleve) \ reponduR :
                                          t[1] \in {"instance", "lb", "k8s_cluster"}}}
      BY <3>3
    <3> QED BY <1>2, <3>2, <3>4 DEF Photo
  <2> QED BY <2>1 DEF InvPhoto, Sonde
<1> QED
  BY <1>1, <1>2 DEF Next, Role, Lancer, SonderAudit, Juger, Photographier, SonderReleve, Resumer, Garder,
                    Evoluer, vars, appelant

\* Two snapshots the comparison finds quiet read the same of every resource.
LEMMA MemeReleve ==
  ASSUME ProduitsSuivis, PorteesMesurees, InvReleve, InvPhoto, photo.prise,
         VerdictDiff(photo, Photo(vuR, reponduR)) = "quiet"
  PROVE  vuR = photo.vu
<1> DEFINE b == Photo(vuR, reponduR)
<1>1. /\ b.vu = vuR
      /\ b.mesurees = {s[2] : s \in {t \in reponduR : t[1] \in {"instance", "k8s_cluster"}}}
      /\ b.muettes = {s[2] : s \in {t \in Membres(SondesReleve) \ reponduR :
                                     t[1] \in {"instance", "lb", "k8s_cluster"}}}
  BY DEF Photo
<1>2. Incomparables(photo, b) = {} /\ Ecarts(photo, b) = {}
  BY DEF VerdictDiff
<1> HIDE DEF b
<1>3. photo.muettes = {} /\ b.muettes = {} /\ photo.mesurees = b.mesurees
  BY <1>2 DEF Incomparables
<1>4. ASSUME NEW t \in Membres(SondesReleve), t[1] \in {"instance", "lb", "k8s_cluster"}
      PROVE  t \in reponduR
  BY <1>1, <1>3, <1>4
<1>5. ASSUME NEW r \in Ressources PROVE vuR[r] = photo.vu[r]
  <2>1. CASE Sonde(r) \notin Membres(SondesReleve)
    BY <2>1 DEF InvReleve, TypeOK
  <2>2. CASE Sonde(r) \in Membres(SondesReleve)
    <3>1. Sonde(r)[1] = Produit[r] /\ Sonde(r)[2] = Portee[r] BY DEF Sonde
    <3>2. Sonde(r) \in reponduR BY <1>4, <2>2, <3>1 DEF ProduitsSuivis
    <3>3. vuR[r] \in Etats /\ photo.vu[r] \in Etats
      <4>1. vuR[r] # "non_lue" BY <3>2 DEF InvReleve
      <4>2. photo.vu[r] # "non_lue" BY <1>3, <2>2 DEF InvPhoto
      <4>3. vuR \in Lectures /\ photo.vu \in Lectures BY DEF InvReleve, TypeOK, Photos
      <4> QED BY <4>1, <4>2, <4>3 DEF Lectures
    <3>4. Portee[r] \in b.mesurees
      <4>1. PICK t \in Membres(SondesReleve) : t[2] = Portee[r] /\ t[1] \in {"instance", "k8s_cluster"}
        BY <2>2, <3>1 DEF PorteesMesurees
      <4>2. t \in reponduR BY <1>4, <4>1
      <4> QED BY <1>1, <4>1, <4>2
    <3>5. /\ r \in Retenues(photo, photo, b) <=> photo.vu[r] \in {"saine", "fautive"}
          /\ r \in Retenues(b, photo, b) <=> vuR[r] \in {"saine", "fautive"}
      BY <1>1, <1>2, <1>3, <3>4 DEF Retenues, Presentes
    <3>6. /\ r \in Retenues(photo, photo, b) <=> r \in Retenues(b, photo, b)
          /\ r \in Retenues(photo, photo, b) => vuR[r] = photo.vu[r]
      BY <1>1, <1>2 DEF Ecarts, Apparues, Disparues, Changees
    <3> QED BY <3>3, <3>5, <3>6 DEF Etats
  <2> QED BY <2>1, <2>2
<1>6. vuR \in Lectures /\ photo.vu \in Lectures BY DEF InvReleve, TypeOK, Photos
<1> QED BY <1>5, <1>6 DEF Lectures

\* NiveauFonde: a level below action_required was earned; a quiet run found the findings
\* that were kept, and its snapshot is the one that was kept, in every scope that the
\* report measures.
THEOREM Niveau ==
  ASSUME ProduitsSuivis, PorteesMesurees
  PROVE  Spec => []NiveauFonde
<1>1. InvReleve /\ InvPhoto /\ InvAudit => NiveauFonde
  <2> SUFFICES ASSUME InvReleve, InvPhoto, InvAudit, niveau \in {"quiet", "changed", "baseline"}
               PROVE  /\ repondu = Membres(SondesAudit)
                      /\ changes.baseline \/ \A r \in Constats \ Anciens : Severite[r] = "fail" => ~Ouvert(r)
                      /\ \A r \in Presentes(vu) : Echeance[r] = 0 \/ Echeance[r] >= jour
                      /\ niveau = "quiet" =>
                           /\ changes.baseline \/ Constats = Anciens
                           /\ photo.prise => vuR = photo.vu
    BY DEF NiveauFonde
  <2>1. changes = AuditChanges /\ niveau = NiveauRendu BY DEF InvAudit
  <2>2. /\ MuettesAudit = {} /\ changes.unmeasured = {} /\ Expirees = {}
        /\ \A r \in changes.new : Severite[r] = "fail" => ~Ouvert(r)
        /\ niveau = "quiet" =>
             /\ changes.baseline \/ (changes.new = {} /\ changes.resolved = {})
             /\ photo.prise => VerdictDiff(photo, Photo(vuR, reponduR)) = "quiet"
    BY <2>1, Sous
  <2>3. repondu = Membres(SondesAudit) BY <2>2, TousRepondu DEF InvAudit
  <2>4. ~changes.baseline => changes.new = Constats \ Anciens
    BY <2>1 DEF AuditChanges
  <2>5. \A r \in Presentes(vu) : Echeance[r] = 0 \/ Echeance[r] >= jour
    <3> SUFFICES ASSUME NEW r \in Presentes(vu), Echeance[r] # 0, ~(Echeance[r] >= jour) PROVE FALSE
      OBVIOUS
    <3>1. Echeance[r] \in Nat /\ jour \in Int
      BY SuiviAssumption DEF Presentes, InvAudit, TypeOK
    <3>2. r \in Expirees BY <3>1 DEF Expirees
    <3> QED BY <2>2, <3>2
  <2>6. niveau = "quiet" => changes.baseline \/ Constats = Anciens
    <3> SUFFICES ASSUME niveau = "quiet", ~changes.baseline PROVE Constats = Anciens OBVIOUS
    <3>1. Constats \ Anciens = {} BY <2>2, <2>4
    <3>2. Anciens \ Constats = changes.resolved \cup changes.unmeasured BY <2>1 DEF AuditChanges
    <3> QED BY <2>2, <3>1, <3>2
  <2>7. niveau = "quiet" /\ photo.prise => vuR = photo.vu BY <2>2, MemeReleve
  <2> QED BY <2>2, <2>3, <2>4, <2>5, <2>6, <2>7
<1>2. Init => InvReleve /\ InvPhoto
  BY TypeInit DEF Init, InvReleve, InvPhoto, RienLu, SansPhoto
<1>3. InvReleve /\ InvPhoto /\ [Next]_vars => InvReleve' /\ InvPhoto' BY RelevePas, PhotoPas
<1> QED BY <1>1, <1>2, <1>3, Audit, PTL DEF Spec
==============================================================================
