-------------------------- MODULE PlateformeProofs --------------------------
(* The lock of the platform, for any number of runs, killed and started again as
   often as one likes; what is said of the lock is said of runs that did not meet
   inside poser (croise), which the formulas name. *)
EXTENDS Plateforme, TLAPS

LEMMA InitInductif == Init => IInv
  BY PlateformeAssumption DEF Init, IInv, Exclusif, TypeOK, Tient, Choses, Etapes

LEMMA PasInductif ==
  ASSUME IInv, [Next]_vars
  PROVE  IInv'
<1> USE PlateformeAssumption DEF IInv, Exclusif, TypeOK, Tient, Choses, Etapes, Aller, histoire
<1>1. ASSUME NEW r \in Runs, Capturer(r) PROVE IInv'
  <2>1. /\ pc[r] = "debut" /\ UNCHANGED <<compte, verrou, code, detruit>>
        /\ \/ pc' = [pc EXCEPT ![r] = "capture"] \/ pc' = [pc EXCEPT ![r] = "leve"]
        /\ croise' = (croise /\ ~(AuRepos /\ verrou = "absent" /\ "stack" \notin compte))
    BY <1>1 DEF Capturer
  <2>2. \/ reference' = compte /\ auteur' = r /\ avant' = [avant EXCEPT ![r] = compte]
        \/ UNCHANGED <<reference, auteur, avant>>
    BY <1>1 DEF Capturer
  <2>3. \A q \in Runs : pc'[q] \in {"lu", "pose", "deploye", "finally", "derive", "detruite",
                                  "nettoyee", "verifiee"} => pc[q] = pc'[q]
    BY <2>1
  <2>4. TypeOK' BY <2>1, <2>2
  <2>5. \A q \in Runs : auteur' = q => reference' = avant'[q] BY <2>2
  <2>6. ASSUME ~croise' PROVE Exclusif'
    <3>1. CASE ~croise BY <2>1, <2>2, <2>3, <3>1
    <3>2. CASE croise
      <4>1. AuRepos /\ verrou = "absent" /\ "stack" \notin compte BY <2>1, <2>6, <3>2
      <4>2. \A q \in Runs : pc'[q] \notin {"lu", "pose", "deploye", "finally", "derive", "detruite",
                                         "nettoyee", "verifiee"}
        BY <2>3, <4>1 DEF AuRepos, Arretes
      <4> QED BY <2>1, <4>1, <4>2
    <3> QED BY <3>1, <3>2
  <2>7. \A q \in Runs : pc'[q] \in {"detruite", "nettoyee", "verifiee"} /\ code'[q] = 0 => detruit'[q]
    BY <2>1, <2>3
  <2> QED BY <2>4, <2>5, <2>6, <2>7
<1>2. ASSUME NEW r \in Runs, LireVerrou(r) PROVE IInv'
  <2>1. /\ pc[r] = "capture" /\ UNCHANGED <<compte, reference, verrou, code, detruit, auteur, avant>>
        /\ \/ /\ verrou = "absent" /\ pc' = [pc EXCEPT ![r] = "lu"]
              /\ croise' = (croise \/ \E q \in Runs : pc[q] = "lu")
           \/ pc' = [pc EXCEPT ![r] = "leve"] /\ croise' = croise
    BY <1>2 DEF LireVerrou, Libre
  <2>2. \A q \in Runs : pc'[q] \in {"pose", "deploye", "finally", "derive", "detruite",
                                  "nettoyee", "verifiee"} => pc[q] = pc'[q]
    BY <2>1
  <2>3. TypeOK' BY <2>1
  <2>4. ASSUME ~croise' PROVE Exclusif'
    <3>0. /\ ~croise
          /\ \/ verrou = "absent" /\ pc' = [pc EXCEPT ![r] = "lu"] /\ \A q \in Runs : pc[q] # "lu"
             \/ pc' = [pc EXCEPT ![r] = "leve"]
      BY <2>1, <2>4, Zenon
    <3>1. ~croise BY <3>0
    <3>2. \A q \in Runs : pc'[q] = "lu" => verrou = "absent" /\ \A p \in Runs : pc'[p] = "lu" => p = q
      BY <3>0
    <3>3. \A q \in Runs : Tient(q)' => Tient(q) BY <2>2
    <3>4. Exclusif BY <3>1
    <3> QED BY <2>1, <2>2, <3>2, <3>3, <3>4
  <2> QED BY <2>1, <2>2, <2>3, <2>4
<1>3. ASSUME NEW r \in Runs, EcrireVerrou(r) PROVE IInv'
  <2>1. /\ pc[r] = "lu" /\ pc' = [pc EXCEPT ![r] = "pose"] /\ verrou' = r
        /\ UNCHANGED <<compte, reference, code, detruit, croise, auteur, avant>>
    BY <1>3 DEF EcrireVerrou
  <2>2. TypeOK' BY <2>1
  <2>3. ASSUME ~croise PROVE Exclusif'
    <3>1. verrou = "absent" /\ \A q \in Runs : pc[q] = "lu" => q = r BY <2>1, <2>3
    <3>2. \A q \in Runs : ~ Tient(q) BY <2>3, <3>1
    <3>3. \A q \in Runs : q # r => pc'[q] = pc[q] BY <2>1
    <3>4. \A q \in Runs : pc'[q] \notin {"lu", "detruite", "nettoyee", "verifiee"}
      BY <2>1, <3>1, <3>2, <3>3
    <3>5. \A q \in Runs : Tient(q)' => q = r BY <3>2, <3>3
    <3> QED BY <2>1, <3>4, <3>5
  <2>4. \A q \in Runs : pc'[q] \in {"detruite", "nettoyee", "verifiee"} /\ code'[q] = 0 => detruit'[q]
    BY <2>1
  <2>5. \A q \in Runs : auteur' = q => reference' = avant'[q] BY <2>1
  <2>6. ~croise' => Exclusif'
    <3> HIDE DEF Exclusif
    <3> QED BY <2>1, <2>3
  <2> HIDE DEF Exclusif, TypeOK
  <2> QED BY <2>2, <2>4, <2>5, <2>6
<1>4. ASSUME NEW r \in Runs, Deployer(r) PROVE IInv'
  <2>1. /\ pc[r] = "pose" /\ UNCHANGED <<reference, verrou, detruit, croise, auteur, avant>>
        /\ compte' \subseteq Choses
        /\ \/ pc' = [pc EXCEPT ![r] = "deploye"] /\ code' = code
           \/ pc' = [pc EXCEPT ![r] = "finally"] /\ code' = [code EXCEPT ![r] = 1]
    BY <1>4 DEF Deployer
  <2>2. TypeOK' BY <2>1
  <2>3. \A q \in Runs : q # r => pc'[q] = pc[q] /\ code'[q] = code[q] BY <2>1
  <2>4. pc'[r] \in {"deploye", "finally"} BY <2>1
  <2>5. ASSUME ~croise PROVE Exclusif'
    <3>1. verrou = r /\ r # "absent" BY <2>1, <2>5
    <3>2. \A q \in Runs : q # r => ~ Tient(q) /\ pc[q] # "lu" BY <2>5, <3>1
    <3> QED BY <2>1, <2>3, <2>4, <3>1, <3>2
  <2>6. \A q \in Runs : pc'[q] \in {"detruite", "nettoyee", "verifiee"} /\ code'[q] = 0 => detruit'[q]
    BY <2>1, <2>3, <2>4
  <2>7. ~croise' => Exclusif'
    <3> HIDE DEF Exclusif
    <3> QED BY <2>1, <2>5
  <2>8. \A q \in Runs : auteur' = q => reference' = avant'[q] BY <2>1
  <2> HIDE DEF Exclusif, TypeOK
  <2> QED BY <2>2, <2>6, <2>7, <2>8
<1>5. ASSUME NEW r \in Runs, Jouer(r) PROVE IInv'
  BY <1>5 DEF Jouer
<1>6. ASSUME NEW r \in Runs, Deriver(r) PROVE IInv'
  BY <1>6 DEF Deriver
<1>7. ASSUME NEW r \in Runs, Detruire(r) PROVE IInv'
  <2>1. PICK echec \in BOOLEAN :
          /\ compte' = IF echec THEN compte ELSE compte \ {"stack"}
          /\ code' = [code EXCEPT ![r] = Sortie(echec, code[r])]
          /\ detruit' = [detruit EXCEPT ![r] = ~echec]
    BY <1>7 DEF Detruire
  <2>2. pc[r] = "derive" /\ pc' = [pc EXCEPT ![r] = "detruite"] /\ UNCHANGED <<reference, verrou, histoire>>
    BY <1>7 DEF Detruire
  <2>3. ~croise => \A q \in Runs : pc[q] \in {"detruite", "nettoyee", "verifiee", "lu"} => FALSE
    BY <2>2
  <2>4. CASE echec
    <3>1. code' = [code EXCEPT ![r] = 1] /\ compte' = compte /\ detruit' = [detruit EXCEPT ![r] = FALSE]
      BY <2>1, <2>4 DEF Sortie
    <3> QED BY <2>2, <2>3, <3>1
  <2>5. CASE ~echec
    <3>1. code' = [code EXCEPT ![r] = code[r]] /\ compte' = compte \ {"stack"}
            /\ detruit' = [detruit EXCEPT ![r] = TRUE]
      BY <2>1, <2>5 DEF Sortie
    <3> QED BY <2>2, <2>3, <3>1
  <2> QED BY <2>4, <2>5
<1>8. ASSUME NEW r \in Runs, Nettoyer(r) PROVE IInv'
  BY <1>8 DEF Nettoyer
<1>9. ASSUME NEW r \in Runs, Verifier(r) PROVE IInv'
  <2>1. PICK echec \in BOOLEAN :
          /\ ~echec => compte = reference
          /\ code' = [code EXCEPT ![r] = Sortie(echec, code[r])]
    BY <1>9 DEF Verifier
  <2>2. /\ pc[r] = "nettoyee" /\ pc' = [pc EXCEPT ![r] = "verifiee"]
        /\ UNCHANGED <<compte, reference, verrou, detruit, histoire>>
    BY <1>9 DEF Verifier
  <2>3. CASE echec
    <3>1. code' = [code EXCEPT ![r] = 1] BY <2>1, <2>3 DEF Sortie
    <3> QED BY <2>2, <3>1
  <2>4. CASE ~echec
    <3>1. code' = [code EXCEPT ![r] = code[r]] /\ compte = reference
      BY <2>1, <2>4 DEF Sortie
    <3> QED BY <2>2, <3>1
  <2> QED BY <2>3, <2>4
<1>10. ASSUME NEW r \in Runs, Rendre(r) PROVE IInv'
  BY <1>10 DEF Rendre, ARetirer
<1>11. ASSUME NEW r \in Runs, Tuer(r) PROVE IInv'
  BY <1>11 DEF Tuer, Arretes
<1>12. ASSUME NEW r \in Runs, Relancer(r) PROVE IInv'
  BY <1>12 DEF Relancer
<1>13. CASE DetruireALaMain
  BY <1>13 DEF DetruireALaMain, AuRepos, Arretes
<1>14. CASE RetirerALaMain
  BY <1>14 DEF RetirerALaMain, AuRepos, Arretes
<1>15. CASE UNCHANGED vars
  BY <1>15 DEF vars
<1> QED
  BY <1>1, <1>2, <1>3, <1>4, <1>5, <1>6, <1>7, <1>8, <1>9, <1>10, <1>11, <1>12, <1>13,
     <1>14, <1>15 DEF Next, Pas

\* The inductive invariant of the runs: who owns the lock, and whose reference it is.
THEOREM Inductif == Spec => []IInv
<1>1. Init => IInv BY InitInductif
<1>2. IInv /\ [Next]_vars => IInv' BY PasInductif
<1> QED BY <1>1, <1>2, PTL DEF Spec

\* Runs that met inside poser apart, whatever stands is under a lock and one run at most
\* is at work, killed or failed anywhere (verrou_plateforme.py, poser and a_retirer).
THEOREM Verrouille == Spec => []DeboutVerrouille
<1>1. IInv => DeboutVerrouille
  <2> SUFFICES ASSUME IInv, ~croise
               PROVE  /\ "stack" \in compte => verrou # "absent"
                      /\ \A r, q \in Runs : Tient(r) /\ Tient(q) => r = q
    BY DEF DeboutVerrouille
  <2>1. Exclusif BY DEF IInv
  <2> QED BY <2>1 DEF Exclusif
<1> QED BY <1>1, Inductif, PTL

\* What the lock and the status say when a run that held the lock ends, by its return or
\* by an exception (example.py, the finally of main).
THEOREM Fidele == Spec => RetourFidele
<1> DEFINE Fin(r) ==
             /\ verrou' = "absent" => "stack" \notin compte'
             /\ pc'[r] = "rendu" => (verrou' = "absent" <=> detruit'[r])
             /\ pc'[r] = "rendu" /\ code'[r] = 0
                  => detruit'[r] /\ (auteur' = r => compte' = avant'[r])
           RF == \A r \in Runs : Tient(r) /\ pc'[r] \in {"rendu", "leve"} /\ ~croise => Fin(r)
<1> SUFFICES Spec => [][RF]_vars BY DEF RetourFidele
<1>1. ASSUME IInv, Next PROVE RF
  <2> SUFFICES ASSUME NEW r \in Runs, Tient(r), pc'[r] \in {"rendu", "leve"}, ~croise
               PROVE  Fin(r)
    OBVIOUS
  <2>0. IInv' BY <1>1, PasInductif
  <2>1. /\ verrou = r /\ r # "absent" /\ Exclusif
        /\ pc[r] \in {"pose", "deploye", "finally", "derive", "detruite", "nettoyee", "verifiee"}
    BY <1>1, PlateformeAssumption DEF IInv, Exclusif, Tient
  <2>2. Deriver(r) \/ Nettoyer(r) \/ Rendre(r)
    <3> USE <2>1 DEF Aller, IInv, TypeOK
    <3>1. ASSUME NEW q \in Runs, Pas(q) PROVE q = r /\ (Deriver(r) \/ Nettoyer(r) \/ Rendre(r))
      BY <1>1, <3>1 DEF Pas, Capturer, LireVerrou, EcrireVerrou, Deployer, Jouer, Deriver, Detruire,
                  Nettoyer, Verifier, Rendre
    <3>2. ASSUME NEW q \in Runs, Tuer(q) \/ Relancer(q) PROVE FALSE
      BY <1>1, <3>2 DEF Tuer, Relancer
    <3>3. CASE DetruireALaMain \/ RetirerALaMain
      BY <3>3 DEF DetruireALaMain, RetirerALaMain
    <3> QED BY <1>1, <3>1, <3>2, <3>3 DEF Next
  <2>3. CASE Deriver(r) \/ Nettoyer(r)
    <3>1. verrou' = r /\ pc'[r] # "rendu"
      BY <1>1, <2>1, <2>3 DEF Deriver, Nettoyer, Aller, IInv, TypeOK
    <3> QED BY <2>1, <3>1
  <2>4. CASE Rendre(r)
    <3>1. /\ pc[r] = "verifiee" /\ UNCHANGED <<compte, reference, code, detruit, auteur, avant>>
          /\ pc'[r] = "rendu" => verrou' = (IF detruit[r] THEN "absent" ELSE verrou)
          /\ verrou' # verrou => detruit[r]
      BY <1>1, <2>4 DEF Rendre, ARetirer, Aller, IInv, TypeOK, histoire
    <3>2. /\ detruit[r] => "stack" \notin compte
          /\ code[r] = 0 => detruit[r] /\ compte = reference
          /\ auteur = r => reference = avant[r]
      BY <1>1, <2>1, <3>1 DEF IInv, Exclusif
    <3> QED BY <2>1, <3>1, <3>2
  <2> QED BY <2>2, <2>3, <2>4
<1>2. IInv /\ [Next]_vars => [RF]_vars BY <1>1
<1> QED BY <1>2, Inductif, PTL DEF Spec
==============================================================================
