--------------------------- MODULE RoulementProofs ---------------------------
(***************************************************************************)
(* The roll, for any selection, any size of batch and any patience: what   *)
(* is fired, when, and what is said of it at the end.                      *)
(***************************************************************************)
EXTENDS Roulement, TLAPS

\* The quotient and its remainder.
LEMMA Division ==
  ASSUME NEW x \in Nat, NEW t \in Nat \ {0}
  PROVE  x \div t \in Nat /\ (x \div t) * t <= x /\ x < (x \div t) * t + t
  OBVIOUS

\* A batch is left exactly when the batches so far do not hold everything.
LEMMA Lots ==
  ASSUME NEW l \in Nat, NEW t \in Nat \ {0}, NEW n \in Nat
  PROVE  n < (l + t - 1) \div t <=> n * t < l
<1>1. PICK q \in Nat : q = (l + t - 1) \div t /\ q * t <= l + t - 1 /\ l + t - 1 < q * t + t
  BY Division
<1>2. n < q => n * t + t <= q * t OBVIOUS
<1>3. n >= q => n * t >= q * t OBVIOUS
<1>4. n * t \in Nat /\ q * t \in Nat OBVIOUS
<1> QED BY <1>1, <1>2, <1>3, <1>4

LEMMA Produits ==
  ASSUME NEW n \in Nat, NEW t \in Nat \ {0}
  PROVE  /\ n * t \in Nat /\ n <= n * t
         /\ n > 0 => (n - 1) * t \in Nat /\ n * t = (n - 1) * t + t
         /\ 0 * t = 0
  OBVIOUS

\* How far the reboots went: the places of the plan whose job was fired.
Frontiere == IF pc = "lancer" THEN (numero - 1) * Lot + i - 1
         ELSE Min2(numero * Lot, Len(aRedemarrer))

\* The plan is what was read running, each machine once.
Plan ==
  /\ IsInjective(aRedemarrer) /\ Len(aRedemarrer) <= Len(Cibles)
  /\ pc = "lire" =>
       aRedemarrer = <<>> /\ numero = 0 /\ \A k \in 1..(i - 1) : lu[Cibles[k]] # "non_lue"
  /\ pc # "lire" => ToSet(aRedemarrer) = {m \in ToSet(Cibles) : lu[m] = "running"}
  /\ numero > 0 => ~check
  /\ numero > 0 \/ pc \in {"rendre", "fini"}
       => \A m \in ToSet(Cibles) : lu[m] \in {"running", "autre"}

\* Where the roll is in its batches.
Avance ==
  /\ pc \in {"lancer", "attendre", "juger"} =>
       numero > 0 /\ (numero - 1) * Lot < Len(aRedemarrer)
  /\ pc \in {"lancer", "attendre"} => i \in 1..Len(LeLot(numero))
  /\ pc = "juger" => i = 1
  /\ pc \in {"rendre", "fini"} /\ ~check => numero * Lot >= Len(aRedemarrer)
  /\ pc = "arret" /\ numero > 0 => (numero - 1) * Lot < Len(aRedemarrer)
  /\ pc = "fini" => resultat = [changed |-> ToSet(aRedemarrer), refused |-> Laissees]

\* The jobs fired are those of the places passed, but the ones that could not be started,
\* which only the batch being fired has.
Tirees ==
  /\ \A m \in Machines : Lance(m) \/ retours[m] = "non_lance"
                          <=> \E k \in 1..Frontiere : aRedemarrer[k] = m
  /\ \A m \in Machines : retours[m] = "non_lance" =>
       pc = "arret" \/ (pc = "lancer" /\ \E k \in 1..(i - 1) : LeLot(numero)[k] = m)

\* The jobs under way are those of the batch, fired already, not waited for yet or
\* given up on.
Suivies ==
  \A m \in Machines : EnCours(m) =>
    /\ pc \notin {"lire", "rendre", "fini"}
    /\ pc = "lancer" => \E k \in 1..(i - 1) : LeLot(numero)[k] = m
    /\ pc = "attendre" => \/ \E k \in i..Len(LeLot(numero)) : LeLot(numero)[k] = m
                          \/ retours[m] = "epuise" /\ m \in ToSet(LeLot(numero))
    /\ pc = "juger" => retours[m] = "epuise" /\ m \in ToSet(LeLot(numero))
    /\ pc = "arret" => numero > 0 /\ m \in ToSet(LeLot(numero))

RouleInv == TypeOK /\ Plan /\ Avance /\ Tirees /\ Suivies

\* What a batch is: the places of the plan between the previous one and its end.
LEMMA UnLot ==
  ASSUME TypeOK, NEW n \in Nat \ {0}, (n - 1) * Lot < Len(aRedemarrer)
  PROVE  /\ LeLot(n) \in Seq(Machines)
         /\ Len(LeLot(n)) \in 1..Len(aRedemarrer)
         /\ (n - 1) * Lot \in Nat
         /\ (n - 1) * Lot + Len(LeLot(n)) = Min2(n * Lot, Len(aRedemarrer))
         /\ \A k \in 1..Len(LeLot(n)) :
              /\ LeLot(n)[k] = aRedemarrer[(n - 1) * Lot + k]
              /\ (n - 1) * Lot + k \in 1..Len(aRedemarrer)
              /\ LeLot(n)[k] \in Machines
<1> DEFINE a == (n - 1) * Lot
           b == Min2(n * Lot, Len(aRedemarrer))
<1>1. aRedemarrer \in Seq(Machines) /\ Len(aRedemarrer) \in Nat
  BY DEF TypeOK
<1>2. a \in Nat /\ n * Lot = a + Lot /\ Lot \in Nat \ {0}
  BY RoulementAssumption, Produits
<1>3. b \in (a + 1)..Len(aRedemarrer)
  BY <1>1, <1>2 DEF Min2
<1>4. LeLot(n) = SubSeq(aRedemarrer, a + 1, b)
  BY DEF LeLot
<1> HIDE DEF a, b
<1>5. /\ LeLot(n) \in Seq(Machines) /\ Len(LeLot(n)) = b - a
      /\ \A k \in 1..(b - a) : LeLot(n)[k] = aRedemarrer[a + k] /\ a + k \in 1..Len(aRedemarrer)
                               /\ LeLot(n)[k] \in Machines
  BY <1>1, <1>2, <1>3, <1>4
<1>6. Len(LeLot(n)) \in 1..Len(aRedemarrer)
  BY <1>1, <1>2, <1>3, <1>5
<1> QED BY <1>2, <1>3, <1>5, <1>6 DEF a, b

LEMMA Depart == Init => RouleInv
<1> SUFFICES ASSUME Init PROVE RouleInv OBVIOUS
<1>1. TypeOK
  BY RoulementAssumption DEF Init, TypeOK, Aucun
<1>2. Plan
  BY RoulementAssumption DEF Init, Plan, IsInjective
<1>3. Avance BY DEF Init, Avance
<1>4. Frontiere = 0
  BY RoulementAssumption, Produits DEF Init, Frontiere, Min2
<1>5. Tirees BY <1>4 DEF Init, Tirees, Lance
<1>6. Suivies BY DEF Init, Suivies, EnCours
<1> QED BY <1>1, <1>2, <1>3, <1>5, <1>6 DEF RouleInv

LEMMA PasLire ==
  ASSUME RouleInv, Lire
  PROVE  RouleInv'
<1>1. /\ UNCHANGED <<check, pc, sondages, aRedemarrer, numero, retours, resultat, etat, travail>>
      /\ pc = "lire" /\ i <= Len(Cibles) /\ i' = i + 1
  BY DEF Lire, parc
<1>2. Cibles[i] \in Machines
  BY <1>1, RoulementAssumption DEF RouleInv, TypeOK
<1>3. PICK e \in {"running", "autre", "illisible"} : lu' = [lu EXCEPT ![Cibles[i]] = e]
  BY DEF Lire
<1>4. TypeOK'
  BY <1>1, <1>2, <1>3, RoulementAssumption DEF RouleInv, TypeOK
<1>5. \A k \in 1..(i' - 1) : lu'[Cibles[k]] # "non_lue"
  BY <1>1, <1>2, <1>3, RoulementAssumption DEF RouleInv, TypeOK, Plan
<1>6. Plan' BY <1>1, <1>5 DEF RouleInv, Plan
<1>7. Avance' BY <1>1 DEF RouleInv, Avance
<1>8. Tirees' BY <1>1 DEF RouleInv, Tirees, Frontiere, Lance
<1>9. Suivies' BY <1>1 DEF RouleInv, Suivies, EnCours
<1> QED BY <1>4, <1>6, <1>7, <1>8, <1>9 DEF RouleInv

LEMMA PasDecider ==
  ASSUME RouleInv, Decider
  PROVE  RouleInv'
<1>1. /\ UNCHANGED <<check, sondages, lu, retours, resultat, etat, travail>>
      /\ pc = "lire" /\ i > Len(Cibles) /\ i' = 1 /\ numero = 0
      /\ pc' \in {"arret", "rendre", "lancer"} /\ numero' \in {0, 1}
      /\ pc' = "lancer" <=> numero' = 1
  BY DEF Decider, parc, RouleInv, Plan
<1>2. /\ pc' \in {"lancer", "rendre"} => Illisibles = {}
      /\ pc' = "lancer" => ~check /\ aRedemarrer' # <<>>
      /\ pc' = "rendre" => check \/ aRedemarrer' = <<>>
  BY DEF Decider
<1>3. /\ aRedemarrer' \in Seq(Machines) /\ IsInjective(aRedemarrer')
      /\ Len(aRedemarrer') <= Len(Cibles)
      /\ ToSet(aRedemarrer') = {m \in ToSet(Cibles) : lu[m] = "running"}
  <2>1. aRedemarrer' \in EnOrdre({m \in ToSet(Cibles) : lu[m] = "running"})
    BY DEF Decider, EnMarche
  <2>2. PICK n \in 0..Len(Cibles) : aRedemarrer' \in [1..n -> Machines]
    BY <2>1 DEF EnOrdre
  <2>3. aRedemarrer' \in Seq(Machines) /\ Len(aRedemarrer') = n
    BY <2>2
  <2> QED BY <2>1, <2>2, <2>3, RoulementAssumption DEF EnOrdre
<1>4. pc' = "lancer" => Len(aRedemarrer') > 0
  BY <1>2, <1>3
<1>5. \A m \in Machines : ~Lance(m) /\ ~EnCours(m) /\ retours[m] # "non_lance"
  BY <1>1, RoulementAssumption, Produits
  DEF RouleInv, TypeOK, Plan, Tirees, Frontiere, Min2, Lance, EnCours
<1>6. TypeOK'
  BY <1>1, <1>3, <1>4, RoulementAssumption DEF RouleInv, TypeOK
<1>7. \A m \in ToSet(Cibles) : lu[m] \in {"running", "autre", "illisible"}
  BY <1>1, RoulementAssumption DEF RouleInv, TypeOK, Plan, ToSet
<1>8. Plan'
  BY <1>1, <1>2, <1>3, <1>7 DEF Plan, Illisibles
<1>9. 1 * Lot = Lot /\ 0 * Lot = 0 /\ (1 - 1) * Lot = 0
  BY RoulementAssumption
<1>10. Avance'
  <2>1. ASSUME pc' = "lancer" PROVE i' \in 1..Len(LeLot(numero)')
    <3>1. (numero' - 1) * Lot < Len(aRedemarrer') /\ numero' = 1
      BY <1>1, <1>3, <1>4, <1>9, <2>1
    <3>2. (numero' - 1) * Lot + 1 = 1 /\ numero' * Lot = Lot
      BY <3>1, RoulementAssumption
    <3>3. LeLot(numero)' = SubSeq(aRedemarrer', 1, Min2(Lot, Len(aRedemarrer')))
      BY <3>2 DEF LeLot
    <3>4. Min2(Lot, Len(aRedemarrer')) \in 1..Len(aRedemarrer')
      BY <1>3, <1>4, <2>1, RoulementAssumption DEF Min2
    <3> QED BY <1>1, <1>3, <3>3, <3>4
  <2>2. pc' = "rendre" /\ ~check => Len(aRedemarrer') = 0
    BY <1>2, <1>3
  <2> QED BY <1>1, <1>3, <1>4, <1>9, <2>1, <2>2 DEF Avance
<1>11. Frontiere' = 0
  BY <1>1, <1>3, <1>9 DEF Frontiere, Min2
<1>12. Tirees' BY <1>1, <1>5, <1>11 DEF Tirees, Lance
<1>13. Suivies' BY <1>1, <1>5 DEF Suivies, EnCours
<1> QED BY <1>6, <1>8, <1>10, <1>12, <1>13 DEF RouleInv

LEMMA PasLancer ==
  ASSUME RouleInv, Lancer
  PROVE  RouleInv'
<1> DEFINE lot == LeLot(numero)
           a == (numero - 1) * Lot
           Rate(m) == retours'[m] = "non_lance"
<1>1. /\ UNCHANGED <<check, sondages, lu, aRedemarrer, numero, resultat, etat>>
      /\ pc = "lancer" /\ lot' = lot
      /\ \/ travail' = [travail EXCEPT ![lot[i]] = "lance"] /\ retours' = retours
         \/ retours' = [retours EXCEPT ![lot[i]] = "non_lance"] /\ travail' = travail
      /\ \/ i < Len(lot) /\ pc' = "lancer" /\ i' = i + 1
         \/ ~(i < Len(lot)) /\ (\E m \in ToSet(lot) : Rate(m)) /\ pc' = "arret" /\ i' = i
         \/ ~(i < Len(lot)) /\ (\A m \in ToSet(lot) : ~Rate(m)) /\ pc' = "attendre" /\ i' = 1
  BY DEF Lancer, LeLot
<1>2. numero \in Nat \ {0} /\ a < Len(aRedemarrer) /\ i \in 1..Len(lot)
  BY <1>1, RoulementAssumption DEF RouleInv, Avance, TypeOK
<1>3. /\ lot \in Seq(Machines) /\ Len(lot) \in 1..Len(aRedemarrer) /\ a \in Nat
      /\ a + Len(lot) = Min2(numero * Lot, Len(aRedemarrer))
      /\ \A k \in 1..Len(lot) : /\ lot[k] = aRedemarrer[a + k]
                                /\ a + k \in 1..Len(aRedemarrer) /\ lot[k] \in Machines
  BY <1>2, UnLot DEF RouleInv
<1> HIDE DEF lot, a
<1>4. /\ travail' \in [Machines -> {"aucun", "lance", "derange", "envoye", "presse", "ok", "echec"}]
      /\ retours' \in [Machines -> {"aucun", "non_lance", "revenu", "epuise"}]
  <2>1. lot[i] \in Machines BY <1>2, <1>3
  <2>2. /\ travail \in [Machines -> {"aucun", "lance", "derange", "envoye", "presse", "ok", "echec"}]
        /\ retours \in [Machines -> {"aucun", "non_lance", "revenu", "epuise"}]
    BY DEF RouleInv, TypeOK
  <2>3. CASE travail' = [travail EXCEPT ![lot[i]] = "lance"] /\ retours' = retours
    BY <2>1, <2>2, <2>3
  <2>4. CASE retours' = [retours EXCEPT ![lot[i]] = "non_lance"] /\ travail' = travail
    BY <2>1, <2>2, <2>4
  <2> QED BY <1>1, <2>3, <2>4
<1>5. /\ i' \in 1..(Len(Cibles) + 1) /\ i' \in 1..Len(lot)
      /\ pc' \in {"lancer", "arret", "attendre"}
      /\ pc' # "lancer" => i = Len(lot)
      /\ pc' = "lancer" => i' = i + 1
      /\ pc' = "attendre" => i' = 1
  BY <1>1, <1>2, <1>3, RoulementAssumption DEF RouleInv, TypeOK, Plan
<1>6. TypeOK' BY <1>1, <1>4, <1>5 DEF RouleInv, TypeOK
<1>7. Plan' BY <1>1, <1>5 DEF RouleInv, Plan
<1>8. Avance' BY <1>1, <1>2, <1>5 DEF RouleInv, Avance, lot, a
<1>9. Frontiere = a + i - 1 /\ Frontiere' = a + i
  <2>1. Frontiere = a + i - 1 BY <1>1 DEF Frontiere, a
  <2>2. CASE i = Len(lot) /\ pc' # "lancer"
    <3>1. Frontiere' = Min2(numero * Lot, Len(aRedemarrer))
      BY <1>1, <2>2 DEF Frontiere
    <3> QED BY <1>2, <1>3, <2>1, <2>2, <3>1
  <2>3. CASE pc' = "lancer" /\ i' = i + 1
    BY <1>1, <1>2, <1>3, <2>3 DEF Frontiere, a
  <2> QED BY <1>5, <2>1, <2>2, <2>3
<1>10. ASSUME NEW m \in Machines
       PROVE  /\ Lance(m)' \/ Rate(m) <=> Lance(m) \/ retours[m] = "non_lance" \/ m = lot[i]
              /\ EnCours(m)' => EnCours(m) \/ m = lot[i]
              /\ Rate(m) => retours[m] = "non_lance" \/ m = lot[i]
  BY <1>1, <1>2, <1>3 DEF Lance, EnCours, RouleInv, TypeOK
<1>11. ASSUME NEW m \in Machines, EnCours(m)' \/ Rate(m)
       PROVE  m \in ToSet(lot) /\ \E k \in 1..i : lot[k] = m
  <2>1. \E k \in 1..i : lot[k] = m
    <3>1. EnCours(m) \/ retours[m] = "non_lance" \/ m = lot[i]
      BY <1>10, <1>11
    <3>2. EnCours(m) => \E k \in 1..(i - 1) : lot[k] = m
      BY <1>1 DEF RouleInv, Suivies, lot
    <3>3. retours[m] = "non_lance" => \E k \in 1..(i - 1) : lot[k] = m
      BY <1>1 DEF RouleInv, Tirees, lot
    <3>4. i \in Nat /\ i \in 1..i /\ 1..(i - 1) \subseteq 1..i
      BY <1>2, <1>3
    <3> QED BY <3>1, <3>2, <3>3, <3>4
  <2>2. 1..i \subseteq 1..Len(lot) BY <1>2, <1>3
  <2> QED BY <1>3, <2>1, <2>2 DEF ToSet
<1>12. Tirees'
  <2>1. ASSUME NEW m \in Machines
        PROVE  Lance(m)' \/ Rate(m) <=> \E k \in 1..(a + i) : aRedemarrer[k] = m
    <3>1. Lance(m)' \/ Rate(m) <=> Lance(m) \/ retours[m] = "non_lance" \/ m = lot[i]
      BY <1>10
    <3>2. Lance(m) \/ retours[m] = "non_lance" <=> \E k \in 1..(a + i - 1) : aRedemarrer[k] = m
      BY <1>9 DEF RouleInv, Tirees
    <3>3. lot[i] = aRedemarrer[a + i] BY <1>2, <1>3
    <3>4. /\ a + i \in 1..(a + i) /\ 1..(a + i - 1) \subseteq 1..(a + i)
          /\ \A k \in 1..(a + i) : k = a + i \/ k \in 1..(a + i - 1)
      BY <1>2, <1>3
    <3> HIDE DEF Rate
    <3> QED BY <3>1, <3>2, <3>3, <3>4
  <2>2. ASSUME NEW m \in Machines, Rate(m)
        PROVE  pc' = "arret" \/ (pc' = "lancer" /\ \E k \in 1..(i' - 1) : lot[k] = m)
    <3>1. m \in ToSet(lot) /\ \E k \in 1..i : lot[k] = m BY <1>11, <2>2
    <3>2. pc' # "attendre" BY <1>1, <2>2, <3>1
    <3>3. pc' = "lancer" => i' - 1 = i BY <1>2, <1>3, <1>5
    <3> QED BY <1>5, <3>1, <3>2, <3>3
  <2> QED BY <1>1, <1>9, <2>1, <2>2 DEF Tirees, lot
<1>13. Suivies'
  <2> SUFFICES ASSUME NEW m \in Machines, EnCours(m)'
               PROVE  /\ pc' = "lancer" => \E k \in 1..(i' - 1) : lot[k] = m
                      /\ pc' = "attendre" => \E k \in i'..Len(lot) : lot[k] = m
                      /\ pc' = "arret" => numero > 0 /\ m \in ToSet(lot)
    BY <1>1, <1>5 DEF Suivies, lot
  <2>1. m \in ToSet(lot) /\ \E k \in 1..i : lot[k] = m
    BY <1>11
  <2>2. /\ pc' = "lancer" => 1..(i' - 1) = 1..i
        /\ pc' = "attendre" => i'..Len(lot) = 1..i
        /\ numero > 0
    <3>1. i \in Nat /\ numero > 0 BY <1>2, <1>3
    <3>2. ASSUME pc' = "lancer" PROVE 1..(i' - 1) = 1..i
      <4>1. i' = i + 1 BY <1>5, <3>2
      <4>2. i' - 1 = i BY <3>1, <4>1
      <4> QED BY <4>2
    <3>3. ASSUME pc' = "attendre" PROVE i'..Len(lot) = 1..i
      <4>1. i' = 1 /\ i = Len(lot) BY <1>5, <3>3
      <4> QED BY <4>1
    <3> QED BY <3>1, <3>2, <3>3
  <2> QED BY <2>1, <2>2
<1> QED BY <1>6, <1>7, <1>8, <1>12, <1>13 DEF RouleInv

LEMMA PasSonder ==
  ASSUME RouleInv, Sonder
  PROVE  RouleInv'
<1> DEFINE lot == LeLot(numero)
<1>1. /\ UNCHANGED <<check, lu, aRedemarrer, numero, resultat, etat, travail>>
      /\ pc = "attendre" /\ lot' = lot
  BY DEF Sonder, parc, LeLot
<1>2. numero \in Nat \ {0} /\ (numero - 1) * Lot < Len(aRedemarrer) /\ i \in 1..Len(lot)
  BY <1>1, RoulementAssumption DEF RouleInv, Avance, TypeOK
<1>3. lot \in Seq(Machines) /\ Len(lot) \in 1..Len(aRedemarrer) /\ lot[i] \in Machines
  BY <1>2, UnLot DEF RouleInv
<1>4. \/ /\ travail[lot[i]] \in {"ok", "echec"} /\ retours' = [retours EXCEPT ![lot[i]] = "revenu"]
         /\ Suivant
      \/ retours' = [retours EXCEPT ![lot[i]] = "epuise"] /\ Suivant
      \/ sondages # MaxSondages /\ sondages' = sondages + 1 /\ UNCHANGED <<pc, i, retours>>
  BY DEF Sonder, Revenu, Epuise
<1>5. Suivant => /\ sondages' = 0
                 /\ \/ i = Len(lot) /\ pc' = "juger" /\ i' = 1
                    \/ i # Len(lot) /\ pc' = "attendre" /\ i' = i + 1
  BY <1>1 DEF Suivant
<1> HIDE DEF lot
<1>6. \/ pc' = "juger" /\ i' = 1
      \/ pc' = "attendre" /\ i' \in 1..Len(lot)
  BY <1>1, <1>2, <1>3, <1>4, <1>5
<1>7. sondages' \in 0..MaxSondages
  BY <1>4, <1>5, RoulementAssumption DEF RouleInv, TypeOK
<1>8. /\ retours' \in [Machines -> {"aucun", "non_lance", "revenu", "epuise"}]
      /\ \A m \in Machines : retours[m] # "non_lance" /\ retours'[m] # "non_lance"
  <2>1. /\ retours \in [Machines -> {"aucun", "non_lance", "revenu", "epuise"}]
        /\ \A m \in Machines : retours[m] # "non_lance"
    BY <1>1 DEF RouleInv, TypeOK, Tirees
  <2>2. \/ retours' = retours
        \/ \E v \in {"revenu", "epuise"} : retours' = [retours EXCEPT ![lot[i]] = v]
    BY <1>4
  <2> QED BY <1>3, <2>1, <2>2
<1>9. i' \in 1..(Len(Cibles) + 1)
  BY <1>3, <1>6, RoulementAssumption DEF RouleInv, TypeOK, Plan
<1>10. TypeOK' BY <1>1, <1>6, <1>7, <1>8, <1>9 DEF RouleInv, TypeOK
<1>11. Plan' BY <1>1, <1>6 DEF RouleInv, Plan
<1>12. Avance' BY <1>1, <1>2, <1>6 DEF RouleInv, Avance, lot
<1>13. Tirees' BY <1>1, <1>6, <1>8 DEF RouleInv, Tirees, Frontiere, Lance
<1>14. Suivies'
  <2> SUFFICES ASSUME NEW m \in Machines, EnCours(m)
               PROVE  /\ pc' = "attendre" => \/ \E k \in i'..Len(lot) : lot[k] = m
                                             \/ retours'[m] = "epuise" /\ m \in ToSet(lot)
                      /\ pc' = "juger" => retours'[m] = "epuise" /\ m \in ToSet(lot)
    BY <1>1, <1>6 DEF Suivies, EnCours, lot
  <2>1. \/ \E k \in i..Len(lot) : lot[k] = m
        \/ retours[m] = "epuise" /\ m \in ToSet(lot)
    BY <1>1 DEF RouleInv, Suivies, lot
  <2>2. lot[i] \in ToSet(lot) BY <1>2, <1>3 DEF ToSet
  <2>3. CASE UNCHANGED <<pc, i, retours>>
    BY <1>1, <2>1, <2>3
  <2>4. CASE Suivant /\ m = lot[i]
    <3>1. travail[m] \notin {"ok", "echec"} BY DEF EnCours
    <3>2. sondages' # sondages + 1 BY <1>5, <2>4 DEF RouleInv, TypeOK
    <3>3. retours' = [retours EXCEPT ![m] = "epuise"]
      BY <1>4, <2>4, <3>1, <3>2
    <3>4. retours'[m] = "epuise" BY <3>3 DEF RouleInv, TypeOK
    <3> QED BY <2>2, <2>4, <3>4
  <2>5. CASE Suivant /\ m # lot[i] /\ retours[m] = "epuise" /\ m \in ToSet(lot)
    BY <1>3, <1>4, <2>5 DEF RouleInv, TypeOK
  <2>6. CASE Suivant /\ m # lot[i] /\ \E k \in i..Len(lot) : lot[k] = m
    <3>1. PICK k \in i..Len(lot) : lot[k] = m BY <2>6
    <3>2. k \in (i + 1)..Len(lot) BY <1>2, <1>3, <2>6, <3>1
    <3> QED BY <1>2, <1>3, <1>5, <2>6, <3>1, <3>2
  <2> QED BY <1>4, <2>1, <2>3, <2>4, <2>5, <2>6
<1> QED BY <1>10, <1>11, <1>12, <1>13, <1>14 DEF RouleInv

LEMMA PasJuger ==
  ASSUME RouleInv, Juger
  PROVE  RouleInv'
<1>1. /\ UNCHANGED <<check, i, sondages, lu, aRedemarrer, retours, resultat, etat, travail>>
      /\ pc = "juger" /\ i = 1
      /\ \/ pc' = "arret" /\ numero' = numero
         \/ ~LotTombe(numero) /\ numero < NombreDeLots /\ pc' = "lancer" /\ numero' = numero + 1
         \/ ~LotTombe(numero) /\ ~(numero < NombreDeLots) /\ pc' = "rendre" /\ numero' = numero
  BY DEF Juger, parc, RouleInv, Avance
<1>2. /\ numero \in Nat \ {0} /\ Len(aRedemarrer) \in Nat /\ Lot \in Nat \ {0}
      /\ aRedemarrer \in Seq(Machines) /\ ~check
  BY <1>1, RoulementAssumption DEF RouleInv, Avance, TypeOK, Plan
<1>3. /\ numero < NombreDeLots <=> numero * Lot < Len(aRedemarrer)
      /\ numero * Lot \in Nat /\ numero <= numero * Lot
  BY <1>2, Lots, Produits DEF NombreDeLots
<1>4. pc' = "lancer" => numero' - 1 = numero /\ numero' \in 1..Len(Cibles)
  BY <1>1, <1>2, <1>3, RoulementAssumption DEF RouleInv, Plan
<1>5. TypeOK' BY <1>1, <1>4 DEF RouleInv, TypeOK
<1>6. Plan' BY <1>1, <1>2 DEF RouleInv, Plan
<1>7. pc' = "lancer" => i' \in 1..Len(LeLot(numero)')
  <2> SUFFICES ASSUME pc' = "lancer" PROVE i' \in 1..Len(LeLot(numero)') OBVIOUS
  <2>1. LeLot(numero)' = LeLot(numero + 1)
    BY <1>1 DEF LeLot
  <2>2. Len(LeLot(numero + 1)) \in 1..Len(aRedemarrer)
    BY <1>1, <1>2, <1>3, UnLot DEF RouleInv
  <2> QED BY <1>1, <2>1, <2>2
<1>8. Avance'
  BY <1>1, <1>2, <1>3, <1>4, <1>7 DEF RouleInv, Avance
<1>9. Frontiere' = Frontiere
  BY <1>1, <1>2, <1>3, <1>4 DEF Frontiere, Min2
<1>10. Tirees' BY <1>1, <1>9 DEF RouleInv, Tirees, Lance
<1>11. Suivies'
  <2>2. pc' = "arret" => numero' > 0 /\ LeLot(numero)' = LeLot(numero)
    <3>1. pc' = "arret" => numero' = numero BY <1>1
    <3>2. numero > 0 BY <1>2
    <3> QED BY <1>1, <3>1, <3>2 DEF LeLot
  <2>1. ~LotTombe(numero) => \A m \in Machines : ~EnCours(m)
    BY <1>1 DEF LotTombe, RouleInv, Suivies
  <2> QED BY <1>1, <2>1, <2>2 DEF RouleInv, Suivies, EnCours
<1> QED BY <1>5, <1>6, <1>8, <1>10, <1>11 DEF RouleInv

LEMMA PasRendre ==
  ASSUME RouleInv, Rendre
  PROVE  RouleInv'
<1>1. /\ UNCHANGED <<check, i, sondages, lu, aRedemarrer, numero, retours, etat, travail>>
      /\ pc = "rendre" /\ pc' = "fini"
      /\ resultat' = [changed |-> ToSet(aRedemarrer), refused |-> Laissees]
  BY DEF Rendre, parc
<1>2. ToSet(aRedemarrer) \subseteq Machines /\ Laissees \subseteq Machines
  BY RoulementAssumption DEF RouleInv, TypeOK, ToSet, Laissees
<1>3. TypeOK' BY <1>1, <1>2 DEF RouleInv, TypeOK
<1>4. Plan' BY <1>1 DEF RouleInv, Plan
<1>5. Avance' BY <1>1 DEF RouleInv, Avance, Laissees
<1>6. Tirees' BY <1>1 DEF RouleInv, Tirees, Frontiere, Lance
<1>7. Suivies' BY <1>1 DEF RouleInv, Suivies, EnCours
<1> QED BY <1>3, <1>4, <1>5, <1>6, <1>7 DEF RouleInv

LEMMA PasParc ==
  ASSUME RouleInv, NEW m \in Machines,
         Envoyer(m) \/ Reussir(m) \/ Echouer(m) \/ Revenir(m) \/ Ailleurs(m)
  PROVE  RouleInv'
<1>1. UNCHANGED <<check, pc, i, sondages, lu, aRedemarrer, numero, retours, resultat>>
  BY DEF Envoyer, Reussir, Echouer, Revenir, Ailleurs, role
<1>2. /\ etat' \in [Machines -> {"running", "redemarre", "arretee"}]
      /\ travail' \in [Machines -> {"aucun", "lance", "derange", "envoye", "presse", "ok", "echec"}]
  BY DEF Envoyer, Reussir, Echouer, Revenir, Ailleurs, Accepter, RouleInv, TypeOK
<1>3. \A x \in Machines : (Lance(x)' <=> Lance(x)) /\ (EnCours(x)' => EnCours(x))
  BY DEF Envoyer, Reussir, Echouer, Revenir, Ailleurs, Accepter, Lance, EnCours, RouleInv, TypeOK
<1>4. TypeOK' BY <1>1, <1>2 DEF RouleInv, TypeOK
<1>5. Plan' BY <1>1 DEF RouleInv, Plan
<1>6. LeLot(numero)' = LeLot(numero) BY <1>1 DEF LeLot
<1>7. Avance' BY <1>1, <1>6 DEF RouleInv, Avance, Laissees
<1>8. Frontiere' = Frontiere BY <1>1 DEF Frontiere
<1>9. Tirees' BY <1>1, <1>3, <1>6, <1>8 DEF RouleInv, Tirees
<1>10. Suivies' BY <1>1, <1>3, <1>6 DEF RouleInv, Suivies
<1> QED BY <1>4, <1>5, <1>7, <1>9, <1>10 DEF RouleInv

LEMMA Pas == RouleInv /\ [Next]_vars => RouleInv'
<1> SUFFICES ASSUME RouleInv, [Next]_vars PROVE RouleInv' OBVIOUS
<1>1. CASE UNCHANGED vars
  <2>1. UNCHANGED <<check, pc, i, sondages, lu, aRedemarrer, numero, retours, resultat, etat, travail>>
    BY <1>1 DEF vars, role, parc
  <2>2. UNCHANGED <<LeLot(numero), Frontiere, Laissees>> BY <2>1 DEF LeLot, Frontiere, Laissees
  <2> QED BY <2>1, <2>2 DEF RouleInv, TypeOK, Plan, Avance, Tirees, Suivies, Lance, EnCours
<1> QED
  BY <1>1, PasLire, PasDecider, PasLancer, PasSonder, PasJuger, PasRendre, PasParc
  DEF Next, Role, Parc

THEOREM Inductif == Spec => []RouleInv
  BY Depart, Pas, PTL DEF Spec

\* TypeOK: the roll keeps its types, its batch number within the selection.
THEOREM Type == Spec => []TypeOK
<1>1. RouleInv => TypeOK BY DEF RouleInv
<1> QED BY <1>1, Inductif, PTL

\* RienSansSavoir: nothing is fired before everything was read, in check mode, or on a
\* machine that was not running when it was read.
THEOREM Savoir == Spec => []RienSansSavoir
<1>1. RouleInv => RienSansSavoir
  <2> SUFFICES ASSUME RouleInv, NEW m \in Machines, Lance(m)
               PROVE  /\ ~check /\ lu[m] = "running"
                      /\ \A c \in ToSet(Cibles) : lu[c] \in {"running", "autre"}
    BY DEF RienSansSavoir
  <2>1. PICK k \in 1..Frontiere : aRedemarrer[k] = m
    BY DEF RouleInv, Tirees
  <2>2. numero > 0 /\ k \in 1..Len(aRedemarrer)
    <3>1. CASE pc = "lancer"
      <4>1. numero \in Nat \ {0} /\ (numero - 1) * Lot < Len(aRedemarrer)
            /\ i \in 1..Len(LeLot(numero))
        BY <3>1, RoulementAssumption DEF RouleInv, Avance, TypeOK
      <4>2. /\ (numero - 1) * Lot \in Nat
            /\ (numero - 1) * Lot + i \in 1..Len(aRedemarrer)
        BY <4>1, UnLot DEF RouleInv
      <4>3. Len(aRedemarrer) \in Nat BY DEF RouleInv, TypeOK
      <4> QED BY <2>1, <3>1, <4>1, <4>2, <4>3 DEF Frontiere
    <3>2. CASE pc # "lancer"
      <4>1. numero \in Nat /\ numero * Lot \in Nat /\ Len(aRedemarrer) \in Nat /\ 0 * Lot = 0
        BY RoulementAssumption, Produits DEF RouleInv, TypeOK
      <4> QED BY <2>1, <3>2, <4>1 DEF Frontiere, Min2
    <3> QED BY <3>1, <3>2
  <2>3. m \in ToSet(aRedemarrer)
    BY <2>1, <2>2 DEF ToSet, RouleInv, TypeOK
  <2>4. numero > 0 /\ pc # "lire" BY <2>2 DEF RouleInv, Plan
  <2> QED BY <2>3, <2>4 DEF RouleInv, Plan
<1> QED BY <1>1, Inductif, PTL

\* UnLotALaFois: the jobs under way are all of one batch until the roll gives up.
THEOREM UnSeulLot == Spec => []UnLotALaFois
<1>1. RouleInv => UnLotALaFois
  <2> SUFFICES ASSUME RouleInv, pc # "arret", NEW m \in Machines, EnCours(m)
               PROVE  m \in ToSet(LeLot(numero))
    BY DEF UnLotALaFois
  <2>1. pc \in {"lancer", "attendre", "juger"}
    <3>1. pc \in {"lire", "lancer", "attendre", "juger", "rendre", "fini", "arret"}
      BY DEF RouleInv, TypeOK
    <3>2. pc \notin {"lire", "rendre", "fini"} BY DEF RouleInv, Suivies
    <3> QED BY <3>1, <3>2
  <2>2. numero \in Nat \ {0} /\ (numero - 1) * Lot < Len(aRedemarrer)
    BY <2>1, RoulementAssumption DEF RouleInv, Avance, TypeOK
  <2>3. LeLot(numero) \in Seq(Machines) /\ Len(LeLot(numero)) \in Nat
    BY <2>2, UnLot DEF RouleInv
  <2>4. pc \in {"lancer", "attendre"} => i \in 1..Len(LeLot(numero))
    BY DEF RouleInv, Avance
  <2>5. m \in ToSet(LeLot(numero)) \/ \E k \in 1..Len(LeLot(numero)) : LeLot(numero)[k] = m
    BY <2>1, <2>3, <2>4 DEF RouleInv, Suivies
  <2> QED BY <2>3, <2>5 DEF ToSet
<1> QED BY <1>1, Inductif, PTL

\* FinExacte: a roll that stops has touched nothing past its batch, and one that ends
\* accounts for every target, and has asked the reboots it announces and no other.
THEOREM Fin == Spec => []FinExacte
<1>1. RouleInv => FinExacte
  <2> SUFFICES ASSUME RouleInv PROVE FinExacte OBVIOUS
  <2> DEFINE l == Len(aRedemarrer)
  <2>1. /\ aRedemarrer \in Seq(Machines) /\ l \in Nat /\ numero \in Nat /\ numero * Lot \in Nat
        /\ \A k \in 1..l : aRedemarrer[k] \in Machines
        /\ DOMAIN aRedemarrer = 1..l
    BY RoulementAssumption, Produits DEF RouleInv, TypeOK
  <2>2. \A j, k \in 1..l : aRedemarrer[j] = aRedemarrer[k] => j = k
    BY <2>1 DEF RouleInv, Plan, IsInjective
  <2>3. ASSUME pc = "arret", NEW k \in 1..l
        PROVE  /\ Lance(aRedemarrer[k]) => k <= numero * Lot
               /\ EnCours(aRedemarrer[k]) => k > (numero - 1) * Lot
    <3>1. ASSUME Lance(aRedemarrer[k]) PROVE k <= numero * Lot
      <4>1. PICK j \in 1..Frontiere : aRedemarrer[j] = aRedemarrer[k]
        BY <2>1, <3>1 DEF RouleInv, Tirees
      <4>2. j \in 1..l /\ j <= numero * Lot
        BY <2>1, <2>3, <4>1 DEF Frontiere, Min2
      <4> QED BY <2>2, <4>1, <4>2
    <3>2. ASSUME EnCours(aRedemarrer[k]) PROVE k > (numero - 1) * Lot
      <4>1. numero \in Nat \ {0} /\ aRedemarrer[k] \in ToSet(LeLot(numero))
        BY <2>1, <2>3, <3>2 DEF RouleInv, Suivies
      <4>2. (numero - 1) * Lot < l
        BY <2>3, <4>1 DEF RouleInv, Avance
      <4>3. /\ LeLot(numero) \in Seq(Machines) /\ (numero - 1) * Lot \in Nat
            /\ \A x \in 1..Len(LeLot(numero)) :
                 /\ LeLot(numero)[x] = aRedemarrer[(numero - 1) * Lot + x]
                 /\ (numero - 1) * Lot + x \in 1..l
        BY <4>1, <4>2, UnLot DEF RouleInv
      <4>4. PICK x \in 1..Len(LeLot(numero)) : LeLot(numero)[x] = aRedemarrer[k]
        BY <4>1, <4>3 DEF ToSet
      <4>5. k = (numero - 1) * Lot + x /\ x \in Nat /\ x > 0
        BY <2>2, <4>3, <4>4
      <4> QED BY <4>3, <4>5
    <3> QED BY <3>1, <3>2
  <2>4. ASSUME pc = "fini"
        PROVE  /\ resultat.changed \cup resultat.refused = ToSet(Cibles)
               /\ resultat.changed \cap resultat.refused = {}
    <3>1. resultat.changed = ToSet(aRedemarrer) /\ resultat.refused = Laissees
      BY <2>4 DEF RouleInv, Avance
    <3>2. /\ ToSet(aRedemarrer) = {m \in ToSet(Cibles) : lu[m] = "running"}
          /\ \A m \in ToSet(Cibles) : lu[m] \in {"running", "autre"}
      BY <2>4 DEF RouleInv, Plan
    <3> QED BY <3>1, <3>2 DEF Laissees
  <2>5. ASSUME pc = "fini", ~check, NEW m \in Machines
        PROVE  ~EnCours(m) /\ (Lance(m) <=> m \in resultat.changed)
    <3>1. resultat.changed = ToSet(aRedemarrer) /\ numero * Lot >= l
      BY <2>5 DEF RouleInv, Avance
    <3>2. m \in ToSet(aRedemarrer) <=> \E k \in 1..l : aRedemarrer[k] = m
      BY <2>1 DEF ToSet
    <3>3. Frontiere = l
      BY <2>1, <2>5, <3>1 DEF Frontiere, Min2
    <3>4. retours[m] # "non_lance" BY <2>5 DEF RouleInv, Tirees
    <3>5. Lance(m) <=> \E k \in 1..l : aRedemarrer[k] = m
      BY <3>3, <3>4 DEF RouleInv, Tirees
    <3>6. ~EnCours(m) BY <2>5 DEF RouleInv, Suivies
    <3> QED BY <3>1, <3>2, <3>5, <3>6
  <2> QED BY <2>1, <2>3, <2>4, <2>5 DEF FinExacte
<1> QED BY <1>1, Inductif, PTL

------------------------------------------------------------------------------
(* The roll and the contract of its jobs. *)

\* No machine is fired at twice: the place of the plan that is fired is past the frontier.
LEMMA JamaisTiree ==
  ASSUME RouleInv, Lancer
  PROVE  LeLot(numero)[i] \in Machines /\ travail[LeLot(numero)[i]] = "aucun"
<1> DEFINE a == (numero - 1) * Lot
           m == LeLot(numero)[i]
<1>1. pc = "lancer" /\ aRedemarrer \in Seq(Machines) /\ Len(aRedemarrer) \in Nat
  BY DEF Lancer, RouleInv, TypeOK
<1>2. numero \in Nat \ {0} /\ a < Len(aRedemarrer) /\ i \in 1..Len(LeLot(numero))
  BY <1>1, RoulementAssumption DEF RouleInv, Avance, TypeOK
<1>3. /\ a \in Nat /\ a + i \in 1..Len(aRedemarrer) /\ m = aRedemarrer[a + i] /\ m \in Machines
  BY <1>2, UnLot DEF RouleInv
<1>4. Frontiere = a + i - 1
  BY <1>1 DEF Frontiere
<1> HIDE DEF a, m
<1>5. i \in Nat
  BY DEF RouleInv, TypeOK
<1>6. ~Lance(m)
  <2> SUFFICES ASSUME Lance(m) PROVE FALSE
    OBVIOUS
  <2>1. PICK k \in 1..(a + i - 1) : aRedemarrer[k] = m
    BY <1>3, <1>4 DEF RouleInv, Tirees
  <2>2. k \in 1..Len(aRedemarrer) /\ k # a + i
    BY <1>1, <1>3, <1>5, <2>1
  <2> QED BY <1>1, <1>3, <2>1, <2>2 DEF RouleInv, Plan, IsInjective
<1> QED BY <1>3, <1>6 DEF Lance, m

\* Every step of the roll, of the jobs and of the machines is, for each machine, one of
\* the contract of its job or one that leaves both alone.
LEMMA PasTravail ==
  ASSUME RouleInv, [Next]_vars, NEW m \in Machines
  PROVE  [Contrat(m)!Next]_(Contrat(m)!vars)
<1> USE DEF Contrat!vars
<1>0. travail[m] \in {"aucun", "lance", "derange", "envoye", "presse", "ok", "echec"}
      /\ etat \in [Machines -> {"running", "redemarre", "arretee"}]
      /\ travail \in [Machines -> {"aucun", "lance", "derange", "envoye", "presse", "ok", "echec"}]
  BY DEF RouleInv, TypeOK
<1>1. CASE Lire \/ Decider \/ Sonder \/ Juger \/ Rendre \/ UNCHANGED vars
  BY <1>1 DEF Lire, Decider, Sonder, Juger, Rendre, vars, parc
<1>2. CASE Lancer
  <2>1. /\ \/ travail' = [travail EXCEPT ![LeLot(numero)[i]] = "lance"]
           \/ travail' = travail
        /\ etat' = etat
    BY <1>2 DEF Lancer
  <2>2. LeLot(numero)[i] \in Machines /\ travail[LeLot(numero)[i]] = "aucun"
    BY <1>2, JamaisTiree
  <2>3. CASE m = LeLot(numero)[i]
    BY <1>0, <2>1, <2>2, <2>3 DEF Contrat!Next, Contrat!Lancer
  <2>4. CASE m # LeLot(numero)[i]
    BY <1>0, <2>1, <2>2, <2>4
  <2> QED BY <2>3, <2>4
<1>3. ASSUME NEW x \in Machines, x # m,
             Envoyer(x) \/ Reussir(x) \/ Echouer(x) \/ Revenir(x) \/ Ailleurs(x)
      PROVE  UNCHANGED <<travail[m], etat[m]>>
  BY <1>0, <1>3 DEF Envoyer, Reussir, Echouer, Revenir, Ailleurs, Accepter
<1>4. CASE Envoyer(m)
  BY <1>0, <1>4 DEF Envoyer, Accepter, Contrat!Next, Contrat!Envoyer, Contrat!Accepter, Contrat!AvantEnvoi
<1>5. CASE Reussir(m)
  BY <1>0, <1>5 DEF Reussir, Contrat!Next, Contrat!Reussir, Contrat!Envoyes
<1>6. CASE Echouer(m)
  BY <1>0, <1>6 DEF Echouer, Accepter, Contrat!Next, Contrat!Echouer, Contrat!Accepter,
                    Contrat!AvantEnvoi, Contrat!Envoyes
<1>7. CASE Revenir(m)
  BY <1>0, <1>7 DEF Revenir, Contrat!Next, Contrat!Revenir
<1>8. CASE Ailleurs(m)
  BY <1>0, <1>8 DEF Ailleurs, Contrat!Next, Contrat!Ailleurs, Contrat!Envoyes
<1> QED
  BY <1>1, <1>2, <1>3, <1>4, <1>5, <1>6, <1>7, <1>8 DEF Next, Role, Parc

\* TravauxTenus: the roll asks each job of its contract, and fires at no machine twice.
THEOREM Tenus == Spec => TravauxTenus
<1> DEFINE D == \A m \in Machines : Contrat(m)!Init
           P == \A m \in Machines : [Contrat(m)!Next]_(Contrat(m)!vars)
<1>1. Init => D
  BY DEF Init, Contrat!Init
<1>2. RouleInv /\ [Next]_vars => P
  BY PasTravail
<1> HIDE DEF D, P
<1>3. Spec => D /\ [][P]_vars
  BY <1>1, <1>2, Inductif, PTL DEF Spec
<1> QED BY <1>3 DEF D, P, TravauxTenus

\* The roll is ready for all the contract allows: whatever a job or its machine does that
\* Travail does not forbid, at any moment, is a step of the model, so that what holds of
\* the roll holds of it over any module that keeps the contract.
THEOREM ToutAccueilli ==
  ASSUME TypeOK, NEW m \in Machines, Contrat(m)!Next, ~Contrat(m)!Lancer,
         NEW t, NEW e,
         travail' = [travail EXCEPT ![m] = t], etat' = [etat EXCEPT ![m] = e],
         UNCHANGED <<check, role>>
  PROVE  Next
<1>0. /\ travail \in [Machines -> {"aucun", "lance", "derange", "envoye", "presse", "ok", "echec"}]
      /\ etat \in [Machines -> {"running", "redemarre", "arretee"}]
      /\ travail'[m] = t /\ etat'[m] = e
  BY DEF TypeOK
<1>1. t = travail[m] => travail' = travail
  BY <1>0
<1>2. e = etat[m] => etat' = etat
  BY <1>0
<1>3. CASE Contrat(m)!Envoyer
  BY <1>0, <1>3 DEF Contrat!Envoyer, Contrat!Accepter, Contrat!AvantEnvoi, Envoyer, Accepter, Next, Parc
<1>4. CASE Contrat(m)!Echouer
  BY <1>0, <1>2, <1>4 DEF Contrat!Echouer, Contrat!Accepter, Contrat!AvantEnvoi, Contrat!Envoyes,
                          Echouer, Accepter, Next, Parc
<1>5. CASE Contrat(m)!Reussir
  BY <1>0, <1>2, <1>5 DEF Contrat!Reussir, Contrat!Envoyes, Reussir, Next, Parc
<1>6. CASE Contrat(m)!Revenir
  BY <1>0, <1>1, <1>6 DEF Contrat!Revenir, Revenir, Next, Parc
<1>7. CASE Contrat(m)!Ailleurs
  BY <1>0, <1>1, <1>7 DEF Contrat!Ailleurs, Contrat!Envoyes, Ailleurs, Next, Parc
<1> QED BY <1>3, <1>4, <1>5, <1>6, <1>7 DEF Contrat!Next
==============================================================================
