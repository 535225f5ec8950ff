----------------------------- MODULE ActionProofs -----------------------------
(***************************************************************************)
(* Proofs about Action, for any set of actions, any waits and any clock    *)
(* bounds: the type invariant, what changed says, the length of a wait,    *)
(* and that a confirmed wait has waited out the effect of the action.      *)
(***************************************************************************)
EXTENDS Action, SequenceTheorems, TLAPS

\* The bounds of the clock are numbers.
LEMMA Bornes ==
  ASSUME TypeOK
  PROVE  /\ Limite \in Nat /\ Limite <= DELAI_PAR_DEFAUT
         /\ Plafond \in Nat /\ Plafond > Limite + INTERVALLE + LectureMax
         /\ INTERVALLE \in Nat \ {0} /\ LectureMax \in Nat /\ horloge \in 0..Plafond
BY ActionAssumption DEF TypeOK, Limite, Plafond

\* Initial states satisfy the inductive invariant.
LEMMA InitIInv == Init => IInv
<1> SUFFICES ASSUME Init PROVE IInv
  OBVIOUS
<1>1. delai \in Nat /\ Limite \in Nat /\ Plafond \in Nat /\ INTERVALLE \in Nat \ {0}
  BY ActionAssumption DEF Init, Limite, Plafond
<1>2. TypeOK
  <2>1. etat \in Etats /\ reste \in Seq(Etats)
    BY ActionAssumption DEF Init
  <2>2. horloge \in 0..Plafond
    BY <1>1 DEF Init
  <2> QED
    BY <2>1, <2>2 DEF Init, TypeOK
<1>3. InvVerdict
  BY ActionAssumption DEF Init, InvVerdict, Verdicts
<1>4. InvHorloge
  BY ActionAssumption DEF Init, InvHorloge, Verdicts
<1> QED
  BY <1>2, <1>3, <1>4 DEF IInv

\* Every step keeps the types.
LEMMA NextTypeOK == TypeOK /\ [Next]_vars => TypeOK'
<1> SUFFICES ASSUME TypeOK, [Next]_vars PROVE TypeOK'
  OBVIOUS
<1> USE DEF TypeOK, Verdicts, tache, machine, attente
<1>1. CASE ClientAbsent
  BY <1>1 DEF ClientAbsent, Sortir
<1>2. CASE Repeter
  BY <1>2 DEF Repeter, Sortir
<1>3. CASE LireAvant
  BY <1>3 DEF LireAvant, Sortir, Rendus
<1>4. CASE Declencher
  <2>1. Chemin[action] \in Seq(Etats)
    BY ActionAssumption
  <2>2. horloge' \in 0..Plafond /\ observe' \in Etats \cup {Aucun}
    BY <1>4, Bornes DEF Declencher, CommencerAAttendre
  <2>4. quitte' \in BOOLEAN
    BY <1>4, Zenon DEF Declencher, CommencerAAttendre
  <2>3. pc' \in {"sonder", "fini"} /\ verdict' \in Verdicts \cup {Aucun}
    BY <1>4 DEF Declencher, Sortir
  <2> QED
    BY <1>4, <2>1, <2>2, <2>3, <2>4 DEF Declencher
<1>5. CASE DeclencherEchoue
  BY <1>5, ActionAssumption DEF DeclencherEchoue, Sortir
<1>6. CASE Sonder
  BY <1>6, Bornes DEF Sonder, Sortir, Avancer, AQuitte, Rendus, Observes
<1>7. CASE SonderEchoue
  BY <1>7 DEF SonderEchoue, Sortir, EchecDeLAttente
<1>8. CASE Dormir
  BY <1>8, Bornes DEF Dormir, Avancer
<1>9. CASE Basculer
  BY <1>9 DEF Basculer
<1>10. CASE UNCHANGED vars
  BY <1>10 DEF vars
<1>11. CASE Ailleurs
  BY <1>11 DEF Ailleurs
<1> QED
  BY <1>1, <1>2, <1>3, <1>4, <1>5, <1>6, <1>7, <1>8, <1>9, <1>10, <1>11 DEF Next, Module, Repos

\* Every step keeps what is known of the verdict.
LEMMA NextVerdict == TypeOK /\ InvVerdict /\ [Next]_vars => InvVerdict'
<1> SUFFICES ASSUME TypeOK /\ InvVerdict, [Next]_vars PROVE InvVerdict'
  OBVIOUS
<1> USE DEF TypeOK, InvVerdict, Attente, Verdicts, tache, machine, attente
<1>1. CASE ClientAbsent
  BY <1>1 DEF ClientAbsent, Sortir
<1>2. CASE Repeter
  BY <1>2 DEF Repeter, Sortir
<1>3. CASE LireAvant
  BY <1>3 DEF LireAvant, Sortir
<1>4. CASE Declencher
  BY <1>4 DEF Declencher, Sortir
<1>5. CASE DeclencherEchoue
  BY <1>5 DEF DeclencherEchoue, Sortir
<1>6. CASE Sonder
  BY <1>6 DEF Sonder, Sortir
<1>7. CASE SonderEchoue
  BY <1>7 DEF SonderEchoue, Sortir, EchecDeLAttente
<1>8. CASE Dormir
  BY <1>8 DEF Dormir
<1>9. CASE Basculer
  BY <1>9 DEF Basculer
<1>10. CASE UNCHANGED vars
  BY <1>10 DEF vars
<1>11. CASE Ailleurs
  BY <1>11 DEF Ailleurs
<1> QED
  BY <1>1, <1>2, <1>3, <1>4, <1>5, <1>6, <1>7, <1>8, <1>9, <1>10, <1>11 DEF Next, Module, Repos

\* Every step keeps what is known of the clock.
LEMMA NextHorloge == TypeOK /\ InvVerdict /\ InvHorloge /\ [Next]_vars => InvHorloge'
<1> SUFFICES ASSUME TypeOK /\ InvVerdict /\ InvHorloge, [Next]_vars PROVE InvHorloge'
  OBVIOUS
<1> USE DEF InvHorloge, Limite, tache, machine, attente
<1>1. CASE ClientAbsent
  BY <1>1, Bornes DEF ClientAbsent, Sortir
<1>2. CASE Repeter
  BY <1>2, Bornes DEF Repeter, Sortir
<1>3. CASE LireAvant
  BY <1>3, Bornes DEF LireAvant, Sortir
<1>4. CASE Declencher
  BY <1>4, Bornes DEF Declencher, Sortir, CommencerAAttendre
<1>5. CASE DeclencherEchoue
  BY <1>5, Bornes DEF DeclencherEchoue, Sortir
<1>6. CASE Sonder
  BY <1>6, Bornes DEF Sonder, Sortir, Expiree, Avancer
<1>7. CASE SonderEchoue
  BY <1>7, Bornes DEF SonderEchoue, Sortir, EchecDeLAttente
<1>8. CASE Dormir
  BY <1>8, Bornes DEF Dormir, Avancer
<1>9. CASE Basculer
  BY <1>9 DEF Basculer
<1>10. CASE UNCHANGED vars
  BY <1>10 DEF vars
<1>11. CASE Ailleurs
  BY <1>11 DEF Ailleurs
<1> QED
  BY <1>1, <1>2, <1>3, <1>4, <1>5, <1>6, <1>7, <1>8, <1>9, <1>10, <1>11 DEF Next, Module, Repos

\* Every step of a module or of the machine keeps the inductive invariant.
LEMMA NextIInv == IInv /\ [Next]_vars => IInv'
BY NextTypeOK, NextVerdict, NextHorloge DEF IInv

\* The inductive invariant of an action module.
THEOREM Inductif == Spec => []IInv
  BY InitIInv, NextIInv, PTL DEF Spec

\* What changed says is true of the machine, whatever fails and in check mode too.
THEOREM Changed == Spec => []ChangedExact
<1>1. IInv => ChangedExact
  BY DEF IInv, TypeOK, InvVerdict, InvHorloge, ChangedExact, Fini
<1> QED
  BY <1>1, Inductif, PTL

\* A wait ends within its limit plus one pause and one read, for any of them, and one
\* that fails for want of time has had all of it.
THEOREM Bornee == Spec => []AttenteBornee
<1>1. IInv => AttenteBornee
  BY Bornes DEF IInv, InvVerdict, InvHorloge, AttenteBornee, TypeOK, Limite
<1> QED
  BY <1>1, Inductif, PTL

------------------------------------------------------------------------------
(* The faithful wait. *)

\* What is left of a path leads to the same state as the path.
LEMMA MeneALaSuite ==
  ASSUME NEW s \in Seq(Etats), NEW v, s # <<>>, MeneA(s, v)
  PROVE  /\ MeneA(Tail(s), v)
         /\ Head(s) = v <=> Tail(s) = <<>>
<1> DEFINE t == Tail(s)
<1>1. /\ Len(s) \in Nat \ {0} /\ t \in Seq(Etats) /\ Len(t) = Len(s) - 1
      /\ \A i \in 1..Len(t) : t[i] = s[i + 1]
      /\ Head(s) = s[1]
  OBVIOUS
<1>2. s[Len(s)] = v /\ \A i \in 1..(Len(s) - 1) : s[i] # v
  BY DEF MeneA
<1>3. t = <<>> <=> Len(s) = 1
  <2>1. t = <<>> <=> Len(t) = 0
    BY <1>1, EmptySeq
  <2> QED
    BY <1>1, <2>1
<1>4. MeneA(t, v)
  BY <1>1, <1>2 DEF MeneA
<1>5. Head(s) = v <=> t = <<>>
  BY <1>1, <1>2, <1>3
<1> QED
  BY <1>4, <1>5

\* A machine that has not been asked anything is where its departure says.
LEMMA InitFidele == MachineFidele /\ Init => InvFidele
  BY ActionAssumption DEF Init, MachineFidele, InvFidele, Verdicts

\* Every step keeps the faithful wait, given a faithful machine.
LEMMA NextFidele == MachineFidele /\ IInv /\ InvFidele /\ [Next]_vars => InvFidele'
<1> SUFFICES ASSUME MachineFidele, IInv, InvFidele, [Next]_vars PROVE InvFidele'
  OBVIOUS
<1> USE DEF InvFidele, tache, machine, attente, Attente
<1>0. TypeOK /\ InvVerdict
  BY DEF IInv
<1>1. CASE ClientAbsent
  BY <1>0, <1>1 DEF ClientAbsent, Sortir, InvVerdict
<1>2. CASE Repeter
  BY <1>0, <1>2 DEF Repeter, Sortir, InvVerdict
<1>3. CASE LireAvant
  BY <1>0, <1>3 DEF LireAvant, Sortir, InvVerdict, Rendus, MachineFidele
<1>4. CASE Declencher
  BY <1>0, <1>4 DEF Declencher, Sortir, CommencerAAttendre, DoitQuitter, MachineFidele,
                    InvVerdict, TypeOK
<1>5. CASE DeclencherEchoue
  BY <1>0, <1>5 DEF DeclencherEchoue, Sortir, MachineFidele, InvVerdict, TypeOK
<1>6. CASE Sonder
  <2>1. PICK d \in 0..LectureMax, vu \in UNION {Observes(lu) : lu \in Rendus(etat)} :
          /\ quitte' = AQuitte(vu)
          /\ IF AQuitte(vu) /\ vu = Vise[action]
               THEN Sortir("confirme")
             ELSE IF Expiree(horloge') THEN Sortir("expire")
             ELSE pc' = "pause" /\ UNCHANGED verdict
    BY <1>6 DEF Sonder
  <2>2. vu = etat
    <3>1. Rendus(etat) = {etat}
      BY DEF Rendus, MachineFidele
    <3>2. Observes(etat) = {etat}
      BY <1>0, ActionAssumption DEF Observes, TypeOK
    <3> QED
      BY <3>1, <3>2
  <2>3. /\ pc = "sonder" /\ partie /\ Attente /\ verdict = Aucun
        /\ UNCHANGED <<action, wait, lisible, etat, reste, depart, partie, derangee>>
    BY <1>0, <1>6 DEF Sonder, InvVerdict
  <2>4. AQuitte(vu) /\ vu = Vise[action] =>
          reste = <<>> \/ (derangee /\ depart # Vise[action] /\ Vise[action] \in Acceptes[action])
    BY <2>2, <2>3 DEF AQuitte
  <2>5. etat = Vise[action] /\ reste # <<>> =>
          /\ Vise[action] \in Acceptes[action]
          /\ IF depart = Vise[action] THEN ~quitte' ELSE derangee
    BY <2>1, <2>2, <2>3 DEF AQuitte
  <2>6. verdict' = "confirme" => pc' = "fini" /\ AQuitte(vu) /\ vu = Vise[action]
    BY <2>1, <2>3, ActionAssumption DEF Sortir, Verdicts
  <2>7. pc' # "declencher"
    BY <2>1 DEF Sortir
  <2> QED
    BY <2>2, <2>3, <2>4, <2>5, <2>6, <2>7
<1>7. CASE SonderEchoue
  BY <1>0, <1>7 DEF SonderEchoue, Sortir, EchecDeLAttente, InvVerdict
<1>8. CASE Dormir
  BY <1>0, <1>8 DEF Dormir, InvVerdict
<1>9. CASE Basculer
  <2>1. /\ reste # <<>> /\ reste \in Seq(Etats) /\ partie
        /\ etat' = Head(reste) /\ reste' = Tail(reste)
        /\ UNCHANGED <<action, wait, lisible, pc, quitte, depart, verdict, partie, derangee>>
    BY <1>0, <1>9 DEF Basculer, TypeOK
  <2>2. Attente => /\ MeneA(reste', Vise[action])
                   /\ etat' = Vise[action] <=> reste' = <<>>
    BY <2>1, MeneALaSuite
  <2>3. pc # "declencher"
    BY <1>0, <2>1 DEF InvVerdict
  <2>4. pc \in {"sonder", "pause"} => Attente
    BY <1>0 DEF InvVerdict
  <2> QED
    BY <2>1, <2>2, <2>3, <2>4
<1>10. CASE UNCHANGED vars
  BY <1>10 DEF vars
<1>11. CASE Ailleurs
  BY <1>0, <1>11 DEF Ailleurs, InvVerdict, TypeOK
<1> QED
  BY <1>1, <1>2, <1>3, <1>4, <1>5, <1>6, <1>7, <1>8, <1>9, <1>10, <1>11 DEF Next, Module, Repos

\* A confirmed wait has waited out the whole effect of its action, for any path
\* that ends in the state aimed at and does not go through it before.
THEOREM Fidele == MachineFidele /\ Spec => []AttenteFidele
<1>1. IInv /\ InvFidele => AttenteFidele
  BY DEF InvFidele, AttenteFidele, Fini
<1>2. ASSUME MachineFidele PROVE Spec => []InvFidele
  <2>1. Init => InvFidele
    BY <1>2, InitFidele
  <2>2. IInv /\ InvFidele /\ [Next]_vars => InvFidele'
    BY <1>2, NextFidele
  <2> QED
    BY <2>1, <2>2, Inductif, PTL DEF Spec
<1>3. ASSUME MachineFidele PROVE Spec => []AttenteFidele
  BY <1>1, <1>2, <1>3, Inductif, PTL
<1> QED
  BY <1>3

------------------------------------------------------------------------------
(* An action module implements the contract of the tasks a role waits for. *)

\* A task does not change while it runs.
LEMMA MemeTache ==
  ASSUME [Next]_vars
  PROVE  UNCHANGED <<action, wait, check, lisible, delai>>
BY DEF Next, Module, ClientAbsent, Repeter, LireAvant, Declencher, DeclencherEchoue, Sonder,
       SonderEchoue, Dormir, Basculer, Ailleurs, Repos, vars, tache

\* The contract starts with the task on its way and the machine at rest.
LEMMA PromesseDepart ==
  ASSUME MachineFidele, Init, NEW a \in Attendables
  PROVE  Promesse(a)!Init
<1>1. reste = <<>> /\ etat \in Etats /\ pc = "debut" /\ ~derangee
  BY ActionAssumption DEF Init, MachineFidele
<1>2. Vise[a] \in Etats
  BY ActionAssumption DEF Attendables
<1> QED BY <1>1, <1>2 DEF Promesse!Init, EtatDuTravail, MachineDuTravail

\* Every step of the module, of the machine and of anybody else is one of the contract,
\* or one the contract does not see.
LEMMA PromessePas ==
  ASSUME MachineFidele, IInv, InvFidele, InvFidele', [Next]_vars, NEW a \in Attendables
  PROVE  [Promesse(a)!Next]_(Promesse(a)!vars)
<1> DEFINE T == EtatDuTravail(a)
           M == MachineDuTravail(a)
<1>0. /\ TypeOK /\ InvVerdict /\ UNCHANGED <<action, wait, check, lisible, delai>>
      /\ Concerne(a)' = Concerne(a)
  BY MemeTache DEF IInv, Concerne, Attente
<1>1. CASE ~Concerne(a)
  BY <1>0, <1>1 DEF EtatDuTravail, MachineDuTravail, Promesse!vars
<1>2. CASE Concerne(a)
  <2>0. /\ action = a /\ Attente /\ ~check /\ Aucun \notin Etats /\ Vise[a] # Aucun
        /\ Chemin[a] # <<>>
    BY <1>2, ActionAssumption DEF Concerne, Attendables, MachineFidele
  <2> DEFINE Avant == pc \in {"debut", "declencher"}
             Pendant == pc \in {"sonder", "pause"}
             Douteux == derangee /\ Vise[a] \in Acceptes[a]
  <2>1. /\ T = IF Avant THEN IF derangee THEN "derange" ELSE "lance"
                ELSE IF Pendant THEN IF Douteux THEN "presse" ELSE "envoye"
                ELSE IF verdict = "confirme" THEN "ok" ELSE "echec"
        /\ M = IF reste = <<>> THEN etat ELSE Aucun
    BY <1>2 DEF EtatDuTravail, MachineDuTravail
  <2>2. /\ T' = IF Avant' THEN IF derangee' THEN "derange" ELSE "lance"
                 ELSE IF Pendant' THEN IF Douteux' THEN "presse" ELSE "envoye"
                 ELSE IF verdict' = "confirme" THEN "ok" ELSE "echec"
        /\ M' = IF reste' = <<>> THEN etat' ELSE Aucun
    BY <1>0, <1>2 DEF EtatDuTravail, MachineDuTravail
  <2> HIDE DEF T, M
  <2> USE DEF tache, machine, attente
  <2>3. /\ Avant => reste = <<>> /\ M = etat /\ M \in Etats
        /\ etat \in Etats /\ derangee \in BOOLEAN
    BY <1>0, <2>1 DEF InvVerdict, InvFidele, TypeOK
  <2>4. ASSUME UNCHANGED <<T, M>> PROVE [Promesse(a)!Next]_(Promesse(a)!vars)
    BY <2>4 DEF T, M, Promesse!vars
  <2>5. CASE ClientAbsent \/ Repeter \/ SonderEchoue
    <3>1. /\ Avant \/ Pendant
          /\ ~Avant' /\ ~Pendant' /\ verdict' # "confirme" /\ M' = M
      BY <2>0, <2>1, <2>2, <2>5 DEF ClientAbsent, Repeter, SonderEchoue, Sortir, EchecDeLAttente
    <3> QED BY <2>1, <2>2, <3>1 DEF T, M, Promesse!Next, Promesse!Echouer, Promesse!AvantEnvoi, Promesse!Envoyes
  <2>6. CASE LireAvant
    <3>1. Avant /\ M' = M /\ derangee' = derangee
      BY <2>1, <2>2, <2>6 DEF LireAvant
    <3>2. CASE pc' = "declencher"
      BY <2>1, <2>2, <2>4, <3>1, <3>2
    <3>3. CASE pc' # "declencher"
      <4>1. ~Avant' /\ ~Pendant' /\ verdict' # "confirme"
        BY <2>6, <3>3 DEF LireAvant, Sortir
      <4> QED BY <2>1, <2>2, <3>1, <4>1 DEF T, M, Promesse!Next, Promesse!Echouer, Promesse!AvantEnvoi, Promesse!Envoyes
    <3> QED BY <3>2, <3>3
  <2>7. CASE Declencher
    <3>1. /\ Avant /\ ~Avant' /\ Pendant' /\ derangee' = derangee
          /\ etat \in Acceptes[a] /\ reste' = Chemin[a] /\ reste' # <<>>
      BY <1>0, <2>0, <2>7 DEF Declencher
    <3>2. M \in Acceptes[a] /\ M' = Aucun
      BY <2>2, <2>3, <3>1
    <3>3. T' = IF T = "derange" /\ Vise[a] \in Acceptes[a] THEN "presse" ELSE "envoye"
      BY <2>1, <2>2, <2>3, <3>1
    <3>4. T \in {"lance", "derange"}
      BY <2>1, <3>1
    <3> QED BY <3>2, <3>3, <3>4 DEF T, M, Promesse!Next, Promesse!Envoyer, Promesse!Accepter, Promesse!AvantEnvoi
  <2>8. CASE DeclencherEchoue
    <3>1. /\ Avant /\ ~Avant' /\ ~Pendant' /\ verdict' # "confirme" /\ etat' = etat
          /\ \/ reste' = reste
             \/ etat \in Acceptes[a] /\ reste' = Chemin[a] /\ reste' # <<>>
      BY <1>0, <2>0, <2>8 DEF DeclencherEchoue, Sortir
    <3>2. M' = M \/ (M \in Acceptes[a] /\ M' = Aucun)
      BY <2>1, <2>2, <2>3, <3>1
    <3>3. T \in {"lance", "derange"} /\ T' = "echec"
      BY <2>1, <2>2, <3>1
    <3> QED BY <3>2, <3>3 DEF T, M, Promesse!Next, Promesse!Echouer, Promesse!Accepter, Promesse!AvantEnvoi, Promesse!Envoyes
  <2>9. CASE Sonder
    <3>1. /\ Pendant /\ M' = M /\ derangee' = derangee /\ UNCHANGED <<etat, reste, depart>>
          /\ ~Avant' /\ (Pendant' \/ pc' = "fini")
      BY <2>1, <2>2, <2>9 DEF Sonder, Sortir
    <3>2. CASE Pendant'
      BY <1>0, <2>1, <2>2, <2>4, <3>1, <3>2
    <3>3. CASE ~Pendant' /\ verdict' # "confirme"
      BY <2>1, <2>2, <3>1, <3>3 DEF T, M, Promesse!Next, Promesse!Echouer, Promesse!AvantEnvoi, Promesse!Envoyes
    <3>4. CASE ~Pendant' /\ verdict' = "confirme"
      <4>1. partie' /\ (reste' = <<>> \/ (derangee' /\ Vise[a] \in Acceptes[a]))
        BY <1>0, <2>0, <3>4 DEF InvFidele
      <4>2. partie' /\ Attente' => (reste' = <<>> => etat' = Vise[a])
        BY <1>0, <2>0 DEF InvFidele
      <4>3. reste' = <<>> => etat' = Vise[a]
        BY <1>0, <2>0, <4>1, <4>2 DEF Attente
      <4>4. T \in {"envoye", "presse"} /\ (T = "envoye" => M = Vise[a]) /\ T' = "ok"
        BY <2>1, <2>2, <3>1, <3>4, <4>1, <4>3
      <4> QED BY <3>1, <4>4 DEF T, M, Promesse!Next, Promesse!Reussir, Promesse!Envoyes
    <3> QED BY <3>2, <3>3, <3>4
  <2>10. CASE Dormir
    BY <1>0, <2>1, <2>2, <2>4, <2>10 DEF Dormir
  <2>11. CASE Basculer
    <3>1. /\ reste # <<>> /\ ~Avant /\ UNCHANGED <<pc, verdict, derangee>> /\ M = Aucun
      BY <2>1, <2>3, <2>11 DEF Basculer
    <3>2. T' = T
      BY <1>0, <2>1, <2>2, <3>1
    <3>3. CASE reste' # <<>>
      BY <2>2, <2>4, <3>1, <3>2, <3>3
    <3>4. CASE reste' = <<>>
      <4>1. partie' /\ Attente'
        BY <1>0, <2>0, <2>11 DEF Basculer, InvFidele, Attente
      <4>2. etat' = Vise[a]
        BY <1>0, <2>0, <3>4, <4>1 DEF InvFidele
      <4> QED BY <2>2, <3>1, <3>2, <3>4, <4>2 DEF T, M, Promesse!Next, Promesse!Revenir
    <3> QED BY <3>3, <3>4
  <2>12. CASE Ailleurs
    <3>1. /\ Avant /\ Avant' /\ reste = <<>> /\ reste' = <<>> /\ derangee'
          /\ etat' \in Etats \ {etat}
      BY <2>12 DEF Ailleurs
    <3>2. /\ M # Aucun /\ M' \in Etats \ {M} /\ T \in {"lance", "derange"} /\ T' = "derange"
      BY <2>0, <2>1, <2>2, <2>3, <3>1
    <3> QED BY <3>2 DEF T, M, Promesse!Next, Promesse!Ailleurs, Promesse!Envoyes
  <2>13. CASE UNCHANGED vars
    BY <1>0, <2>1, <2>2, <2>4, <2>13 DEF vars
  <2> QED
    BY <2>5, <2>6, <2>7, <2>8, <2>9, <2>10, <2>11, <2>12, <2>13 DEF Next, Module, Repos
<1> QED BY <1>1, <1>2

\* A task that waits keeps its promise to the role that asked for it.
THEOREM Promet == ASSUME MachineFidele PROVE Spec => RespecteLaPromesse
<1>1. Init => InvFidele /\ \A a \in Attendables : Promesse(a)!Init
  BY InitFidele, PromesseDepart
<1>2. IInv /\ InvFidele /\ [Next]_vars => InvFidele'
  BY NextFidele
<1>3. IInv /\ InvFidele /\ InvFidele' /\ [Next]_vars =>
        \A a \in Attendables : [Promesse(a)!Next]_(Promesse(a)!vars)
  BY PromessePas
<1> QED
  <2> DEFINE Depart == \A a \in Attendables : Promesse(a)!Init
             Pas == \A a \in Attendables : [Promesse(a)!Next]_(Promesse(a)!vars)
  <2>1. Init => Depart
    BY <1>1
  <2>2. IInv /\ InvFidele /\ InvFidele' /\ [Next]_vars => Pas
    BY <1>3
  <2>3. Init => InvFidele
    BY <1>1
  <2> HIDE DEF Depart, Pas
  <2>4. Spec => Depart /\ [][Pas]_vars
    BY <1>2, <2>1, <2>2, <2>3, Inductif, PTL DEF Spec
  <2> QED BY <2>4 DEF Depart, Pas, RespecteLaPromesse
==============================================================================
