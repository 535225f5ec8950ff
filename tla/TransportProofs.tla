--------------------------- MODULE TransportProofs ---------------------------
(* Proofs about Transport, for any number of replays, any waits and any ceiling. *)
EXTENDS Transport, TLAPS

\* The default wait is one of the declared waits, whatever the turn.
LEMMA AttenteParDefautBornee ==
  ASSUME NEW t \in Nat
  PROVE  AttenteParDefaut(t) \in 0..ATTENTE_MAX
<1>1. Min2(t, Len(ATTENTES) - 1) + 1 \in 1..Len(ATTENTES)
  BY TransportAssumption DEF Min2
<1>2. QED BY <1>1, TransportAssumption DEF AttenteParDefaut

\* A replay after a response never waits more than the ceiling, is never the
\* turn after the last, never of an action, and of a write only after a 429.
LEMMA AttenteAvantReessaiSure ==
  ASSUME NEW p \in Politiques, NEW s \in Statuts, NEW e \in RetryAfters, NEW t \in Nat,
         AttenteAvantReessai(p, s, e, t) # Aucune
  PROVE  /\ AttenteAvantReessai(p, s, e, t) \in 0..ATTENTE_MAX
         /\ t < MAX_REESSAIS
         /\ p # "never"
         /\ p # "safe" => s = TROP_DE_REQUETES
         /\ s >= 400
<1> s \in Int /\ e.valeur \in Int /\ MAX_REESSAIS \in Nat /\ ATTENTE_MAX \in Nat
  BY TransportAssumption
<1>1. AttenteSurRefus(e, t) # Aucune => AttenteSurRefus(e, t) \in 0..ATTENTE_MAX
  BY AttenteParDefautBornee DEF AttenteSurRefus, SecondesDeRetryAfter, Max2, Aucune
<1>2. QED
  BY <1>1, AttenteParDefautBornee DEF AttenteAvantReessai, Aucune

\* The same of a transport failure: only a read is replayed.
LEMMA RejouerApresPanneSur ==
  ASSUME NEW p \in Politiques, NEW t \in Tentatives, RejouerApresPanne(p, t)
  PROVE  p = "safe" /\ t < MAX_REESSAIS
BY TransportAssumption DEF RejouerApresPanne, Tentatives

\* One more wait keeps the sum under one ceiling per turn.
LEMMA SommeDesAttentes ==
  ASSUME NEW d \in Nat, NEW a \in 0..ATTENTE_MAX, NEW t \in Nat, d <= t * ATTENTE_MAX
  PROVE  d + a <= (t + 1) * ATTENTE_MAX
<1>1. (t + 1) * ATTENTE_MAX = t * ATTENTE_MAX + ATTENTE_MAX
  BY TransportAssumption
<1>2. t * ATTENTE_MAX \in Nat
  BY TransportAssumption
<1>3. QED BY <1>1, <1>2, TransportAssumption

LEMMA InvInit == Init => IInv
BY TransportAssumption
   DEF Init, IInv, TypeOK, Tours, Passees, Futures, IssueExacte, Tentatives, Sorts,
       Natures

\* Going to the next turn is allowed by what the two decisions guarantee.
LEMMA InvDormir ==
  ASSUME IInv, pc = "attend", NEW a \in 0..ATTENTE_MAX, tentative < MAX_REESSAIS,
         retry # "never", retry # "safe" => demandes[tentative] = "ecartee",
         Dormir(a)
  PROVE  IInv'
<1> USE TransportAssumption DEF IInv, Dormir
<1>1. tentative' \in Tentatives /\ tentative \in Nat /\ pc' = "envoi"
  BY DEF Tours, Tentatives
<1>2. TypeOK'
  BY <1>1 DEF TypeOK, Tentatives
<1>3. Tours' /\ Passees' /\ Futures'
  BY <1>1 DEF Tours, Passees, Futures, Tentatives
<1>4. IssueExacte'
  BY DEF IssueExacte
<1>5. dormi' <= tentative' * ATTENTE_MAX
  BY <1>1, SommeDesAttentes DEF TypeOK
<1>6. QED BY <1>1, <1>2, <1>3, <1>4, <1>5

LEMMA InvConclure ==
  ASSUME IInv, pc = "attend",
         NEW r \in [nature : Natures, statut : {0} \cup Statuts],
         r.nature = "charge" => demandes[tentative] = "traitee",
         (r.nature = "http" /\ r.statut \notin AMBIGUS) => demandes[tentative] = "ecartee",
         Conclure(r)
  PROVE  IInv'
BY DEF IInv, Conclure, TypeOK, Tours, Passees, Futures, IssueExacte

\* A transmission leaves the wire: only what was in flight changes.
LEMMA InvApi ==
  ASSUME IInv, NEW n \in Tentatives, Traiter(n) \/ Ecarter(n)
  PROVE  IInv'
<1> USE DEF IInv, Traiter, Ecarter
<1>1. TypeOK'
  BY DEF TypeOK, Sorts
<1>2. Tours' /\ Futures'
  BY DEF TypeOK, Tours, Futures
<1>3. Passees'
  BY DEF TypeOK, Passees
<1>4. IssueExacte'
  BY DEF TypeOK, Tours, IssueExacte
<1>5. QED BY <1>1, <1>2, <1>3, <1>4

LEMMA InvRecevoir ==
  ASSUME IInv, NEW s \in Statuts, NEW e \in RetryAfters, NEW l \in BOOLEAN,
         Recevoir(s, e, l)
  PROVE  IInv'
<1> DEFINE a == AttenteAvantReessai(retry, s, e, tentative)
<1> s \in Int /\ tentative \in Tentatives /\ tentative \in Nat /\ retry \in Politiques
  BY TransportAssumption DEF IInv, TypeOK, Tours, Tentatives
<1> pc = "attend" /\ Compatible(s, demandes[tentative])
  BY DEF Recevoir
<1>1. CASE a = Aucune
  <2>1. Conclure(IssueDeLaReponse(s, l))
    BY <1>1 DEF Recevoir
  <2>2. IssueDeLaReponse(s, l)
          \in [nature : Natures, statut : {0} \cup Statuts]
    BY DEF IssueDeLaReponse, Natures
  <2>3. /\ IssueDeLaReponse(s, l).nature = "charge" => s < 400
        /\ IssueDeLaReponse(s, l).nature = "http" => s >= 400
        /\ IssueDeLaReponse(s, l).statut = s
    BY DEF IssueDeLaReponse
  <2>4. QED
    BY <2>1, <2>2, <2>3, InvConclure DEF Compatible, AMBIGUS
<1>2. CASE a # Aucune
  <2>1. Dormir(a)
    BY <1>2 DEF Recevoir
  <2>2. /\ a \in 0..ATTENTE_MAX /\ tentative < MAX_REESSAIS /\ retry # "never"
        /\ (retry # "safe" => s = TROP_DE_REQUETES) /\ s >= 400
    BY <1>2, AttenteAvantReessaiSure
  <2>3. retry # "safe" => demandes[tentative] = "ecartee"
    BY <2>2 DEF Compatible, AMBIGUS, TROP_DE_REQUETES
  <2>4. QED BY <2>1, <2>2, <2>3, InvDormir
<1>3. QED BY <1>1, <1>2

LEMMA InvPanne == ASSUME IInv, Panne PROVE IInv'
<1> tentative \in Tentatives /\ tentative \in Nat /\ retry \in Politiques /\ pc = "attend"
  BY TransportAssumption DEF IInv, TypeOK, Tours, Tentatives, Panne
<1>1. CASE RejouerApresPanne(retry, tentative)
  BY <1>1, RejouerApresPanneSur, AttenteParDefautBornee, InvDormir DEF Panne
<1>2. CASE ~RejouerApresPanne(retry, tentative)
  <2>1. Conclure([nature |-> "transport", statut |-> 0])
    BY <1>2 DEF Panne
  <2>2. QED BY <2>1, InvConclure DEF Natures
<1>3. QED BY <1>1, <1>2

LEMMA InvEmettre == ASSUME IInv, Emettre PROVE IInv'
BY TransportAssumption
   DEF IInv, Emettre, TypeOK, Tours, Passees, Futures, IssueExacte, Sorts, Tentatives

LEMMA InvNext == IInv /\ [Next]_vars => IInv'
<1> SUFFICES ASSUME IInv, [Next]_vars PROVE IInv'
  OBVIOUS
<1>1. CASE Emettre
  BY <1>1, InvEmettre
<1>3. ASSUME NEW s \in Statuts, NEW e \in RetryAfters, NEW l \in BOOLEAN, Recevoir(s, e, l)
      PROVE IInv'
  BY <1>3, InvRecevoir
<1>4. CASE Panne
  BY <1>4, InvPanne
<1>5. CASE Api
  BY <1>5, InvApi DEF Api
<1>6. CASE Repos \/ UNCHANGED vars
  BY <1>6 DEF Repos, vars, IInv, TypeOK, Tours, Passees, Futures, IssueExacte
<1>7. QED BY <1>1, <1>3, <1>4, <1>5, <1>6 DEF Next, Client

\* What the loop knows of its transmissions, at every point of every call.
THEOREM Inductif == Spec => []IInv
BY InvInit, InvNext, PTL DEF Spec

\* The variables of one API call keep their types.
THEOREM TypeCorrect == Spec => []TypeOK
<1>1. IInv => TypeOK
  BY DEF IInv
<1>2. QED BY <1>1, Inductif, PTL

\* No write is applied twice by the retries of _send: all the transmissions
\* behind the current one were dropped, none is ahead of it.
THEOREM UneFois == Spec => []AuPlusUneFois
<1>1. IInv => AuPlusUneFois
  <2> SUFFICES ASSUME IInv, retry # "safe", NEW m \in Appliquees \cup EnVol
               PROVE  m = tentative
    BY DEF AuPlusUneFois
  <2>1. m \in Int /\ tentative \in Int /\ demandes[m] \in {"traitee", "en_vol"}
    BY TransportAssumption DEF IInv, Tours, Tentatives, Appliquees, EnVol
  <2>2. ~(m < tentative) /\ ~(m > tentative)
    BY <2>1 DEF IInv, Passees, Futures, Appliquees, EnVol
  <2>3. QED BY <2>1, <2>2
<1>2. QED BY <1>1, Inductif, PTL

\* A write answered by a refusal had no effect and will have none.
THEOREM Refus == Spec => []RefusSansEffet
<1>1. IInv => RefusSansEffet
  <2> SUFFICES ASSUME IInv, retry # "safe", issue.nature = "http",
                      issue.statut \notin AMBIGUS, NEW m \in Appliquees \cup EnVol
               PROVE  FALSE
    BY DEF RefusSansEffet
  <2>1. m \in Int /\ tentative \in Int /\ demandes[m] \in {"traitee", "en_vol"}
    BY TransportAssumption DEF IInv, Tours, Tentatives, Appliquees, EnVol
  <2>2. m = tentative
    BY <2>1 DEF IInv, Passees, Futures, Appliquees, EnVol
  <2>3. QED BY <2>1, <2>2 DEF IInv, IssueExacte
<1>2. QED BY <1>1, Inductif, PTL

\* A payload returned means the write was applied.
THEOREM Succes == Spec => []SuccesApplique
<1>1. IInv => SuccesApplique
  <2> SUFFICES ASSUME IInv, issue.nature = "charge"
               PROVE  tentative \in Appliquees /\ (retry # "safe" => EnVol = {})
    BY DEF SuccesApplique
  <2>1. tentative \in Appliquees
    BY DEF IInv, IssueExacte, Tours, Appliquees
  <2>2. ASSUME retry # "safe", NEW m \in EnVol PROVE FALSE
    <3>1. m \in Int /\ tentative \in Int /\ demandes[m] = "en_vol"
      BY TransportAssumption DEF IInv, Tours, Tentatives, EnVol
    <3>2. ~(m < tentative) /\ ~(m > tentative)
      BY <2>2, <3>1 DEF IInv, Passees, Futures, EnVol
    <3>3. QED BY <3>1, <3>2, <2>1 DEF Appliquees
  <2>3. QED BY <2>1, <2>2
<1>2. QED BY <1>1, Inductif, PTL

\* An action is never transmitted a second time.
THEOREM Jamais == Spec => []ActionJamaisRejouee
<1>1. IInv => ActionJamaisRejouee
  BY TransportAssumption DEF IInv, Tours, Futures, ActionJamaisRejouee, Tentatives
<1>2. QED BY <1>1, Inductif, PTL

\* The unreachable end of the loop is unreachable, and the sleeps are bounded.
THEOREM Bornee == Spec => []BoucleBornee
<1>1. IInv => BoucleBornee
  <2> SUFFICES ASSUME IInv PROVE BoucleBornee
    OBVIOUS
  <2>1. /\ MAX_REESSAIS \in Nat /\ ATTENTE_MAX \in Nat
        /\ tentative \in 0..MAX_REESSAIS /\ dormi \in Nat
    BY TransportAssumption DEF IInv, TypeOK, Tours, Tentatives
  <2>2. tentative * ATTENTE_MAX <= MAX_REESSAIS * ATTENTE_MAX
    BY <2>1
  <2>3. QED BY <2>1, <2>2 DEF IInv, BoucleBornee
<1>2. QED BY <1>1, Inductif, PTL

------------------------------------------------------------------------------
(* Transport implements OneShot. *)

LEMMA ContratInit == Init => Contrat!Init
BY DEF Init, Contrat!Init, Appliquees

LEMMA ContratNext ==
  ASSUME IInv, [Next]_vars
  PROVE  [Contrat!Next]_(Contrat!vars)
<1> DEFINE verdict == IF pc # "fini" THEN "attente"
                      ELSE IF issue.nature = "charge" THEN "fait"
                      ELSE IF issue.nature = "http" /\ issue.statut \notin AMBIGUS THEN "refuse"
                      ELSE "inconnu"
<1> tentative \in Tentatives /\ demandes \in [Tentatives -> Sorts]
  BY DEF IInv, TypeOK, Tours
<1>0. retry # "safe" => \A m \in Appliquees \cup EnVol : m = tentative
  <2> SUFFICES ASSUME retry # "safe", NEW m \in Appliquees \cup EnVol PROVE m = tentative
    OBVIOUS
  <2>1. m \in Int /\ tentative \in Int /\ demandes[m] \in {"traitee", "en_vol"}
    BY TransportAssumption DEF Tentatives, Appliquees, EnVol
  <2>2. ~(m < tentative) /\ ~(m > tentative)
    BY <2>1 DEF IInv, Passees, Futures, Appliquees, EnVol
  <2>3. QED BY <2>1, <2>2
<1>1. CASE Emettre
  <2>1. Appliquees' = Appliquees
    BY <1>1 DEF Emettre, IInv, Futures, Appliquees, Tentatives
  <2>2. QED BY <1>1, <2>1 DEF Emettre, Contrat!vars
<1>3. ASSUME NEW a, Dormir(a), pc = "attend" PROVE UNCHANGED Contrat!vars
  BY <1>3 DEF Dormir, Contrat!vars, Appliquees
<1>4. ASSUME NEW r, Conclure(r), pc = "attend",
             r.nature = "charge" => demandes[tentative] = "traitee",
             (r.nature = "http" /\ r.statut \notin AMBIGUS) => demandes[tentative] = "ecartee"
      PROVE  Contrat!Next
  <2>1. Appliquees' = Appliquees /\ verdict = "attente" /\ issue' = r /\ pc' = "fini"
    BY <1>4 DEF Conclure, Appliquees
  <2>2. verdict' \in {"fait", "refuse", "inconnu"}
    BY <2>1
  <2>3. verdict' = "fait" => Appliquees # {}
    BY <2>1, <1>4 DEF Appliquees
  <2>4. verdict' = "refuse" => retry = "safe" \/ Appliquees = {}
    <3> SUFFICES ASSUME verdict' = "refuse", retry # "safe", Appliquees # {} PROVE FALSE
      OBVIOUS
    <3>1. demandes[tentative] = "ecartee"
      BY <2>1, <1>4
    <3>2. QED BY <3>1, <1>0 DEF Appliquees
  <2>5. UNCHANGED <<retry = "safe", Appliquees>>
    BY <2>1, <1>4 DEF Conclure
  <2>6. \A v \in {"fait", "refuse", "inconnu"} : verdict' = v => Contrat!Conclure(v)
    BY <2>1, <2>3, <2>4, <2>5 DEF Contrat!Conclure
  <2>7. QED BY <2>2, <2>6 DEF Contrat!Next
<1>5. ASSUME NEW s \in Statuts, NEW e \in RetryAfters, NEW l \in BOOLEAN, Recevoir(s, e, l)
      PROVE [Contrat!Next]_(Contrat!vars)
  <2> s \in Int
    BY TransportAssumption
  <2>1. CASE AttenteAvantReessai(retry, s, e, tentative) = Aucune
    <3>1. Conclure(IssueDeLaReponse(s, l)) /\ pc = "attend" /\ Compatible(s, demandes[tentative])
      BY <1>5, <2>1 DEF Recevoir
    <3>2. /\ IssueDeLaReponse(s, l).nature = "charge" => s < 400
          /\ IssueDeLaReponse(s, l).nature = "http" => s >= 400
          /\ IssueDeLaReponse(s, l).statut = s
      BY DEF IssueDeLaReponse
    <3>3. QED BY <3>1, <3>2, <1>4 DEF Compatible, AMBIGUS
  <2>2. CASE AttenteAvantReessai(retry, s, e, tentative) # Aucune
    BY <1>5, <2>2, <1>3 DEF Recevoir
  <2>3. QED BY <2>1, <2>2
<1>6. CASE Panne
  BY <1>6, <1>3, <1>4 DEF Panne
<1>7. ASSUME NEW n \in Tentatives, Traiter(n) PROVE Contrat!Next
  <2>1. n \in EnVol /\ Appliquees' = Appliquees \cup {n} /\ retry' = retry
    BY <1>7 DEF Traiter, EnVol, Appliquees
  <2>2. verdict' = verdict
    BY <1>7 DEF Traiter
  <2>3. retry # "safe" => Appliquees = {} /\ verdict \in {"attente", "inconnu"}
    <3> SUFFICES ASSUME retry # "safe" PROVE Appliquees = {} /\ verdict \in {"attente", "inconnu"}
      OBVIOUS
    <3>1. n = tentative /\ Appliquees = {}
      BY <1>7, <2>1, <1>0 DEF Traiter, Appliquees
    <3>2. QED BY <1>7, <3>1 DEF Traiter, IInv, IssueExacte
  <2>4. QED BY <2>1, <2>2, <2>3 DEF Contrat!Next, Contrat!Appliquer
<1>8. ASSUME NEW n \in Tentatives, Ecarter(n) PROVE UNCHANGED Contrat!vars
  <2>1. Appliquees' = Appliquees
    BY <1>8 DEF Ecarter, Appliquees
  <2>2. QED BY <1>8, <2>1 DEF Ecarter, Contrat!vars
<1>9. CASE Repos \/ UNCHANGED vars
  BY <1>9 DEF Repos, vars, Contrat!vars, Appliquees
<1>10. QED
  BY <1>1, <1>5, <1>6, <1>7, <1>8, <1>9 DEF Next, Client, Api

\* The retries of _send never weaken the contract of a call.
THEOREM Raffine == Spec => RespecteLeContrat
<1>1. Init => Contrat!Init
  BY ContratInit
<1>2. IInv /\ [Next]_vars => [Contrat!Next]_(Contrat!vars)
  BY ContratNext
<1>3. QED BY <1>1, <1>2, Inductif, PTL DEF Spec, RespecteLeContrat, Contrat!Spec
==============================================================================
