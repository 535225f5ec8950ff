-------------------------- MODULE PaginationProofs ---------------------------
(***************************************************************************)
(* A collection that keeps still, and whose last page can be told, is      *)
(* returned whole or an error says why not, for every size of page, of     *)
(* collection and of count.                                                *)
(***************************************************************************)
EXTENDS Resolution, FiniteSetTheorems, TLAPS

\* What one page of a sequence adds to what comes before it.
LEMMA Raccord ==
  ASSUME NEW S, NEW s \in Seq(S), NEW a \in 0..Len(s), NEW b \in a..Len(s)
  PROVE  SubSeq(s, 1, a) \o SubSeq(s, a + 1, b) = SubSeq(s, 1, b)
<1> DEFINE u == SubSeq(s, 1, a)
           v == SubSeq(s, a + 1, b)
           w == SubSeq(s, 1, b)
<1>1. /\ u \in Seq(S) /\ Len(u) = a /\ \A i \in 1..a : u[i] = s[i]
      /\ v \in Seq(S) /\ Len(v) = b - a /\ \A i \in 1..(b - a) : v[i] = s[a + i]
      /\ w \in Seq(S) /\ Len(w) = b /\ \A i \in 1..b : w[i] = s[i]
  OBVIOUS
<1>2. /\ u \o v \in Seq(S) /\ Len(u \o v) = b
      /\ \A i \in 1..b : (u \o v)[i] = w[i]
  <2> HIDE DEF u, v, w
  <2> QED BY <1>1
<1> HIDE DEF u, v, w
<1>3. u \o v = w
  BY <1>1, <1>2
<1> QED BY <1>3 DEF u, v, w

\* The bounds of page p, and the place of the next one.
LEMMA Bornes ==
  ASSUME NEW n \in Nat, NEW t \in Nat \ {0}, NEW p \in Nat \ {0}
  PROVE  /\ Min2((p - 1) * t, n) \in 0..n
         /\ Min2(p * t, n) \in Min2((p - 1) * t, n)..n
         /\ Min2(p * t, n) \in 0..n
         /\ (p - 1) * t \in Nat /\ p * t = (p - 1) * t + t
<1>1. (p - 1) * t \in Nat /\ p * t = (p - 1) * t + t
  OBVIOUS
<1>2. PICK x \in Nat, y \in Nat : x = (p - 1) * t /\ y = p * t /\ y = x + t
  BY <1>1
<1> QED BY <1>1, <1>2 DEF Min2

\* A page shorter than the API serves is the last one.
LEMMA PageCourte ==
  ASSUME NEW n \in Nat, NEW t \in Nat \ {0}, NEW x \in Nat,
         Min2(x + t, n) - Min2(x, n) < t
  PROVE  Min2(x + t, n) = n
BY DEF Min2

\* What the length of one page says of the list, whatever was gathered before it.
LEMMA UnePage ==
  ASSUME NEW n \in Nat, NEW t \in Nat \ {0}, NEW x \in Nat, NEW l \in Nat,
         l = Min2(x + t, n) - Min2(x, n)
  PROVE  /\ \A i \in Nat : i >= x /\ i + l < n => i + l >= x + t
         /\ \A i \in Nat : i >= x /\ l = 0 => i >= n
         /\ l > 0 => n > x
BY DEF Min2

LEMMA DepartType == Init => TypeOK
<1> SUFFICES ASSUME Init PROVE TypeOK
  OBVIOUS
<1>1. liste \in Seq(Elements)
  BY DEF Init, Listes
<1> QED BY <1>1, PaginationAssumption DEF Init, TypeOK, Issues

LEMMA PasType == TypeOK /\ [Next]_vars => TypeOK'
<1> SUFFICES ASSUME TypeOK, [Next]_vars PROVE TypeOK'
  OBVIOUS
<1>1. CASE LirePage
  <2>1. Page(page) \in Seq(Elements)
    <3>1. Len(liste) \in Nat /\ taille \in Nat \ {0} /\ page \in Nat \ {0}
      BY PaginationAssumption DEF TypeOK
    <3>2. /\ Min2((page - 1) * taille, Len(liste)) \in 0..Len(liste)
          /\ Min2(page * taille, Len(liste)) \in 0..Len(liste)
      BY <3>1, Bornes
    <3> QED BY <3>1, <3>2 DEF TypeOK, Page
  <2>2. items' \in Seq(Elements)
    BY <1>1, <2>1 DEF LirePage, TypeOK
  <2>3. issue' \in Issues
    BY <1>1 DEF LirePage, Issues
  <2>4. page' \in 1..MaxPages
    <3>1. CASE issue' = "en_cours"
      <4>1. page # MaxPages /\ page' = page + 1
        BY <1>1, <3>1 DEF LirePage, Epuisee, PageSuivante
      <4> QED BY <4>1, PaginationAssumption DEF TypeOK
    <3>2. CASE issue' # "en_cours"
      BY <1>1, <3>2 DEF LirePage, TypeOK
    <3> QED BY <3>1, <3>2
  <2> QED BY <1>1, <2>2, <2>3, <2>4 DEF LirePage, TypeOK, api
<1>2. CASE PageEnErreur
  BY <1>2 DEF PageEnErreur, TypeOK, Issues, api
<1>3. CASE Retirer
  <2>1. PICK k \in 1..Len(liste) :
          liste' = SubSeq(liste, 1, k - 1) \o SubSeq(liste, k + 1, Len(liste))
    BY <1>3 DEF Retirer, RemoveAt
  <2>2. SubSeq(liste, 1, k - 1) \in Seq(Elements) /\ SubSeq(liste, k + 1, Len(liste)) \in Seq(Elements)
    BY DEF TypeOK
  <2>3. liste' \in Seq(Elements)
    BY <2>1, <2>2
  <2> QED BY <1>3, <2>1, <2>3 DEF Retirer, TypeOK
<1>4. CASE UNCHANGED vars
  BY <1>4 DEF vars, api, TypeOK
<1> QED BY <1>1, <1>2, <1>3, <1>4 DEF Next, Repos

\* TypeOK: the state of the read keeps its type, whatever the collection does.
THEOREM TypeCorrect == Spec => []TypeOK
  BY DepartType, PasType, PTL DEF Spec

LEMMA DepartPages == Init => InvPages
<1> SUFFICES ASSUME Init PROVE InvPages
  OBVIOUS
<1>1. liste \in Seq(Elements) /\ taille \in Nat \ {0}
  BY PaginationAssumption DEF Init, Listes
<1>2. Lus(1) = 0
  BY <1>1 DEF Lus, Min2
<1>3. SubSeq(liste, 1, 0) = <<>>
  BY <1>1
<1> QED BY <1>2, <1>3 DEF Init, InvPages, ListeComplete

LEMMA PasPages == TypeOK /\ InvPages /\ [Next]_vars => InvPages'
<1> SUFFICES ASSUME TypeOK, InvPages, [Next]_vars PROVE InvPages'
  OBVIOUS
<1>1. CASE LirePage
  <2> DEFINE lot == Page(page)
             n == Len(liste)
             a == Lus(page)
             b == Min2(page * taille, n)
  <2>1. n \in Nat /\ taille \in Nat \ {0} /\ page \in Nat \ {0} /\ liste \in Seq(Elements)
    BY PaginationAssumption DEF TypeOK
  <2>2. /\ a \in 0..n /\ b \in a..n
        /\ (page - 1) * taille \in Nat /\ page * taille = (page - 1) * taille + taille
    BY <2>1, Bornes DEF Lus
  <2>3. ~mobile => items' = SubSeq(liste, 1, b) /\ lot = SubSeq(liste, a + 1, b)
    <3> SUFFICES ASSUME ~mobile PROVE items' = SubSeq(liste, 1, b) /\ lot = SubSeq(liste, a + 1, b)
      OBVIOUS
    <3>1. items' = SubSeq(liste, 1, a) \o SubSeq(liste, a + 1, b) /\ lot = SubSeq(liste, a + 1, b)
      BY <1>1 DEF LirePage, InvPages, Lus, Page
    <3> QED BY <2>1, <2>2, <3>1, Raccord
  <2>4. ~mobile => Len(items') = b /\ Len(lot) = b - a
    BY <2>1, <2>2, <2>3
  <2>5. liste' = liste /\ taille' = taille /\ avecTotal' = avecTotal /\ exces' = exces
        /\ mobile' = mobile
    BY <1>1 DEF LirePage, api
  <2>6. ASSUME ~mobile, issue' = "en_cours" PROVE items' = SubSeq(liste', 1, Lus(page)')
    <3>1. page' = page + 1
      BY <1>1, <2>6 DEF LirePage, PageSuivante
    <3>2. Lus(page)' = b
      BY <2>1, <2>5, <3>1 DEF Lus
    <3> QED BY <2>3, <2>5, <2>6, <3>2
  <2>7. ASSUME ~mobile, Distinguable, issue' = "rendue" PROVE items' = liste'
    <3>1. Complete(items', lot)
      BY <1>1, <2>7 DEF LirePage
    <3>2. b = n
      <4>1. CASE avecTotal
        <5>1. b >= n + exces /\ exces \in Nat
          BY <2>4, <2>7, <3>1, <4>1, PaginationAssumption DEF Complete, Annonce, TypeOK
        <5> QED BY <2>1, <2>2, <5>1
      <4>2. CASE ~avecTotal
        <5>1. b - a < PerPage /\ PerPage <= taille
          BY <2>1, <2>4, <2>7, <3>1, <4>2, PaginationAssumption DEF Complete, Distinguable
        <5>2. b - a < taille
          BY <2>1, <2>2, <5>1, PaginationAssumption
        <5>3. a = Min2((page - 1) * taille, n) /\ b = Min2((page - 1) * taille + taille, n)
          BY <2>2 DEF Lus
        <5> HIDE DEF a, b, n
        <5> QED BY <2>1, <2>2, <5>2, <5>3, PageCourte
      <4> QED BY <4>1, <4>2
    <3>3. SubSeq(liste, 1, n) = liste
      BY <2>1
    <3> QED BY <2>3, <2>5, <2>7, <3>2, <3>3
  <2> QED BY <2>5, <2>6, <2>7 DEF InvPages, ListeComplete, Distinguable
<1>2. CASE PageEnErreur
  BY <1>2 DEF PageEnErreur, InvPages, ListeComplete, api
<1>3. CASE Retirer
  BY <1>3 DEF Retirer, InvPages, ListeComplete
<1>4. CASE UNCHANGED vars
  BY <1>4 DEF vars, api, InvPages, ListeComplete, Distinguable, Lus
<1> QED BY <1>1, <1>2, <1>3, <1>4 DEF Next, Repos

\* IInv: on a collection that keeps still, what was gathered is the first pages.
THEOREM Inductif == Spec => []IInv
  BY DepartPages, PasPages, TypeCorrect, PTL DEF Spec, IInv

\* ListeComplete: a list that is returned is the whole collection, when a count comes
\* with it or the API does not cap its pages below the size asked for.
THEOREM Complet == Spec => []ListeComplete
<1>1. IInv => ListeComplete
  BY DEF IInv, InvPages
<1> QED BY <1>1, Inductif, PTL

LEMMA DepartErreur == Init => InvErreur
<1> SUFFICES ASSUME Init PROVE InvErreur OBVIOUS
<1>1. page = 1 /\ items = <<>> /\ issue = "en_cours" /\ taille \in Nat
  BY PaginationAssumption DEF Init
<1>2. (1 - 1) * taille = 0 /\ Len(items) = 0 BY <1>1
<1> QED BY <1>1, <1>2 DEF InvErreur, ErreurFondee

LEMMA PasErreur == TypeOK /\ InvPages /\ InvErreur /\ [Next]_vars => InvErreur'
<1> SUFFICES ASSUME TypeOK, InvPages, InvErreur, [Next]_vars PROVE InvErreur' OBVIOUS
<1>1. CASE LirePage
  <2> DEFINE lot == Page(page)
             n == Len(liste)
             b == Min2(page * taille, n)
  <2>1. n \in Nat /\ taille \in Nat \ {0} /\ page \in Nat \ {0} /\ liste \in Seq(Elements)
        /\ exces \in Nat /\ MaxPages \in Nat /\ PerPage \in Nat \ {0}
    BY PaginationAssumption DEF TypeOK
  <2>2. PICK x \in Nat : x = (page - 1) * taille /\ page * taille = x + taille
    BY <2>1, Bornes
  <2>3. lot \in Seq(Elements) /\ Len(lot) = b - Min2(x, n) /\ b = Min2(x + taille, n)
    <3>1. Min2(x, n) \in 0..n /\ b \in Min2(x, n)..n
      BY <2>1, <2>2, Bornes
    <3>2. lot = SubSeq(liste, Min2(x, n) + 1, b) BY <2>2 DEF Page
    <3> HIDE DEF lot, n, b
    <3>3. n = Len(liste) BY DEF n
    <3>4. Len(lot) = b - Min2(x, n) /\ lot \in Seq(Elements)
      BY <2>1, <3>1, <3>2, <3>3
    <3> QED BY <2>2, <3>4 DEF b
  <2>4. /\ Len(items') = Len(items) + Len(lot) /\ Len(items) \in Nat /\ Len(lot) \in Nat
        /\ lot = <<>> <=> Len(lot) = 0
    <3>1. items' = items \o lot /\ items \in Seq(Elements)
      BY <1>1 DEF LirePage, TypeOK
    <3>2. lot \in Seq(Elements) BY <2>3
    <3> HIDE DEF lot
    <3> QED BY <3>1, <3>2
  <2>10. /\ \A i \in Nat : i >= x /\ i + Len(lot) < n => i + Len(lot) >= x + taille
         /\ \A i \in Nat : i >= x /\ Len(lot) = 0 => i >= n
         /\ Len(lot) > 0 => n > x
    <3> HIDE DEF lot, n, b
    <3>1. n \in Nat BY <2>1 DEF n
    <3> QED BY <2>1, <2>3, <2>4, <3>1, UnePage
  <2>5. liste' = liste /\ taille' = taille /\ avecTotal' = avecTotal /\ exces' = exces
        /\ issue = "en_cours"
    BY <1>1 DEF LirePage, api
  <2>6. CASE issue' = "rendue"
    BY <2>6 DEF InvErreur, ErreurFondee
  \* Neither complete nor over: a full page was added to full pages.
  <2>7. CASE issue' = "en_cours"
    <3>1. page' = page + 1 /\ ~Complete(items', lot)
      BY <1>1, <2>7 DEF LirePage, PageSuivante
    <3>2. ASSUME avecTotal, exces = 0 PROVE Len(items') >= x + taille
      <4>1. Len(items) >= x /\ Len(items') < n
        BY <2>1, <2>2, <2>4, <2>5, <3>1, <3>2 DEF InvErreur, Complete, Annonce
      <4> HIDE DEF lot, n, b
      <4> QED BY <2>4, <2>10, <4>1
    <3>3. (page' - 1) * taille' = x + taille
      BY <2>1, <2>2, <2>5, <3>1
    <3> QED BY <2>5, <2>7, <3>2, <3>3 DEF InvErreur, ErreurFondee
  \* An empty page, and the count not reached: it announces more than there is.
  <2>8. CASE issue' = "contredite"
    <3>1. ~Complete(items', lot) /\ avecTotal /\ Len(lot) = 0
      BY <1>1, <2>4, <2>8 DEF LirePage, Contredite
    <3>2. exces # 0
      <4> SUFFICES ASSUME exces = 0 PROVE FALSE OBVIOUS
      <4>1. Len(items) >= x /\ Len(items) < n
        BY <2>1, <2>2, <2>4, <2>5, <3>1 DEF InvErreur, Complete, Annonce
      <4> HIDE DEF lot, b
      <4> QED BY <2>1, <2>4, <2>10, <3>1, <4>1
    <3> QED BY <2>1, <2>5, <2>8, <3>2 DEF InvErreur, ErreurFondee
  <2>9. CASE issue' = "epuisee"
    <3>1. ~Complete(items', lot) /\ ~Contredite(lot) /\ page = MaxPages
      BY <1>1, <2>9 DEF LirePage, Epuisee
    <3>2. Len(lot) > 0
      BY <2>1, <2>4, <3>1 DEF Complete, Contredite
    <3>3. Len(liste) > (MaxPages - 1) * taille
      <4>1. n > x
        <5> HIDE DEF lot, n, b
        <5> QED BY <2>10, <3>2
      <4>2. x = (MaxPages - 1) * taille
        <5> HIDE DEF lot, n, b
        <5> QED BY <2>2, <3>1
      <4> QED BY <4>1, <4>2
    <3> HIDE DEF lot, n, b
    <3> QED BY <2>5, <2>9, <3>1, <3>3 DEF InvErreur, ErreurFondee
  <2> QED BY <1>1, <2>6, <2>7, <2>8, <2>9 DEF LirePage
<1>2. CASE PageEnErreur
  BY <1>2 DEF PageEnErreur, InvErreur, ErreurFondee
<1>3. CASE Retirer
  BY <1>3 DEF Retirer, InvErreur, ErreurFondee
<1>4. CASE UNCHANGED vars
  BY <1>4 DEF vars, api, InvErreur, ErreurFondee
<1> QED BY <1>1, <1>2, <1>3, <1>4 DEF Next, Repos

\* ErreurFondee: neither error of paginate is raised against an API that keeps its
\* word, whatever leaves the collection during the read.
THEOREM Fondee == Spec => []ErreurFondee
<1>1. InvErreur => ErreurFondee BY DEF InvErreur
<1> QED BY DepartErreur, PasErreur, Inductif, <1>1, PTL DEF Spec, IInv

------------------------------------------------------------------------------
(* The resolution of a name, over the same reads. *)

\* What of the resolution the answer rests on: the list served is the scope, the names
\* gathered are those the pages carried, the history follows the fleet.
InvNoms ==
  /\ liste \in Servie(parc, nom, filtree)
  /\ Porteurs(parc, nom) \subseteq porteurs
  /\ \A j \in DOMAIN items : noms[j] = Voulu => items[j] \in porteurs
  /\ ~mobile => \A j \in DOMAIN items : noms[j] = nom[items[j]]
  /\ ~mobile /\ Distinguable /\ filtree # avecNom => Porteurs(parc, nom) = {}

ResolutionInv == ResolutionTypeOK /\ InvPages /\ InvNoms /\ NomResolu

\* What is put at the end of a sequence comes after what it held.
LEMMA Ajout ==
  ASSUME NEW S, NEW s \in Seq(S), NEW t \in Seq(S)
  PROVE  /\ s \o t \in Seq(S) /\ Len(s \o t) = Len(s) + Len(t)
         /\ DOMAIN (s \o t) = 1..Len(s \o t)
         /\ \A j \in 1..Len(s) : (s \o t)[j] = s[j]
         /\ \A j \in (Len(s) + 1)..Len(s \o t) :
              j - Len(s) \in DOMAIN t /\ (s \o t)[j] = t[j - Len(s)]
OBVIOUS

LEMMA ServieType ==
  ASSUME NEW p, NEW n, NEW f, NEW l \in Servie(p, n, f)
  PROVE  /\ l \in Seq(Elements) /\ l \in Listes
         /\ ToSet(l) = {e \in ToSet(p) : f => n[e] \in {Voulu} \cup Proches}
  BY DEF Servie, Listes

\* A page is made of elements of the list.
LEMMA PageDeListe ==
  ASSUME TypeOK
  PROVE  /\ Page(page) \in Seq(Elements)
         /\ \A j \in DOMAIN Page(page) : Page(page)[j] \in ToSet(liste)
<1>1. Len(liste) \in Nat /\ taille \in Nat \ {0} /\ page \in Nat \ {0} /\ liste \in Seq(Elements)
  BY PaginationAssumption DEF TypeOK
<1> DEFINE a == Min2((page - 1) * taille, Len(liste))
           b == Min2(page * taille, Len(liste))
<1>2. a \in 0..Len(liste) /\ b \in a..Len(liste)
  BY <1>1, Bornes
<1>3. Page(page) = SubSeq(liste, a + 1, b)
  BY DEF Page
<1> HIDE DEF a, b
<1>4. /\ Page(page) \in Seq(Elements) /\ Len(Page(page)) = b - a
      /\ \A j \in 1..(b - a) : Page(page)[j] = liste[a + j] /\ a + j \in 1..Len(liste)
  BY <1>1, <1>2, <1>3
<1> QED BY <1>4 DEF ToSet

LEMMA ResolutionDepart == ResolutionInit => ResolutionInv
<1> SUFFICES ASSUME ResolutionInit PROVE ResolutionInv OBVIOUS
<1>1. TypeOK /\ InvPages /\ items = <<>> /\ noms = <<>> /\ verdict = "en_cours" /\ rendu = {}
  BY DepartType, DepartPages DEF ResolutionInit, Init
<1>2. parc \in Seq(Elements) /\ nom \in [Elements -> Noms]
  BY DEF ResolutionInit, Listes
<1>3. porteurs = Porteurs(parc, nom) /\ porteurs \subseteq Elements
  BY <1>2 DEF ResolutionInit, Porteurs, ToSet
<1>4. ResolutionTypeOK
  BY <1>1, <1>2, <1>3, ResolutionAssumption DEF ResolutionInit, ResolutionTypeOK, Verdicts
<1>5. InvNoms
  BY <1>1, <1>3 DEF ResolutionInit, InvNoms
<1> QED BY <1>1, <1>4, <1>5 DEF ResolutionInv, NomResolu

LEMMA ResolutionLister ==
  ASSUME ResolutionInv, Lister
  PROVE  ResolutionInv'
<1>1. TypeOK /\ InvPages /\ [Next]_vars
  BY DEF ResolutionInv, ResolutionTypeOK, Lister, Next
<1>2. TypeOK' /\ InvPages'
  BY <1>1, PasType, PasPages
<1>3. UNCHANGED <<liste, taille, avecTotal, mobile, parc, nom, porteurs, actes, portee, avecNom,
                 filtree, verdict, rendu>>
      /\ issue = "en_cours"
  BY DEF Lister, monde, LirePage, PageEnErreur, api
<1>4. /\ noms' \in Seq(Noms) /\ Len(noms') = Len(items')
      /\ \A j \in DOMAIN items' : noms'[j] = Voulu => items'[j] \in porteurs
      /\ ~mobile => \A j \in DOMAIN items' : noms'[j] = nom[items'[j]]
  <2>1. CASE PageEnErreur /\ noms' = noms
    BY <2>1 DEF PageEnErreur, ResolutionInv, ResolutionTypeOK, InvNoms
  <2>2. CASE LirePage /\ noms' = noms \o [j \in DOMAIN Page(page) |-> nom[Page(page)[j]]]
    <3> DEFINE lot == Page(page)
               lus == [j \in DOMAIN lot |-> nom[lot[j]]]
    <3>1. lot \in Seq(Elements) /\ \A j \in DOMAIN lot : lot[j] \in ToSet(liste)
      BY PageDeListe DEF ResolutionInv, ResolutionTypeOK
    <3>2. items' = items \o lot /\ noms' = noms \o lus
      BY <2>2 DEF LirePage
    <3>3. /\ items \in Seq(Elements) /\ noms \in Seq(Noms) /\ Len(noms) = Len(items)
          /\ nom \in [Elements -> Noms]
      BY DEF ResolutionInv, ResolutionTypeOK, TypeOK
    <3>4. lus \in Seq(Noms) /\ Len(lus) = Len(lot) /\ \A j \in DOMAIN lot : lus[j] = nom[lot[j]]
      BY <3>1, <3>3
    <3>5. \A j \in DOMAIN lot : nom[lot[j]] = Voulu => lot[j] \in porteurs
      <4>1. ToSet(liste) \subseteq ToSet(parc)
        BY ServieType DEF ResolutionInv, InvNoms
      <4> QED BY <3>1, <4>1 DEF ResolutionInv, InvNoms, Porteurs
    <3> HIDE DEF lot, lus
    <3>6. /\ Len(items') = Len(items) + Len(lot) /\ Len(noms') = Len(items')
          /\ noms' \in Seq(Noms)
          /\ \A j \in 1..Len(items) : items'[j] = items[j] /\ noms'[j] = noms[j]
          /\ \A j \in (Len(items) + 1)..Len(items') :
               /\ j - Len(items) \in DOMAIN lot
               /\ items'[j] = lot[j - Len(items)] /\ noms'[j] = lus[j - Len(items)]
          /\ DOMAIN items' = 1..Len(items')
      <4>1. /\ items' \in Seq(Elements) /\ Len(items') = Len(items) + Len(lot)
            /\ DOMAIN items' = 1..Len(items')
            /\ \A j \in 1..Len(items) : items'[j] = items[j]
            /\ \A j \in (Len(items) + 1)..Len(items') :
                 j - Len(items) \in DOMAIN lot /\ items'[j] = lot[j - Len(items)]
        <5>1. items \o lot = items' /\ lot \in Seq(Elements) /\ items \in Seq(Elements)
          BY <3>1, <3>2, <3>3
        <5>2. /\ items' \in Seq(Elements) /\ Len(items') = Len(items) + Len(lot)
              /\ DOMAIN items' = 1..Len(items')
              /\ \A j \in 1..Len(items) : items'[j] = items[j]
              /\ \A j \in (Len(items) + 1)..Len(items') :
                   j - Len(items) \in DOMAIN lot /\ items'[j] = lot[j - Len(items)]
          BY ONLY <5>1, Ajout, Zenon
        <5> QED BY <5>2
      <4>2. /\ noms' \in Seq(Noms) /\ Len(noms') = Len(items')
            /\ \A j \in 1..Len(items) : noms'[j] = noms[j]
            /\ \A j \in (Len(items) + 1)..Len(items') : noms'[j] = lus[j - Len(items)]
        <5>1. noms \o lus = noms' /\ lus \in Seq(Noms) /\ noms \in Seq(Noms)
          BY <3>2, <3>3, <3>4
        <5>2. /\ noms' \in Seq(Noms) /\ Len(noms') = Len(noms) + Len(lus)
              /\ DOMAIN noms' = 1..Len(noms')
              /\ \A j \in 1..Len(noms) : noms'[j] = noms[j]
              /\ \A j \in (Len(noms) + 1)..Len(noms') :
                   j - Len(noms) \in DOMAIN lus /\ noms'[j] = lus[j - Len(noms)]
          BY ONLY <5>1, Ajout, Zenon
        <5>3. Len(items') = Len(items) + Len(lot) BY <4>1
        <5> QED BY <3>3, <3>4, <5>2, <5>3
      <4> QED BY <4>1, <4>2
    <3>7. \A j \in DOMAIN items' : j \in 1..Len(items) \/ j \in (Len(items) + 1)..Len(items')
      BY <3>1, <3>3, <3>6
    <3>8. ASSUME NEW j \in DOMAIN items'
          PROVE  /\ noms'[j] = Voulu => items'[j] \in porteurs
                 /\ ~mobile => noms'[j] = nom[items'[j]]
      <4>1. CASE j \in 1..Len(items)
        <5>1. j \in DOMAIN items /\ items'[j] = items[j] /\ noms'[j] = noms[j]
          BY <3>3, <3>6, <4>1
        <5> QED BY <5>1 DEF ResolutionInv, InvNoms
      <4>2. CASE j \in (Len(items) + 1)..Len(items')
        <5>1. PICK h \in DOMAIN lot : items'[j] = lot[h] /\ noms'[j] = nom[lot[h]]
          BY <3>4, <3>6, <4>2
        <5> QED BY <3>5, <5>1
      <4> QED BY <3>7, <3>8, <4>1, <4>2
    <3> QED BY <3>6, <3>8
  <2> QED BY <2>1, <2>2 DEF Lister
<1>5. ResolutionTypeOK' BY <1>2, <1>3, <1>4 DEF ResolutionInv, ResolutionTypeOK
<1>6. InvNoms' BY <1>3, <1>4 DEF ResolutionInv, InvNoms, Distinguable
<1>7. NomResolu' BY <1>3 DEF ResolutionInv, NomResolu, Distinguable
<1> QED BY <1>2, <1>5, <1>6, <1>7 DEF ResolutionInv

LEMMA ResolutionRelister ==
  ASSUME ResolutionInv, Relister
  PROVE  ResolutionInv'
<1>1. /\ UNCHANGED <<taille, avecTotal, exces, mobile, parc, nom, porteurs, actes, portee, avecNom,
                     verdict, rendu>>
      /\ filtree' = FALSE /\ liste' \in Servie(parc, nom, FALSE)
      /\ page' = 1 /\ items' = <<>> /\ issue' = "en_cours" /\ noms' = <<>>
      /\ verdict = "en_cours" /\ issue = "rendue" /\ Exacts = {} /\ filtree
  BY DEF Relister, monde
<1>2. liste' \in Seq(Elements) BY <1>1, ServieType
<1>3. TypeOK'
  BY <1>1, <1>2, PaginationAssumption DEF ResolutionInv, ResolutionTypeOK, TypeOK, Issues
<1>4. InvPages'
  <2>1. Lus(1)' = 0
    BY <1>1, <1>2, PaginationAssumption DEF Lus, Min2, ResolutionInv, ResolutionTypeOK, TypeOK
  <2>2. SubSeq(liste', 1, 0) = <<>> BY <1>2
  <2> QED BY <1>1, <2>1, <2>2 DEF InvPages, ListeComplete
<1>5. ~mobile /\ Distinguable => Porteurs(parc, nom) = {}
  <2> SUFFICES ASSUME ~mobile, Distinguable, NEW e \in Porteurs(parc, nom) PROVE FALSE OBVIOUS
  <2>1. e \in ToSet(liste)
    BY ServieType DEF ResolutionInv, InvNoms, Porteurs
  <2>2. items = liste
    BY <1>1 DEF ResolutionInv, InvPages, ListeComplete
  <2>3. PICK j \in DOMAIN items : items[j] = e
    BY <2>1, <2>2 DEF ToSet
  <2>4. noms[j] = Voulu
    BY <2>3 DEF ResolutionInv, InvNoms, Porteurs
  <2> QED BY <1>1, <2>3, <2>4 DEF Exacts
<1>6. noms' \in Seq(Noms) /\ Len(noms') = Len(items') /\ DOMAIN items' = {}
  BY <1>1
<1>7. ResolutionTypeOK' BY <1>1, <1>3, <1>6 DEF ResolutionInv, ResolutionTypeOK
<1>8. InvNoms' BY <1>1, <1>5, <1>6 DEF ResolutionInv, InvNoms, Distinguable
<1>9. NomResolu' BY <1>1 DEF ResolutionInv, NomResolu, Distinguable
<1> QED BY <1>4, <1>7, <1>8, <1>9 DEF ResolutionInv

LEMMA ResolutionConclure ==
  ASSUME ResolutionInv, Conclure
  PROVE  ResolutionInv'
<1>1. UNCHANGED <<vars, parc, nom, porteurs, actes, portee, avecNom, filtree, noms>>
      /\ UNCHANGED <<liste, taille, avecTotal, exces, mobile, page, items, issue>>
      /\ verdict = "en_cours" /\ ~(issue = "rendue" /\ Exacts = {} /\ filtree) /\ Trancher
  BY DEF Conclure, monde, vars, api
<1>2. /\ items \in Seq(Elements) /\ Exacts \subseteq DOMAIN items
      /\ \A j \in Exacts : items[j] \in porteurs /\ items[j] \in Elements
  BY DEF Exacts, ResolutionInv, ResolutionTypeOK, TypeOK, InvNoms
<1>3. IsFiniteSet(Exacts)
  BY <1>2, FS_Interval, FS_Subset
<1>4. ASSUME ~mobile, Distinguable, issue = "rendue"
      PROVE  /\ \A e \in Porteurs(parc, nom) : \E j \in Exacts : items[j] = e
             /\ \A j \in Exacts : items[j] \in Porteurs(parc, nom)
             /\ \A j, h \in Exacts : items[j] = items[h] => j = h
  <2>1. /\ items = liste /\ liste \in Listes
        /\ ToSet(liste) = {e \in ToSet(parc) : filtree => nom[e] \in {Voulu} \cup Proches}
    BY <1>4, ServieType DEF ResolutionInv, InvPages, ListeComplete, InvNoms
  <2>2. \A j \in DOMAIN items : noms[j] = nom[items[j]]
    BY <1>4 DEF ResolutionInv, InvNoms
  <2>3. \A j, h \in DOMAIN items : items[j] = items[h] => j = h
    BY <2>1 DEF Listes, IsInjective
  <2> QED BY <2>1, <2>2, <2>3 DEF Exacts, Porteurs, ToSet
<1>5. /\ verdict' \in Verdicts /\ rendu' \subseteq Elements
      /\ NomResolu'
  <2>1. CASE issue # "rendue"
    BY <1>1, <2>1 DEF Trancher, Verdicts, NomResolu
  <2>2. CASE issue = "rendue" /\ (Exacts = {} \/ filtree # avecNom)
    BY <1>1, <1>4, <2>2 DEF Trancher, Verdicts, NomResolu, Distinguable, ResolutionInv, InvNoms
  <2>3. CASE issue = "rendue" /\ Exacts # {} /\ filtree = avecNom /\ Cardinality(Exacts) > 1
    <3>1. PICK j \in Exacts, h \in Exacts : j # h
      <4> SUFFICES ASSUME \A j, h \in Exacts : j = h PROVE FALSE OBVIOUS
      <4>1. PICK j \in Exacts : Exacts = {j} BY <2>3
      <4>2. Cardinality(Exacts) = 1 BY <4>1, FS_Singleton
      <4> QED BY <2>3, <4>2
    <3>2. verdict' = "ambigu" /\ rendu' = {}
      BY <1>1, <2>3 DEF Trancher
    <3>3. ~mobile /\ Distinguable => \E a, b \in Porteurs(parc, nom) : a # b
      BY <1>4, <2>3, <3>1
    <3> QED BY <1>1, <3>2, <3>3 DEF Verdicts, NomResolu, Distinguable
  <2>4. CASE issue = "rendue" /\ Exacts # {} /\ filtree = avecNom /\ ~(Cardinality(Exacts) > 1)
    <3>1. PICK j : Exacts = {j}
      <4>1. Cardinality(Exacts) \in Nat /\ Cardinality(Exacts) # 0
        BY <1>3, <2>4, FS_CardinalityType, FS_EmptySet
      <4>2. Cardinality(Exacts) = 1 BY <2>4, <4>1
      <4> QED BY <1>3, <4>2, FS_Singleton
    <3>2. \/ verdict' = "identifiant" /\ rendu' = {items[j]}
          \/ verdict' = "erreur" /\ rendu' = {}
      BY <1>1, <2>4, <3>1 DEF Trancher
    <3>3. Cardinality({items[j]}) = 1 BY FS_Singleton
    <3>4. ~mobile /\ Distinguable => Porteurs(parc, nom) = {items[j]}
      BY <1>4, <2>4, <3>1
    <3> QED BY <1>1, <1>2, <3>1, <3>2, <3>3, <3>4 DEF Verdicts, NomResolu, Distinguable
  <2> QED BY <2>1, <2>2, <2>3, <2>4
<1>6. TypeOK' /\ InvPages'
  BY <1>1, PasType, PasPages DEF ResolutionInv, ResolutionTypeOK
<1>7. ResolutionTypeOK' BY <1>1, <1>5, <1>6 DEF ResolutionInv, ResolutionTypeOK
<1>8. InvNoms' BY <1>1 DEF ResolutionInv, InvNoms, Distinguable
<1> QED BY <1>5, <1>6, <1>7, <1>8 DEF ResolutionInv

LEMMA ResolutionAutre ==
  ASSUME ResolutionInv, Autre
  PROVE  ResolutionInv'
<1>1. /\ UNCHANGED <<taille, avecTotal, exces, mobile, page, items, issue, portee, avecNom, filtree,
                     noms, verdict, rendu>>
      /\ mobile /\ actes < MaxActes /\ actes' = actes + 1
      /\ liste' \in Servie(parc', nom', filtree)
      /\ porteurs' = porteurs \cup Porteurs(parc', nom')
  BY DEF Autre, appel
<1>2. parc' \in Seq(Elements) /\ nom' \in [Elements -> Noms]
  <2>1. ASSUME NEW j \in DOMAIN parc, parc' = RemoveAt(parc, j) PROVE parc' \in Seq(Elements)
    <3>1. parc' = SubSeq(parc, 1, j - 1) \o SubSeq(parc, j + 1, Len(parc))
      BY <2>1 DEF RemoveAt
    <3>2. SubSeq(parc, 1, j - 1) \in Seq(Elements) /\ SubSeq(parc, j + 1, Len(parc)) \in Seq(Elements)
      BY <2>1 DEF ResolutionInv, ResolutionTypeOK
    <3> QED BY <3>1, <3>2
  <2>2. ASSUME NEW e \in Elements, NEW k \in 1..(Len(parc) + 1), parc' = InsertAt(parc, k, e)
        PROVE  parc' \in Seq(Elements)
    <3>1. parc' = SubSeq(parc, 1, k - 1) \o <<e>> \o SubSeq(parc, k, Len(parc))
      BY <2>2 DEF InsertAt
    <3>2. SubSeq(parc, 1, k - 1) \in Seq(Elements) /\ SubSeq(parc, k, Len(parc)) \in Seq(Elements)
      BY <2>2 DEF ResolutionInv, ResolutionTypeOK
    <3> QED BY <3>1, <3>2
  <2> QED BY <2>1, <2>2 DEF Autre, ResolutionInv, ResolutionTypeOK
<1>3. liste' \in Seq(Elements) BY <1>1, ServieType
<1>4. porteurs' \subseteq Elements
  BY <1>1, <1>2 DEF Porteurs, ToSet, ResolutionInv, ResolutionTypeOK
<1>5. actes' \in 0..MaxActes
  BY <1>1, ResolutionAssumption DEF ResolutionInv, ResolutionTypeOK
<1>6. TypeOK' BY <1>1, <1>3 DEF ResolutionInv, ResolutionTypeOK, TypeOK
<1>7. ResolutionTypeOK' BY <1>1, <1>2, <1>4, <1>5, <1>6 DEF ResolutionInv, ResolutionTypeOK
<1>8. InvPages'
  <2>1. issue' = "en_cours" /\ mobile' BY DEF Autre
  <2> QED BY <2>1 DEF InvPages, ListeComplete
<1>9. InvNoms' BY <1>1 DEF ResolutionInv, InvNoms
<1>10. NomResolu' BY <1>1 DEF ResolutionInv, NomResolu
<1> QED BY <1>7, <1>8, <1>9, <1>10 DEF ResolutionInv

LEMMA ResolutionPas == ResolutionInv /\ [ResolutionNext]_toutes => ResolutionInv'
<1> SUFFICES ASSUME ResolutionInv, [ResolutionNext]_toutes PROVE ResolutionInv' OBVIOUS
<1>1. CASE RefuserPortee \/ Fini \/ UNCHANGED toutes
  <2>1. UNCHANGED vars
        /\ UNCHANGED <<liste, taille, avecTotal, mobile, items, parc, nom, porteurs, actes, portee,
                       avecNom, filtree, noms, rendu>>
    BY <1>1 DEF RefuserPortee, Fini, toutes, monde, appel, vars, api
  <2>2. verdict' = verdict \/ (verdict = "en_cours" /\ verdict' = "erreur")
    BY <1>1 DEF RefuserPortee, Fini, toutes, appel
  <2>3. TypeOK' /\ InvPages'
    BY <2>1, PasType, PasPages DEF ResolutionInv, ResolutionTypeOK
  <2>4. ResolutionTypeOK' BY <2>1, <2>2, <2>3 DEF ResolutionInv, ResolutionTypeOK, Verdicts
  <2>5. InvNoms' BY <2>1 DEF ResolutionInv, InvNoms, Distinguable
  <2>6. NomResolu' BY <2>1, <2>2 DEF ResolutionInv, NomResolu, Distinguable
  <2> QED BY <2>3, <2>4, <2>5, <2>6 DEF ResolutionInv
<1> QED
  BY <1>1, ResolutionLister, ResolutionRelister, ResolutionConclure, ResolutionAutre
  DEF ResolutionNext

\* NomResolu: the identifier returned is that of a resource that carried the name during
\* the call, and on a fleet that keeps still the three answers are never mistaken for
\* one another, whatever the pages, the count and the filter of the API, when its last
\* page can be told from a capped one.
THEOREM Resolu == ResolutionSpec => [](ResolutionTypeOK /\ NomResolu)
<1>1. ResolutionInv => ResolutionTypeOK /\ NomResolu BY DEF ResolutionInv
<1> QED BY ResolutionDepart, ResolutionPas, <1>1, PTL DEF ResolutionSpec

\* ResolutionTypeOK: the state of a resolution keeps its type.
THEOREM ResolutionType == ResolutionSpec => []ResolutionTypeOK
  BY Resolu, PTL

\* What a resolution adds to a read: another list, or a fleet that moves under it.
LEMMA ResolutionErreur == ResolutionInv /\ InvErreur /\ [ResolutionNext]_toutes => InvErreur'
<1> SUFFICES ASSUME ResolutionInv, InvErreur, [ResolutionNext]_toutes PROVE InvErreur' OBVIOUS
<1>1. CASE Relister
  <2>1. page' = 1 /\ items' = <<>> /\ issue' = "en_cours" /\ taille' = taille /\ taille \in Nat
    BY <1>1, PaginationAssumption DEF Relister, ResolutionInv, ResolutionTypeOK, TypeOK
  <2>2. (1 - 1) * taille = 0 /\ Len(items') = 0 BY <2>1
  <2> QED BY <2>1, <2>2 DEF InvErreur, ErreurFondee
<1>2. CASE Autre
  <2>1. issue = "en_cours" /\ UNCHANGED <<taille, avecTotal, exces, page, items, issue>>
    BY <1>2 DEF Autre
  <2> QED BY <2>1 DEF InvErreur, ErreurFondee
<1>3. CASE RefuserPortee \/ Conclure \/ Fini \/ UNCHANGED toutes
  <2>1. UNCHANGED vars BY <1>3 DEF RefuserPortee, Conclure, Fini, toutes
  <2> QED BY <2>1, PasErreur DEF ResolutionInv, ResolutionTypeOK
<1>4. CASE Lister
  <2>1. [Next]_vars BY <1>4 DEF Lister, Next
  <2> QED BY <2>1, PasErreur DEF ResolutionInv, ResolutionTypeOK
<1> QED BY <1>1, <1>2, <1>3, <1>4 DEF ResolutionNext

\* ListeComplete, in a resolution: the list a name is looked for in is the whole list
\* the API serves, the second one as the first, under the same condition.
THEOREM ListesLues == ResolutionSpec => []ListeComplete
<1>1. ResolutionInv => ListeComplete BY DEF ResolutionInv, InvPages
<1> QED BY ResolutionDepart, ResolutionPas, <1>1, PTL DEF ResolutionSpec

\* ErreurFondee, in a resolution: the two errors stay founded while resources are
\* renamed into the list and out of it, where the list may also grow.
THEOREM ResolutionFondee == ResolutionSpec => []ErreurFondee
<1>1. ResolutionInit => InvErreur BY DepartErreur DEF ResolutionInit
<1>2. InvErreur => ErreurFondee BY DEF InvErreur
<1> QED BY ResolutionDepart, ResolutionPas, ResolutionErreur, <1>1, <1>2, PTL DEF ResolutionSpec
==============================================================================
