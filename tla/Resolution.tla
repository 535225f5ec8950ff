----------------------------- MODULE Resolution ------------------------------
(***************************************************************************)
(* resolve_resource_id over the paginated lists: a name is looked for in   *)
(* the list the API filters by what names contain, compared exactly here,  *)
(* and looked for again without the filter on the way to the refusal.  The *)
(* fleet may change between any two pages.                                 *)
(***************************************************************************)
EXTENDS Pagination

CONSTANTS
  Proches,      \* names that contain the one asked for, and are not it
  Lointains,    \* names that do not contain it
  MaxActes      \* bound: number of changes made by anybody else

Voulu == "voulu"
Noms == {Voulu} \cup Proches \cup Lointains

ASSUME ResolutionAssumption ==
  /\ Proches \cap Lointains = {} /\ Voulu \notin Proches \cup Lointains
  /\ MaxActes \in Nat

VARIABLES
  parc,       \* every resource of the scope, in the order the API lists them
  nom,        \* the name each carries
  portee,     \* every parameter of the scope was given
  avecNom,    \* filtre_disponible: the list takes a name
  filtree,    \* the list under way is the one the API filters
  noms,       \* the name each of items carried when its page was read
  verdict,    \* what resolve_resource_id returned or refused
  rendu,      \* the identifiers it returned
  porteurs,   \* history: those that carried the name at some moment of the call
  actes

monde == <<parc, nom, porteurs, actes>>
appel == <<portee, avecNom, filtree, noms, verdict, rendu>>
toutes == <<vars, monde, appel>>

Verdicts == {"en_cours", "identifiant", "aucune", "ambigu", "erreur"}

ResolutionTypeOK ==
  /\ TypeOK
  /\ parc \in Seq(Elements) /\ nom \in [Elements -> Noms]
  /\ portee \in BOOLEAN /\ avecNom \in BOOLEAN /\ filtree \in BOOLEAN
  /\ noms \in Seq(Noms) /\ Len(noms) = Len(items)
  /\ verdict \in Verdicts
  /\ rendu \subseteq Elements /\ porteurs \subseteq Elements
  /\ actes \in 0..MaxActes

------------------------------------------------------------------------------
Porteurs(p, n) == {e \in ToSet(p) : n[e] = Voulu}

\* The API: with the filter, those whose name contains the one asked for, in the order
\* of the scope.
Servie(p, n, f) ==
  {l \in Listes :
     /\ ToSet(l) = {e \in ToSet(p) : f => n[e] \in {Voulu} \cup Proches}
     /\ \A a, b \in DOMAIN p, x, y \in DOMAIN l :
          p[a] = l[x] /\ p[b] = l[y] /\ a < b => x < y}

\* Mutant: the filter of the API is taken for a selection.
Mut_Exacts == DOMAIN items

\* exacts: the places of the list whose name is the one asked for, to the letter.
Exacts == {i \in DOMAIN items : noms[i] = Voulu}

ResolutionInit ==
  /\ parc \in Listes /\ nom \in [Elements -> Noms]
  /\ portee \in BOOLEAN /\ avecNom \in BOOLEAN /\ filtree = avecNom
  /\ liste \in Servie(parc, nom, filtree)
  /\ Init
  /\ noms = <<>> /\ verdict = "en_cours" /\ rendu = {}
  /\ porteurs = Porteurs(parc, nom) /\ actes = 0

\* A scope that is not given is refused before any call.
RefuserPortee ==
  /\ ~portee /\ verdict = "en_cours"
  /\ verdict' = "erreur"
  /\ UNCHANGED <<vars, monde, portee, avecNom, filtree, noms, rendu>>

Lister ==
  /\ portee
  /\ \/ LirePage /\ noms' = noms \o [i \in DOMAIN Page(page) |-> nom[Page(page)[i]]]
     \/ PageEnErreur /\ noms' = noms
  /\ UNCHANGED <<monde, portee, avecNom, filtree, verdict, rendu>>

\* Nothing carries the name: the list again, without the filter, for the message.
Relister ==
  /\ verdict = "en_cours" /\ issue = "rendue" /\ Exacts = {} /\ filtree
  /\ filtree' = FALSE
  /\ liste' \in Servie(parc, nom, FALSE)
  /\ page' = 1 /\ items' = <<>> /\ issue' = "en_cours" /\ noms' = <<>>
  /\ UNCHANGED <<taille, avecTotal, exces, mobile, monde, portee, avecNom, verdict, rendu>>

\* Mutant: the first that carries the name is taken.
Mut_Trancher ==
  IF issue # "rendue" THEN verdict' = "erreur" /\ rendu' = {}
  ELSE IF Exacts # {}
         THEN /\ verdict' = "identifiant"
              /\ \E i \in Exacts : rendu' = {items[i]}
         ELSE verdict' = "aucune" /\ rendu' = {}

\* What the list allows to say.  The second list only feeds the message: it is not
\* searched.  An element that carries the name may carry no identifier.
Trancher ==
  IF issue # "rendue" THEN verdict' = "erreur" /\ rendu' = {}
  ELSE IF Exacts = {} \/ filtree # avecNom THEN verdict' = "aucune" /\ rendu' = {}
  ELSE IF Cardinality(Exacts) > 1 THEN verdict' = "ambigu" /\ rendu' = {}
  ELSE \/ verdict' = "identifiant" /\ rendu' = {items[i] : i \in Exacts}
       \/ verdict' = "erreur" /\ rendu' = {}

Conclure ==
  /\ verdict = "en_cours" /\ issue # "en_cours"
  /\ ~(issue = "rendue" /\ Exacts = {} /\ filtree)
  /\ Trancher
  /\ UNCHANGED <<vars, monde, portee, avecNom, filtree, noms>>

\* Another actor creates, removes or renames a resource, in the list under way or out of it.
Autre ==
  /\ mobile /\ portee /\ issue = "en_cours"
  /\ actes < MaxActes /\ actes' = actes + 1
  /\ \/ /\ \/ \E k \in DOMAIN parc : parc' = RemoveAt(parc, k)
           \/ \E e \in Elements \ ToSet(parc), k \in 1..(Len(parc) + 1) : parc' = InsertAt(parc, k, e)
        /\ UNCHANGED nom
     \/ /\ \E e \in ToSet(parc), n \in Noms : nom' = [nom EXCEPT ![e] = n]
        /\ UNCHANGED parc
  /\ liste' \in Servie(parc', nom', filtree)
  /\ porteurs' = porteurs \cup Porteurs(parc', nom')
  /\ UNCHANGED <<taille, avecTotal, exces, mobile, page, items, issue, appel>>

Fini == verdict # "en_cours" /\ UNCHANGED toutes

ResolutionNext == RefuserPortee \/ Lister \/ Relister \/ Conclure \/ Autre \/ Fini

ResolutionSpec == ResolutionInit /\ [][ResolutionNext]_toutes

------------------------------------------------------------------------------
\* "Trois verdicts, et ils ne se confondent jamais": the one identifier returned
\* belongs to a resource that carried exactly this name during the call, however the
\* fleet moved between the pages; and on a fleet that keeps still, across every page
\* and whatever the API filters, when its last page can be told, the answer is the identifier when one carries the
\* name, the refusal of ambiguity when several do, the other refusal when none does.
NomResolu ==
  /\ verdict = "identifiant" => Cardinality(rendu) = 1 /\ rendu \subseteq porteurs
  /\ verdict # "identifiant" => rendu = {}
  /\ ~mobile /\ Distinguable =>
       /\ verdict = "identifiant" => rendu = Porteurs(parc, nom)
       /\ verdict = "ambigu" => \E a, b \in Porteurs(parc, nom) : a # b
       /\ verdict = "aucune" => Porteurs(parc, nom) = {}
==============================================================================
