----------------------------- MODULE Comparaison -----------------------------
(***************************************************************************)
(* How a managing module compares what a task asks for with what a read    *)
(* renders: the closed table of strategies of the runtime, what it takes   *)
(* out of the observed value first, and where it looks for it when the     *)
(* write and the read do not name a field alike.                           *)
(***************************************************************************)
EXTENDS Integers, Sequences, FiniteSets, SequencesExt

CONSTANTS
  Champs,       \* managed_params
  Rien,         \* None, as the API renders it or a read lacks it
  Strategie,    \* comparisons: [Champs -> STRATEGIES]
  References,   \* fields written x_id that the read renders as an object x
  Norme(_)      \* a string without its spaces at the ends and its capitals

STRATEGIES == {"scalar", "ordered_list", "set", "mapping", "normalized_string",
               "object_id", "id_list", "normalized_object"}

ASSUME ComparaisonAssumption ==
  /\ Strategie \in [Champs -> STRATEGIES]
  /\ References \subseteq {f \in Champs : Strategie[f] = "scalar"}

------------------------------------------------------------------------------
\* "attendu or []": nothing is an empty list.
OuVide(v) == IF v = Rien THEN <<>> ELSE v

\* sorted by repr: a list without its order, its repetitions kept.
SansOrdre(l) == [v \in ToSet(l) |-> Cardinality({i \in DOMAIN l : l[i] = v})]

\* The API enriches: of an observed object, only the keys that were asked for.
ClesDemandees(attendu, observe) == [c \in DOMAIN attendu \cap DOMAIN observe |-> observe[c]]

\* The request takes identifiers, the read renders the objects: a list of anything else
\* than objects that carry an identifier is compared as it is.
Identifiants(l) ==
  IF \A i \in DOMAIN l : "id" \in DOMAIN l[i] THEN [i \in DOMAIN l |-> l[i].id] ELSE l

\* _observe: the value read, brought down to what the strategy compares.
Projection(strategie, valeur) ==
  IF strategie = "id_list" /\ valeur # Rien THEN Identifiants(valeur) ELSE valeur

\* _COMPARAISONS.
Comparer(strategie, attendu, observe) ==
  \/ /\ strategie \in {"scalar", "mapping", "object_id"}
     /\ attendu = observe
  \/ /\ strategie \in {"ordered_list", "id_list"}
     /\ OuVide(attendu) = OuVide(observe)
  \/ /\ strategie = "set"
     /\ SansOrdre(OuVide(attendu)) = SansOrdre(OuVide(observe))
  \/ /\ strategie = "normalized_string" /\ observe # Rien
     /\ Norme(attendu) = Norme(observe)
  \/ /\ strategie = "normalized_object" /\ observe # Rien
     /\ attendu = ClesDemandees(attendu, observe)

\* Is the field already in the state asked for?
Identique(f, attendu, observe) ==
  Comparer(Strategie[f], attendu, Projection(Strategie[f], observe))

\* _valeur_courante: backend_id is looked for in backend, when it is not rendered.
ValeurCourante(rendu, f) ==
  IF f \in References /\ rendu[f] # Rien THEN rendu[f].id ELSE rendu[f]

\* What the API renders of a value it holds.
Rend(f, v) ==
  IF v = Rien THEN Rien
  ELSE IF f \in References THEN [id |-> v]
  ELSE IF Strategie[f] = "id_list" THEN [i \in DOMAIN v |-> [id |-> v[i]]]
  ELSE v

------------------------------------------------------------------------------
(* What the strategies are for. *)

\* The same elements in another order, each as many times.
Reordre(a, o) ==
  \E s \in Bijection(DOMAIN a, DOMAIN o) : \A i \in DOMAIN a : a[i] = o[s[i]]

\* All that was asked for is there, as it was asked for; more may be.
Enrichi(a, o) == \A c \in DOMAIN a : c \in DOMAIN o /\ o[c] = a[c]
==============================================================================
