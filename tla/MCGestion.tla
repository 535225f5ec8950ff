------------------------------ MODULE MCGestion ------------------------------
(* Runs on a resource that has a list the API may render in another order,
   compared as a set, beside a reference the API renders as an object and a
   secret (PUT), or beside a list of identifiers rendered as objects (PATCH).
   The same two values serve every field: one list of two elements in its two
   orders, which only the set does not tell apart. *)
EXTENDS Gestion

MCValeurs == {<<"a", "b">>, <<"b", "a">>}
ChampsPut == {"tags", "backend_id", "cle"}
StrategiePut == [f \in ChampsPut |-> IF f = "tags" THEN "set" ELSE "scalar"]
ChampsPatch == {"tags", "public_ips"}
StrategiePatch == [f \in ChampsPatch |-> IF f = "tags" THEN "set" ELSE "id_list"]
MCNorme(v) == v
\* The set is normalised; the other fields are applied, or ignored in silence.
MCPose(f, v, tenue) == IF f = "tags" THEN Valeurs ELSE {v, tenue}

ASSUME ApiFidele == PoseFidele

(* The strategies against what they are for, over every list of at most three
   elements, every object of two keys and every string of two letters. *)
Lettres == {"a", "b"}
Listes == UNION {[1..n -> Lettres] : n \in 0..3}
Objets == UNION {[C -> Lettres] : C \in SUBSET {"uri", "taille"}}

\* As a set: the one is the other in another order.
ASSUME SetEstUnReordre ==
  \A a, o \in Listes : Comparer("set", a, o) <=> Reordre(a, o)

\* Nothing is an empty list, for lists only.
ASSUME RienEstVide ==
  /\ \A s \in {"set", "ordered_list", "id_list"}, a \in Listes :
       Comparer(s, a, Rien) <=> a = <<>>
  /\ \A s \in STRATEGIES \ {"set", "ordered_list", "id_list"}, a \in Objets :
       ~Comparer(s, a, Rien)

\* What the API adds to an object is no difference; what it lacks is one.
ASSUME ObjetEnrichi ==
  \A a, o \in Objets : Comparer("normalized_object", a, o) <=> Enrichi(a, o)
==============================================================================
