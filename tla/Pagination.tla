----------------------------- MODULE Pagination ------------------------------
(***************************************************************************)
(* The lists every info module, the inventory and the name resolution      *)
(* read: fetch_all and paginate.  The API serves pages of its own size,    *)
(* which may be smaller or larger than the one asked for, and may say how  *)
(* many elements there are.  Between two pages the collection may change.  *)
(***************************************************************************)
EXTENDS Integers, Sequences, SequencesExt

CONSTANTS
  Elements,
  PerPage,     \* DEFAULT_PAGE_SIZE: the size asked for
  MaxPages,    \* MAX_PAGES
  Tailles,     \* the sizes the API may serve: it caps, or ignores, the one asked for
  Exces        \* by how much total_count may exceed what the API holds

Listes == {l \in UNION {[1..n -> Elements] : n \in 0..Cardinality(Elements)} : IsInjective(l)}

ASSUME PaginationAssumption ==
  /\ PerPage \in Nat \ {0} /\ MaxPages \in Nat \ {0}
  /\ Tailles \subseteq Nat \ {0}
  /\ Exces \subseteq Nat

VARIABLES
  liste,      \* what the API holds, in the order it serves it
  taille,     \* how many elements one page carries
  avecTotal,  \* total_count, in the body or from x-total-count
  exces,      \* how much it says beyond what is there
  mobile,     \* may elements leave during the read
  page,       \* the page to fetch
  items,      \* what paginate has gathered
  issue       \* what paginate returned or raised

api == <<liste, taille, avecTotal, exces, mobile>>
vars == <<api, page, items, issue>>

Issues == {"en_cours", "rendue", "contredite", "epuisee", "api_en_erreur"}

TypeOK ==
  /\ liste \in Seq(Elements) /\ taille \in Tailles
  /\ avecTotal \in BOOLEAN /\ exces \in Exces /\ mobile \in BOOLEAN
  /\ page \in 1..MaxPages
  /\ items \in Seq(Elements)
  /\ issue \in Issues

------------------------------------------------------------------------------
Min2(a, b) == IF a <= b THEN a ELSE b

\* The API: the elements of one page, and what total_count says.
Page(p) == SubSeq(liste, Min2((p - 1) * taille, Len(liste)) + 1, Min2(p * taille, Len(liste)))
Annonce == Len(liste) + exces

\* Mutant: a page shorter than asked for is the last one, whatever is announced.
Mut_Complete(lus, lot) == Len(lot) < PerPage \/ (avecTotal /\ Len(lus) >= Annonce)

\* The count comes first; without one, a page shorter than asked for is the last.
Complete(lus, lot) == IF avecTotal THEN Len(lus) >= Annonce ELSE Len(lot) < PerPage

\* The API announces more and has nothing left to give.
Contredite(lot) == avecTotal /\ lot = <<>>

\* Mutant: the last page allowed is not read.
Mut_Epuisee == page >= MaxPages - 1

\* Mutant: one page more than allowed is read.
Mut_EpuiseeTard == page > MaxPages

Epuisee == page = MaxPages

PageSuivante == page + 1

------------------------------------------------------------------------------
Init ==
  /\ liste \in Listes /\ taille \in Tailles
  /\ avecTotal \in BOOLEAN /\ exces \in Exces /\ mobile \in BOOLEAN
  /\ page = 1 /\ items = <<>> /\ issue = "en_cours"

\* One turn of the loop: a page, then the ways to stop in their order.
LirePage ==
  /\ issue = "en_cours"
  /\ LET lot == Page(page)
         lus == items \o lot
     IN /\ items' = lus
        /\ issue' = IF Complete(lus, lot) THEN "rendue"
                    ELSE IF Contredite(lot) THEN "contredite"
                    ELSE IF Epuisee THEN "epuisee" ELSE "en_cours"
  /\ page' = IF issue' = "en_cours" THEN PageSuivante ELSE page
  /\ UNCHANGED api

\* The page cannot be read: the error of the transport goes through.
PageEnErreur ==
  /\ issue = "en_cours"
  /\ issue' = "api_en_erreur"
  /\ UNCHANGED <<api, page, items>>

\* Another actor removes an element between two pages; those after it move up.
Retirer ==
  /\ mobile /\ issue = "en_cours"
  /\ \E k \in 1..Len(liste) : liste' = RemoveAt(liste, k)
  /\ UNCHANGED <<taille, avecTotal, exces, mobile, page, items, issue>>

Repos == issue # "en_cours" /\ UNCHANGED vars

Next == LirePage \/ PageEnErreur \/ Retirer \/ Repos

Spec == Init /\ [][Next]_vars

------------------------------------------------------------------------------
(* Properties. *)

\* Without a count, a page the API caps below the size asked for is taken for the last
\* one: paginate then returns the first page in silence.
Distinguable == avecTotal \/ taille >= PerPage

\* "Rendre la premiere page en silence serait le pire de tous": when the last page can
\* be told from a capped one, a list that is returned is the whole collection, each
\* element once, in order.  A collection that loses elements during the read gives no
\* such promise: those that move up to a page already read are in none of the others.
ListeComplete == ~mobile /\ Distinguable /\ issue = "rendue" => items = liste

\* Neither error is raised against an API that keeps its word, even while elements
\* leave: it announced more than it holds, or the last page allowed was not empty.
ErreurFondee ==
  /\ issue = "contredite" => exces > 0
  /\ issue = "epuisee" => Len(liste) > (MaxPages - 1) * taille

\* The inductive invariant, on a collection that keeps still: what was gathered is the first pages, and it is not over.
Lus(p) == Min2((p - 1) * taille, Len(liste))

InvPages ==
  /\ ~mobile /\ issue = "en_cours" => items = SubSeq(liste, 1, Lus(page))
  /\ ListeComplete

IInv == TypeOK /\ InvPages

\* Whatever the collection does: as long as the count is kept, every page already read was full.
InvErreur ==
  /\ avecTotal /\ exces = 0 /\ issue = "en_cours" => Len(items) >= (page - 1) * taille
  /\ ErreurFondee
==============================================================================
