-------------------------------- MODULE Suivi --------------------------------
(***************************************************************************)
(* The reading of a fleet over time: the role fleet_changes, which runs    *)
(* fleet_audit against the findings the caller kept, then fleet_report and *)
(* fleet_diff against the snapshot the caller kept, and computes a level.  *)
(* The collection keeps nothing between two runs: the caller does.  Each   *)
(* probe reads one product in one scope and may fail without stopping the  *)
(* role; the fleet changes between any two of them.                        *)
(***************************************************************************)
EXTENDS Integers, Sequences

CONSTANTS
  Ressources,    \* what the account may hold
  Produit,       \* [Ressources -> product]
  Portee,        \* [Ressources -> scope], its type included
  Severite,      \* severity of the rule that judges it: [Ressources -> Severites]
  Echeance,      \* last day of the exception that excuses it, 0 without one
  SondesAudit,   \* the probes of fleet_audit, in order: <<product, scope>>
  SondesReleve,  \* those of fleet_report
  ZonesAudit,    \* scaleway_fleet_audit_zones
  MaxJours       \* bound: number of runs of fleet_changes

Etats == {"absente", "saine", "fautive"}
Severites == {"warn", "fail"}
NIVEAUX == <<"baseline", "quiet", "changed", "action_required">>
Jours == 1..MaxJours
Sonde(r) == <<Produit[r], Portee[r]>>
Membres(q) == {q[k] : k \in DOMAIN q}
Portees == {Portee[r] : r \in Ressources} \cup ZonesAudit
             \cup {s[2] : s \in Membres(SondesAudit) \cup Membres(SondesReleve)}

ASSUME SuiviAssumption ==
  /\ MaxJours \in Nat
  /\ Severite \in [Ressources -> Severites]
  /\ Echeance \in [Ressources -> Nat]
  /\ SondesAudit \in Seq(STRING \X STRING) /\ SondesAudit # <<>>
  /\ SondesReleve \in Seq(STRING \X STRING) /\ SondesReleve # <<>>

VARIABLES
  parc,        \* the account
  jour,        \* the run under way, or the last one
  pc, i,       \* where the run is, and its next probe
  vu,          \* the audit's reading: what it read of each resource
  repondu,     \* the audit's probes that answered
  vuR, reponduR,  \* the same of the report
  gardes,      \* scaleway_fleet_changes_findings: the first_seen of each, 0 when not kept
  aGarde,      \* FALSE: nothing was handed back (none)
  photo,       \* scaleway_fleet_changes_snapshot
  changes,     \* scaleway_fleet_audit_changes
  niveau       \* scaleway_fleet_changes_level

lectures == <<vu, repondu, vuR, reponduR>>
appelant == <<gardes, aGarde, photo>>
vars == <<parc, jour, pc, i, lectures, appelant, changes, niveau>>

RienLu == [r \in Ressources |-> "non_lue"]
Lectures == [Ressources -> Etats \cup {"non_lue"}]
SansPhoto == [prise |-> FALSE, vu |-> RienLu, mesurees |-> {}, muettes |-> {}]
Photos == [prise : BOOLEAN, vu : Lectures, mesurees : SUBSET Portees, muettes : SUBSET Portees]
Dates == [Ressources -> 0..MaxJours]
AucunChangement == [baseline |-> FALSE, new |-> {}, persisting |-> {}, resolved |-> {},
                    unmeasured |-> {}, current |-> [r \in Ressources |-> 0]]
Changements == [baseline : BOOLEAN, new : SUBSET Ressources, persisting : SUBSET Ressources,
                resolved : SUBSET Ressources, unmeasured : SUBSET Ressources, current : Dates]

TypeOK ==
  /\ parc \in [Ressources -> Etats]
  /\ jour \in 0..MaxJours
  /\ pc \in {"repos", "audit", "juger", "releve", "photo", "resumer", "rendu"}
  /\ i \in Nat \ {0}
  /\ pc = "audit" => i <= Len(SondesAudit)
  /\ pc \in {"releve", "photo"} => i <= Len(SondesReleve)
  /\ pc \notin {"audit", "releve", "photo"} => i = 1
  /\ vu \in Lectures /\ vuR \in Lectures
  /\ repondu \subseteq Membres(SondesAudit)
  /\ reponduR \subseteq Membres(SondesReleve)
  /\ gardes \in Dates /\ aGarde \in BOOLEAN
  /\ photo \in Photos
  /\ changes \in Changements
  /\ niveau \in Membres(NIVEAUX) \cup {"aucun"}

------------------------------------------------------------------------------
(* The audit: what it measured, what it found, what moved. *)

Presentes(v) == {r \in Ressources : v[r] \in {"saine", "fautive"}}
Constats == {r \in Ressources : vu[r] = "fautive"}

\* What one answered probe adds to a reading.
Lire(v, s) == [r \in Ressources |-> IF Sonde(r) = s THEN parc[r] ELSE v[r]]

\* A scope is measured when a product that names it answered, whichever it is.
MesureesAudit == {s[2] : s \in {t \in repondu : t[1] \in {"instance", "k8s_cluster", "lb"}}}

\* A loop skipped for want of the product instance leaves one entry per zone.
MuettesAudit ==
  {s[2] : s \in Membres(SondesAudit) \ repondu}
    \cup (IF \E s \in Membres(SondesAudit) : s[1] = "instance" THEN {} ELSE ZonesAudit)

\* An exception that expired on a resource nobody read says nothing.
Expirees == {r \in Presentes(vu) : Echeance[r] # 0 /\ Echeance[r] < jour}

Ouvert(r) == Echeance[r] = 0 \/ Echeance[r] < jour

Anciens == {r \in Ressources : gardes[r] # 0}

\* Mutant: what vanished is resolved, its scope measured or not.
Mut_AuditChanges ==
  [baseline   |-> ~aGarde,
   new        |-> IF aGarde THEN Constats \ Anciens ELSE {},
   persisting |-> Constats \cap Anciens,
   resolved   |-> Anciens \ Constats,
   unmeasured |-> {},
   current    |-> [r \in Ressources |->
                     IF r \notin Constats THEN 0 ELSE IF r \in Anciens THEN gardes[r] ELSE jour]]

\* Mutant: only what is new is kept for the next run.
Mut_AuditChangesNeufs == [Mut_AuditChanges EXCEPT
  !.current = [r \in Ressources |-> IF r \in Constats \ Anciens THEN jour ELSE 0]]

AuditChanges ==
  LET disparus == Anciens \ Constats
      resolus  == {r \in disparus : Portee[r] \in MesureesAudit}
  IN [baseline   |-> ~aGarde,
      new        |-> IF aGarde THEN Constats \ Anciens ELSE {},
      persisting |-> Constats \cap Anciens,
      resolved   |-> resolus,
      unmeasured |-> disparus \ resolus,
      current    |-> [r \in Ressources |->
                        IF r \notin Constats THEN 0
                        ELSE IF r \in Anciens THEN gardes[r] ELSE jour]]

------------------------------------------------------------------------------
(* The report, and the comparison of two snapshots. *)

\* Mutant: a zone is mute only when its Instances are.
Mut_Photo(v, rep) ==
  [prise    |-> TRUE, vu |-> v,
   mesurees |-> {s[2] : s \in {t \in rep : t[1] \in {"instance", "k8s_cluster"}}},
   muettes  |-> {s[2] : s \in {t \in Membres(SondesReleve) \ rep : t[1] # "lb"}}]

\* A zone is measured by its Instances, and mute as soon as one of its two lists is.
Photo(v, rep) ==
  [prise    |-> TRUE, vu |-> v,
   mesurees |-> {s[2] : s \in {t \in rep : t[1] \in {"instance", "k8s_cluster"}}},
   muettes  |-> {s[2] : s \in {t \in Membres(SondesReleve) \ rep :
                                 t[1] \in {"instance", "lb", "k8s_cluster"}}}]

Incomparables(a, b) ==
  a.muettes \cup b.muettes \cup (a.mesurees \ b.mesurees) \cup (b.mesurees \ a.mesurees)

Retenues(p, a, b) ==
  {r \in Presentes(p.vu) : Portee[r] \in (a.mesurees \cap b.mesurees) \ Incomparables(a, b)}

Disparues(a, b) == Retenues(a, a, b) \ Retenues(b, a, b)
Apparues(a, b) == Retenues(b, a, b) \ Retenues(a, a, b)
Changees(a, b) == {r \in Retenues(a, a, b) \cap Retenues(b, a, b) : a.vu[r] # b.vu[r]}
Ecarts(a, b) == Apparues(a, b) \cup Disparues(a, b) \cup Changees(a, b)

VerdictDiff(a, b) ==
  IF Incomparables(a, b) # {} THEN "action_required"
  ELSE IF Ecarts(a, b) # {} THEN "changed"
  ELSE "quiet"

------------------------------------------------------------------------------
(* The level. *)

\* Mutant: an unmeasured scope is not a reason to act.
Mut_VerdictBilan(infra) ==
  IF changes.unmeasured # {} \/ Expirees # {} THEN "action_required"
  ELSE IF \E r \in changes.new : Severite[r] = "fail" /\ Ouvert(r) THEN "action_required"
  ELSE IF changes.baseline THEN "baseline"
  ELSE IF changes.new \cup changes.resolved \cup infra # {} THEN "changed"
  ELSE "quiet"

VerdictBilan(infra) ==
  IF MuettesAudit # {} \/ changes.unmeasured # {} \/ Expirees # {} THEN "action_required"
  ELSE IF \E r \in changes.new : Severite[r] = "fail" /\ Ouvert(r) THEN "action_required"
  ELSE IF changes.baseline THEN "baseline"
  ELSE IF changes.new \cup changes.resolved \cup infra # {} THEN "changed"
  ELSE "quiet"

Rang(n) == CHOOSE k \in DOMAIN NIVEAUX : NIVEAUX[k] = n

PireNiveau(m, n) == IF Rang(m) < Rang(n) THEN n ELSE m

\* The worse of what the audit says of the findings and of what two snapshots say.
NiveauRendu ==
  LET apres == Photo(vuR, reponduR) IN
    IF photo.prise
      THEN PireNiveau(IF Incomparables(photo, apres) # {} THEN "action_required"
                      ELSE VerdictBilan(Ecarts(photo, apres)),
                      VerdictDiff(photo, apres))
      ELSE VerdictBilan({})

------------------------------------------------------------------------------
Init ==
  /\ parc \in [Ressources -> Etats]
  /\ jour = 0 /\ pc = "repos" /\ i = 1
  /\ vu = RienLu /\ repondu = {} /\ vuR = RienLu /\ reponduR = {}
  /\ gardes = [r \in Ressources |-> 0] /\ aGarde = FALSE
  /\ photo = SansPhoto
  /\ changes = AucunChangement /\ niveau = "aucun"

\* Someone creates, deletes, repairs or spoils a resource.
Evoluer(r) ==
  /\ \E e \in Etats \ {parc[r]} : parc' = [parc EXCEPT ![r] = e]
  /\ UNCHANGED <<jour, pc, i, lectures, appelant, changes, niveau>>

\* A run of fleet_changes.
Lancer ==
  /\ pc = "repos" /\ jour < MaxJours
  /\ jour' = jour + 1
  /\ pc' = "audit"
  /\ UNCHANGED <<parc, i, lectures, appelant, changes, niveau>>

\* Mutant: a loop makes one turn too many.
Mut_Suite(q, apres) ==
  IF i > Len(q) THEN pc' = apres /\ i' = 1 ELSE i' = i + 1 /\ UNCHANGED pc

Suite(q, apres) ==
  IF i = Len(q) THEN pc' = apres /\ i' = 1 ELSE i' = i + 1 /\ UNCHANGED pc

\* One probe of the audit: it answers, or it fails and the role goes on.
SonderAudit ==
  /\ pc = "audit"
  /\ \/ /\ vu' = Lire(vu, SondesAudit[i])
        /\ repondu' = repondu \cup {SondesAudit[i]}
     \/ UNCHANGED <<vu, repondu>>
  /\ Suite(SondesAudit, "juger")
  /\ UNCHANGED <<parc, jour, vuR, reponduR, appelant, changes, niveau>>

\* The findings, what became of them, and whether there is a snapshot to compare with.
Juger ==
  /\ pc = "juger"
  /\ changes' = AuditChanges
  /\ pc' = IF photo.prise THEN "releve" ELSE "resumer"
  /\ UNCHANGED <<parc, jour, i, lectures, appelant, niveau>>

\* fleet_report on its own, by a caller who wants a first snapshot.
Photographier ==
  /\ pc = "repos" /\ ~photo.prise
  /\ pc' = "photo"
  /\ UNCHANGED <<parc, jour, i, lectures, appelant, changes, niveau>>

SonderReleve ==
  /\ pc \in {"releve", "photo"}
  /\ \/ /\ vuR' = Lire(vuR, SondesReleve[i])
        /\ reponduR' = reponduR \cup {SondesReleve[i]}
     \/ UNCHANGED <<vuR, reponduR>>
  /\ Suite(SondesReleve, IF pc = "photo" THEN "rendu" ELSE "resumer")
  /\ UNCHANGED <<parc, jour, vu, repondu, appelant, changes, niveau>>

Resumer ==
  /\ pc = "resumer"
  /\ niveau' = NiveauRendu
  /\ pc' = "rendu"
  /\ UNCHANGED <<parc, jour, i, lectures, appelant, changes>>

\* The caller keeps what the run told it to keep, or one of the two, or nothing; the
\* facts of the run go with it.
Garder ==
  /\ pc = "rendu"
  /\ pc' = "repos"
  /\ \/ UNCHANGED <<gardes, aGarde>>
     \/ niveau # "aucun" /\ gardes' = changes.current /\ aGarde' = TRUE
  /\ \/ UNCHANGED photo
     \/ (niveau = "aucun" \/ photo.prise) /\ photo' = Photo(vuR, reponduR)
  /\ vu' = RienLu /\ repondu' = {} /\ vuR' = RienLu /\ reponduR' = {}
  /\ changes' = AucunChangement /\ niveau' = "aucun"
  /\ UNCHANGED <<parc, jour, i>>

Role == Lancer \/ SonderAudit \/ Juger \/ Photographier \/ SonderReleve \/ Resumer \/ Garder

Next == Role \/ (\E r \in Ressources : Evoluer(r))

Spec == Init /\ [][Next]_vars

------------------------------------------------------------------------------
(* Properties. *)

\* A finding is announced resolved only when the probe of its own product in its own
\* scope answered in this run and did not find it at fault (audit_changes, against
\* the measured scopes fleet_audit hands it).
ResoluFonde ==
  \A r \in changes.resolved : Sonde(r) \in repondu /\ vu[r] # "fautive"

\* A resource is announced removed only when its own probe answered in both snapshots,
\* found it in the first and did not in the second (fleet_diff, against the scopes
\* fleet_report calls measured).
DisparueFondee ==
  pc = "rendu" /\ niveau # "aucun" /\ photo.prise =>
    \A r \in Disparues(photo, Photo(vuR, reponduR)) :
      Sonde(r) \in reponduR /\ vuR[r] = "absente"

\* Below action_required every probe of the audit answered, no finding of severity
\* fail is new and open, no exception on what was read has expired.  A quiet run with
\* findings kept found the same ones, and its snapshot is the one kept.
NiveauFonde ==
  niveau \in {"quiet", "changed", "baseline"} =>
    /\ repondu = Membres(SondesAudit)
    /\ changes.baseline \/ \A r \in Constats \ Anciens : Severite[r] = "fail" => ~Ouvert(r)
    /\ \A r \in Presentes(vu) : Echeance[r] = 0 \/ Echeance[r] >= jour
    /\ niveau = "quiet" =>
         /\ changes.baseline \/ Constats = Anciens
         /\ photo.prise => vuR = photo.vu

\* What the caller knew and keeps no more was read and found repaired or gone, or the
\* level told it to act: no finding leaves the history in silence.
JamaisEnSilence ==
  [][\A r \in Ressources : gardes[r] # 0 /\ gardes'[r] = 0 =>
       (r \in changes.resolved /\ vu[r] \in {"saine", "absente"}) \/ niveau = "action_required"]_vars

==============================================================================
