----------------------------- MODULE Inventaire -----------------------------
(***************************************************************************)
(* The inventory plugin and its cache: one parse computes the key of its   *)
(* configuration, reads the cache, or discovers the account source by      *)
(* source, each of which may fail, and writes what it found.  The cache    *)
(* outlives the command; the account changes under it.                     *)
(***************************************************************************)
EXTENDS Integers, Sequences

CONSTANTS
  Machines,
  Compte,      \* the account that holds each machine
  Source,      \* the (product, zone) whose list renders it
  Servies,     \* the sources the cloud serves; the others answer 404 or 501
  Reseau,      \* the network index, read before the sources that join it
  Configs      \* the configurations one inventory file is parsed with

Etats == {"running", "stopped", "stopped in place", "transition", "absente"}
Comptes == {c.compte : c \in Configs}

ASSUME InventaireAssumption ==
  /\ Compte \in [Machines -> STRING] /\ Source \in [Machines -> STRING]
  /\ \A c \in Configs :
       /\ c.strict \in BOOLEAN /\ c.cache \in BOOLEAN /\ c.cle \in BOOLEAN
       /\ c.compte \in STRING /\ c.sources \in Seq(STRING)

VARIABLES
  parc,      \* the accounts: the power state of each machine
  groupe,    \* the machines that carry the tag of the group
  cache,     \* what outlives the command: a key to an inventory, or Vide
  phase,     \* where the parse is
  config,    \* settings
  k,         \* the next source to read
  trouves,   \* resultat.hosts, those of the group
  erreurs,   \* report.errors is not empty
  inv        \* materiel: what the play is served

compteVars == <<parc, groupe>>
inventaireVars == <<cache, phase, config, k, trouves, erreurs, inv>>

Vide == [hotes |-> {}, complet |-> FALSE, pour |-> {}]
Inventaires == [hotes : SUBSET Machines, complet : BOOLEAN, pour : SUBSET Configs]

\* Mutant: the key of the time when a tolerant inventory was served to a strict one.
Mut_EmpreinteSansStrict(c) == <<IF c.cle THEN c.compte ELSE "", c.sources>>

\* cache_fingerprint: the access key counts when an option gives it; one that the
\* configuration file holds is not seen.
Empreinte(c) == <<IF c.cle THEN c.compte ELSE "", c.sources, c.strict>>

Cles == {Empreinte(c) : c \in Configs}

InventaireTypeOK ==
  /\ parc \in [Machines -> Etats]
  /\ groupe \subseteq Machines
  /\ cache \in [Cles -> Inventaires]
  /\ phase \in {"libre", "decouverte", "servi", "refuse"}
  /\ config \in Configs
  /\ k \in 1..(Len(config.sources) + 1)
  /\ trouves \subseteq Machines
  /\ erreurs \in BOOLEAN
  /\ inv \in Inventaires

InventaireInit ==
  /\ parc \in [Machines -> Etats]
  /\ groupe \in SUBSET Machines
  /\ cache = [e \in Cles |-> Vide]
  /\ phase = "libre"
  /\ config \in Configs
  /\ k = 1 /\ trouves = {} /\ erreurs = FALSE /\ inv = Vide

\* parse, up to the answer of the cache.  frais is cache=False: the command line or a
\* refresh asked not to read it.
Analyser(c, frais) ==
  LET materiel == IF c.cache /\ ~frais THEN cache[Empreinte(c)] ELSE Vide
  IN /\ phase = "libre"
     /\ config' = c
     /\ inv' = materiel
     /\ phase' = IF materiel = Vide THEN "decouverte" ELSE "servi"
     /\ UNCHANGED <<compteVars, cache, k, trouves, erreurs>>

\* What a failed call leaves in report.errors: a product absent from a place is no
\* error, and the network index only enriches, so a right it lacks is none either.
Grave(issue, s) == issue = "panne" \/ (issue = "droit" /\ s # Reseau)

ListeDe(s) ==
  {m \in groupe : Source[m] = s /\ Compte[m] = config.compte /\ parc[m] # "absente"}

Decouvrir ==
  /\ phase = "decouverte" /\ k <= Len(config.sources)
  /\ LET s == config.sources[k]
     IN \/ /\ s \in Servies
           /\ trouves' = trouves \cup ListeDe(s)
           /\ UNCHANGED erreurs
        \/ \E issue \in {"panne", "droit"} \cup (IF s \in Servies THEN {} ELSE {"ailleurs"}) :
             /\ erreurs' = (erreurs \/ Grave(issue, s))
             /\ UNCHANGED trouves
  /\ k' = k + 1
  /\ UNCHANGED <<compteVars, cache, phase, config, inv>>

\* Refused credentials are fatal, strict or not.
Refuser ==
  /\ phase = "decouverte" /\ k <= Len(config.sources)
  /\ phase' = "refuse"
  /\ UNCHANGED <<compteVars, cache, config, k, trouves, erreurs, inv>>

Leve(c) == c.strict /\ erreurs

\* The end of _collect, and what parse does of it: a strict configuration raises, the
\* others serve what they have; either way what is served is what is written.
Rendre ==
  LET materiel == [hotes |-> trouves, complet |-> ~erreurs, pour |-> {config}]
  IN /\ phase = "decouverte" /\ k > Len(config.sources)
     /\ IF Leve(config)
          THEN phase' = "refuse" /\ UNCHANGED <<cache, inv>>
          ELSE /\ phase' = "servi"
               /\ inv' = materiel
               /\ cache' = IF config.cache THEN [cache EXCEPT ![Empreinte(config)] = materiel]
                           ELSE cache
     /\ UNCHANGED <<compteVars, config, k, trouves, erreurs>>

\* The command ends: of the parse, only the cache is left.
Oublier ==
  /\ phase' = "libre"
  /\ inv' = Vide /\ k' = 1 /\ trouves' = {} /\ erreurs' = FALSE
  /\ UNCHANGED <<cache, config>>

\* "Deux configurations differentes ne doivent jamais partager un inventaire en cache":
\* whatever the cache holds, what is served was discovered on the account the
\* configuration reads, from the sources it asks for, and, to a strict one, without
\* a single error, even when another run wrote it.
ServiPourLui ==
  phase = "servi" =>
    /\ \E c \in inv.pour : c.compte = config.compte /\ c.sources = config.sources
    /\ config.strict => inv.complet
==============================================================================
