---------------------------- MODULE HoraireProofs ----------------------------
(* The inventory cache and the role power_schedule, for any machines, sources and
   configurations. *)
EXTENDS Horaire, TLAPS

\* Between two commands nothing of a parse is left; a parse that was refused serves
\* nothing; the role only gets past the selection with an inventory.
Cadre ==
  /\ phase = "libre" => k = 1 /\ etape = "selection"
  /\ phase \in {"libre", "decouverte", "refuse"} => inv = Vide
  /\ etape # "selection" => phase \in {"servi", "refuse"}
  /\ etape \in {"lecture", "action", "vert"} => phase = "servi"
  /\ etape = "selection" => lu = NonLu /\ resultat = Rien /\ envoyees = {}

TypeInv == TypeOK /\ Cadre

LEMMA VideType == Vide \in Inventaires
  BY DEF Vide, Inventaires

LEMMA TypeInit == Init => TypeInv
<1> SUFFICES ASSUME Init PROVE TypeInv OBVIOUS
<1>1. InventaireTypeOK
  <2> USE DEF Init, InventaireInit
  <2>1. cache \in [Cles -> Inventaires] /\ inv \in Inventaires BY VideType
  <2>2. Len(config.sources) \in Nat BY InventaireAssumption
  <2>3. k \in 1..(Len(config.sources) + 1) BY <2>2
  <2> QED BY <2>1, <2>3 DEF InventaireTypeOK
<1>2. NonLu \in [Machines -> (Etats \ {"absente"}) \cup {"non_lue", "illisible"}]
        /\ Rien \in [Machines -> {"rien", "attend", "changed", "echec"}]
        /\ Aucune \in Operations
  BY DEF NonLu, Rien, Aucune, Operations
<1>3. 0 \in 0..MaxJeux /\ 0 \in 0..MaxChangements BY HoraireAssumption
<1>4. TypeOK BY <1>1, <1>2, <1>3 DEF Init, TypeOK
<1>5. Cadre BY DEF Init, InventaireInit, Cadre
<1> QED BY <1>4, <1>5 DEF TypeInv

LEMMA CommencerType ==
  ASSUME TypeInv, Commencer
  PROVE  TypeInv'
<1>1. PICK c \in Configs, frais \in BOOLEAN : Analyser(c, frais)
  BY DEF Commencer
<1>2. /\ phase = "libre" /\ config' = c /\ k' = k /\ k = 1
      /\ UNCHANGED <<parc, groupe, cache, trouves, erreurs>>
  BY <1>1 DEF Analyser, TypeInv, Cadre, compteVars
<1>3. inv' \in Inventaires /\ phase' = IF inv' = Vide THEN "decouverte" ELSE "servi"
  BY <1>1, VideType DEF Analyser, TypeInv, TypeOK, InventaireTypeOK, Cles
<1>4. 1 \in 1..(Len(c.sources) + 1)
  BY InventaireAssumption
<1>5. jeux' \in 0..MaxJeux
  BY HoraireAssumption DEF Commencer, TypeInv, TypeOK
<1>6. UNCHANGED <<etape, desire, check, lu, resultat, operation, envoyees, passe, aQuitter, changements>>
  BY DEF Commencer, roleVars
<1>7. InventaireTypeOK'
  BY <1>2, <1>3, <1>4 DEF TypeInv, TypeOK, InventaireTypeOK
<1>8. TypeOK' BY <1>5, <1>6, <1>7 DEF TypeInv, TypeOK
<1> QED BY <1>2, <1>3, <1>6, <1>8 DEF TypeInv, Cadre

LEMMA ParcourirType ==
  ASSUME TypeInv, Parcourir
  PROVE  TypeInv'
<1> USE DEF TypeInv, TypeOK, InventaireTypeOK, Cadre
<1>0. /\ UNCHANGED <<etape, desire, check, lu, resultat, operation, envoyees, passe, aQuitter,
                     jeux, changements, parc, groupe, config>>
      /\ phase = "decouverte" /\ etape = "selection" /\ inv = Vide
  BY DEF Parcourir, roleVars, bornes, Decouvrir, Refuser, Rendre, compteVars
<1>1. CASE Decouvrir
  <2>1. UNCHANGED <<cache, phase, inv>> /\ k' = k + 1 /\ k <= Len(config.sources)
    BY <1>1 DEF Decouvrir
  <2>2. k' \in 1..(Len(config.sources) + 1)
    BY <2>1, InventaireAssumption
  <2>3. trouves' \subseteq Machines
    BY <1>1 DEF Decouvrir, ListeDe
  <2>4. erreurs' \in BOOLEAN
    BY <1>1 DEF Decouvrir
  <2> QED BY <1>0, <2>1, <2>2, <2>3, <2>4
<1>2. CASE Refuser
  BY <1>0, <1>2 DEF Refuser
<1>3. CASE Rendre
  <2> DEFINE materiel == [hotes |-> trouves, complet |-> ~erreurs, pour |-> {config}]
  <2>1. materiel \in Inventaires BY DEF Inventaires
  <2>2. UNCHANGED <<k, trouves, erreurs>> BY <1>3 DEF Rendre
  <2>3. \/ phase' = "refuse" /\ UNCHANGED <<cache, inv>>
        \/ /\ phase' = "servi" /\ inv' = materiel
           /\ cache' \in {cache, [cache EXCEPT ![Empreinte(config)] = materiel]}
    BY <1>3 DEF Rendre
  <2> HIDE DEF materiel
  <2>4. cache' \in [Cles -> Inventaires]
    BY <2>1, <2>3
  <2> QED BY <1>0, <2>1, <2>2, <2>3, <2>4
<1> QED BY <1>1, <1>2, <1>3 DEF Parcourir

LEMMA ChoisirType ==
  ASSUME TypeInv, Choisir
  PROVE  TypeInv'
<1>1. UNCHANGED <<parc, groupe, cache, phase, config, k, trouves, erreurs, inv, lu, resultat,
                  operation, envoyees, jeux, changements>>
  BY DEF Choisir, compteVars, inventaireVars, bornes
<1>2. /\ phase \in {"servi", "refuse"}
      /\ desire' \in {"on", "off"} /\ check' \in BOOLEAN
      /\ etape' \in {"rouge", "lecture"} /\ (etape' = "lecture" => inv.hotes # {})
      /\ passe' \subseteq Machines /\ aQuitter' \subseteq Machines
  BY DEF Choisir
<1>3. inv.hotes # {} => phase = "servi"
  BY <1>2 DEF TypeInv, Cadre, Vide
<1> QED BY <1>1, <1>2, <1>3 DEF TypeInv, TypeOK, InventaireTypeOK, Cadre

\* A loop takes a machine of what is left to it.
LEMMA SuivanteDans ==
  ASSUME NEW S, S # {}
  PROVE  Suivante(S) \in S
  BY DEF Suivante

LEMMA RoleType ==
  ASSUME TypeInv, LireMachine \/ Trier \/ Annoncer \/ Attendre \/ Publier
  PROVE  TypeInv'
<1>1. UNCHANGED <<parc, groupe, cache, phase, config, k, trouves, erreurs, inv, desire, check,
                  envoyees, passe, aQuitter, jeux, changements>>
  BY DEF LireMachine, Trier, Annoncer, Attendre, Publier, compteVars, inventaireVars,
         historique, bornes
<1>2. /\ etape \in {"lecture", "action"} /\ etape' \in {"lecture", "action", "vert", "rouge"}
      /\ phase = "servi"
  BY DEF LireMachine, Trier, Annoncer, Attendre, Publier, TypeInv, Cadre
<1>3. /\ lu' \in [Machines -> (Etats \ {"absente"}) \cup {"non_lue", "illisible"}]
      /\ resultat' \in [Machines -> {"rien", "attend", "changed", "echec"}]
      /\ operation' \in Operations
  <2> USE DEF TypeInv, TypeOK
  <2>1. CASE LireMachine
    <3>1. PICK e \in {"illisible"} \cup (Etats \ {"absente"}) :
            lu' = [lu EXCEPT ![Suivante(Restantes)] = e]
      BY <2>1 DEF LireMachine, InventaireTypeOK
    <3> QED BY <2>1, <3>1 DEF LireMachine
  <2>2. CASE Trier
    BY <2>2 DEF Trier
  <2>3. CASE Annoncer
    BY <2>3 DEF Annoncer, Resultat
  <2>4. CASE Attendre
    BY <2>4 DEF Attendre, Resultat
  <2>5. CASE Publier
    <3>1. inv.hotes \subseteq Machines BY DEF InventaireTypeOK, Inventaires
    <3>2. {m \in AAgir : resultat[m] = "changed"} \subseteq Machines /\ Deja \subseteq Machines
            /\ EnVol \subseteq Machines /\ Illisibles \subseteq Machines
      BY <3>1 DEF AAgir, Deja, EnVol, Illisibles
    <3>3. [changed |-> {m \in AAgir : resultat[m] = "changed"}, already_compliant |-> Deja,
           refused |-> EnVol, unmeasured |-> Illisibles] \in Operations
      BY <3>2 DEF Operations
    <3>4. UNCHANGED <<lu, resultat>> BY <2>5 DEF Publier
    <3>5. operation' \in {operation, [changed |-> {m \in AAgir : resultat[m] = "changed"},
             already_compliant |-> Deja, refused |-> EnVol, unmeasured |-> Illisibles]}
      BY <2>5 DEF Publier
    <3> QED BY <3>3, <3>4, <3>5
  <2> QED BY <2>1, <2>2, <2>3, <2>4, <2>5
<1> QED BY <1>1, <1>2, <1>3 DEF TypeInv, TypeOK, InventaireTypeOK, Cadre

LEMMA EnvoyerType ==
  ASSUME TypeInv, Envoyer
  PROVE  TypeInv'
<1>1. UNCHANGED <<groupe, cache, phase, config, k, trouves, erreurs, inv, etape, desire, check,
                  lu, operation, jeux, changements>>
  BY DEF Envoyer, inventaireVars, bornes
<1>2. etape = "action" /\ phase = "servi"
  BY DEF Envoyer, TypeInv, Cadre
<1>3. Suivante(AEnvoyer) \in Machines
  BY SuivanteDans DEF Envoyer, AEnvoyer, AAgir, TypeInv, TypeOK, InventaireTypeOK, Inventaires
<1>4. /\ envoyees' \subseteq Machines
      /\ parc' \in [Machines -> Etats]
      /\ resultat' \in [Machines -> {"rien", "attend", "changed", "echec"}]
      /\ passe' \subseteq Machines /\ aQuitter' \subseteq Machines
  BY <1>3 DEF Envoyer, Resultat, Noter, TypeInv, TypeOK, InventaireTypeOK, Etats
<1>5. InventaireTypeOK' BY <1>1, <1>4 DEF TypeInv, TypeOK, InventaireTypeOK
<1>6. TypeOK' BY <1>1, <1>4, <1>5 DEF TypeInv, TypeOK
<1>7. Cadre' BY <1>1, <1>2 DEF TypeInv, Cadre
<1> QED BY <1>6, <1>7 DEF TypeInv

LEMMA FinirType ==
  ASSUME TypeInv, Finir
  PROVE  TypeInv'
<1>1. /\ NonLu \in [Machines -> (Etats \ {"absente"}) \cup {"non_lue", "illisible"}]
      /\ Rien \in [Machines -> {"rien", "attend", "changed", "echec"}]
      /\ Aucune \in Operations
  BY DEF NonLu, Rien, Aucune, Operations
<1>2. 1 \in 1..(Len(config.sources) + 1)
  BY InventaireAssumption DEF TypeInv, TypeOK, InventaireTypeOK
<1> QED
  BY <1>1, <1>2, VideType DEF Finir, Oublier, compteVars, bornes, TypeInv, TypeOK, InventaireTypeOK, Cadre

LEMMA AutresType ==
  ASSUME TypeInv, Changer \/ (\E m \in Machines : Aboutir(m))
  PROVE  TypeInv'
<1>1. UNCHANGED <<cache, phase, config, k, trouves, erreurs, inv, etape, desire, check, lu,
                  resultat, operation, envoyees, jeux>>
  BY DEF Changer, Aboutir, inventaireVars, roleVars, bornes
<1>2. /\ parc' \in [Machines -> Etats] /\ groupe' \subseteq Machines
      /\ passe' \subseteq Machines /\ aQuitter' \subseteq Machines
      /\ changements' \in 0..MaxChangements
  <2> USE DEF TypeInv, TypeOK, InventaireTypeOK, Noter
  <2>1. CASE Changer
    <3>1. changements' \in 0..MaxChangements BY <2>1, HoraireAssumption DEF Changer
    <3>2. parc' \in [Machines -> Etats] /\ groupe' \subseteq Machines BY <2>1 DEF Changer
    <3>3. passe' \subseteq Machines /\ aQuitter' \subseteq Machines BY <2>1 DEF Changer
    <3> QED BY <3>1, <3>2, <3>3
  <2>2. ASSUME NEW m \in Machines, Aboutir(m)
        PROVE  /\ parc' \in [Machines -> Etats] /\ groupe' \subseteq Machines
               /\ passe' \subseteq Machines /\ aQuitter' \subseteq Machines
               /\ changements' \in 0..MaxChangements
    BY <2>2 DEF Aboutir, bornes, Vise, Etats
  <2> QED BY <2>1, <2>2
<1> QED BY <1>1, <1>2 DEF TypeInv, TypeOK, InventaireTypeOK, Cadre

LEMMA TypePas ==
  ASSUME TypeInv, [Next]_vars
  PROVE  TypeInv'
<1>1. CASE UNCHANGED vars
  BY <1>1 DEF vars, compteVars, inventaireVars, roleVars, bornes, TypeInv, TypeOK,
              InventaireTypeOK, Cadre
<1>2. CASE Repos
  BY <1>1, <1>2 DEF Repos
<1> QED
  BY <1>1, <1>2, CommencerType, ParcourirType, ChoisirType, RoleType, EnvoyerType, FinirType,
     AutresType DEF Next, Role

\* Every variable of the inventory and of the role keeps its type.
THEOREM Type == Spec => []TypeOK
<1>1. TypeInv /\ [Next]_vars => TypeInv' BY TypePas
<1>2. TypeInv => TypeOK BY DEF TypeInv
<1> QED BY TypeInit, <1>1, <1>2, PTL DEF Spec

------------------------------------------------------------------------------
(* What the cache serves. *)

\* Every configuration gives its access key as an option: the cache key then holds
\* the account.
LesClesSontDonnees == \A c \in Configs : c.cle

CacheFonde ==
  \A c \in Configs : cache[Empreinte(c)] # Vide =>
    /\ \E d \in cache[Empreinte(c)].pour : d.compte = c.compte /\ d.sources = c.sources
    /\ c.strict => cache[Empreinte(c)].complet

ServiInv == CacheFonde /\ ServiPourLui

LEMMA ServiInit == Init => ServiInv
  BY DEF Init, InventaireInit, ServiInv, CacheFonde, ServiPourLui, Cles

LEMMA ServiCommencer ==
  ASSUME TypeInv, ServiInv, Commencer
  PROVE  ServiInv'
<1>1. PICK c \in Configs, frais \in BOOLEAN : Analyser(c, frais)
  BY DEF Commencer
<1>2. config' = c /\ cache' = cache
  BY <1>1 DEF Analyser
<1>3. phase' = "servi" => inv' = cache[Empreinte(c)] /\ inv' # Vide
  BY <1>1 DEF Analyser
<1> QED BY <1>2, <1>3 DEF ServiInv, CacheFonde, ServiPourLui

LEMMA ServiRendre ==
  ASSUME LesClesSontDonnees, TypeInv, ServiInv, Rendre
  PROVE  ServiInv'
<1> DEFINE materiel == [hotes |-> trouves, complet |-> ~erreurs, pour |-> {config}]
<1>1. config' = config /\ config \in Configs
  BY DEF Rendre, TypeInv, TypeOK, InventaireTypeOK
<1>2. CASE Leve(config)
  BY <1>1, <1>2 DEF Rendre, ServiInv, CacheFonde, ServiPourLui
<1>3. CASE ~Leve(config)
  <2>1. /\ inv' = materiel
        /\ cache' \in {cache, [cache EXCEPT ![Empreinte(config)] = materiel]}
    BY <1>3 DEF Rendre
  <2>2. materiel.pour = {config} /\ (config.strict => materiel.complet)
    BY <1>3 DEF Leve
  <2>3. ServiPourLui'
    BY <1>1, <2>1, <2>2 DEF ServiPourLui
  <2>4. ASSUME NEW c \in Configs, Empreinte(c) = Empreinte(config)
        PROVE  c.compte = config.compte /\ c.sources = config.sources /\ c.strict = config.strict
    BY <1>1, <2>4 DEF LesClesSontDonnees, Empreinte
  <2> HIDE DEF materiel
  <2>5. ASSUME NEW c \in Configs, cache'[Empreinte(c)] # Vide
        PROVE  /\ \E d \in cache'[Empreinte(c)].pour : d.compte = c.compte /\ d.sources = c.sources
               /\ c.strict => cache'[Empreinte(c)].complet
    <3>1. CASE cache'[Empreinte(c)] = cache[Empreinte(c)]
      BY <2>5, <3>1 DEF ServiInv, CacheFonde
    <3>2. CASE Empreinte(c) = Empreinte(config) /\ cache'[Empreinte(c)] = materiel
      BY <2>2, <2>4, <3>2
    <3>3. cache \in [Cles -> Inventaires] /\ Empreinte(c) \in Cles
      BY DEF TypeInv, TypeOK, InventaireTypeOK, Cles
    <3> QED BY <2>1, <3>1, <3>2, <3>3
  <2> QED BY <2>3, <2>5 DEF ServiInv, CacheFonde
<1> QED BY <1>2, <1>3

LEMMA ServiPas ==
  ASSUME LesClesSontDonnees, TypeInv, ServiInv, [Next]_vars
  PROVE  ServiInv'
<1>1. CASE UNCHANGED <<cache, phase, config, inv>>
  BY <1>1 DEF ServiInv, CacheFonde, ServiPourLui
<1>2. CASE cache' = cache /\ phase' # "servi"
  BY <1>2 DEF ServiInv, CacheFonde, ServiPourLui
<1>3. CASE Parcourir
  BY <1>1, <1>2, <1>3, ServiRendre DEF Parcourir, Decouvrir, Refuser, TypeInv, Cadre
<1>4. CASE Finir
  BY <1>2, <1>4 DEF Finir, Oublier
<1>5. CASE UNCHANGED vars \/ Repos
  BY <1>1, <1>5 DEF Repos, vars, inventaireVars
<1>6. CASE Choisir \/ LireMachine \/ Trier \/ Annoncer \/ Envoyer \/ Attendre \/ Publier
  BY <1>1, <1>6 DEF Choisir, LireMachine, Trier, Annoncer, Envoyer, Attendre, Publier, inventaireVars
<1>7. CASE Changer \/ \E m \in Machines : Aboutir(m)
  BY <1>1, <1>7 DEF Changer, Aboutir, inventaireVars
<1> QED
  BY <1>3, <1>4, <1>5, <1>6, <1>7, ServiCommencer DEF Next, Role

\* When every configuration names its key, no inventory of another account, of other
\* sources, or of a discovery that failed is served to a configuration that asked for
\* none of it.
THEOREM Servi == LesClesSontDonnees => (Spec => []ServiPourLui)
<1> SUFFICES ASSUME LesClesSontDonnees PROVE Spec => []ServiPourLui OBVIOUS
<1>1. TypeInv /\ [Next]_vars => TypeInv' BY TypePas
<1>2. TypeInv /\ ServiInv /\ [Next]_vars => ServiInv' BY ServiPas
<1>3. ServiInv => ServiPourLui BY DEF ServiInv
<1> QED BY TypeInit, ServiInit, <1>1, <1>2, <1>3, PTL DEF Spec

------------------------------------------------------------------------------
(* What a run did, and what it says of it. *)

\* The histories hold what the accounts are in and what the run read of them.
Note ==
  etape # "selection" =>
    \A m \in Machines :
      /\ VersLe(desire, parc[m]) \/ VersLe(desire, lu[m]) => m \in passe
      /\ ALInverse(desire, parc[m]) \/ ALInverse(desire, lu[m]) => m \in aQuitter

\* What was announced as done was waited for.
Attendu == \A m \in Machines : resultat[m] = "changed" /\ ~check => m \in passe

\* A green run published the sorting of its group.
Publie ==
  etape = "vert" =>
    /\ operation = [changed |-> AAgir, already_compliant |-> Deja, refused |-> EnVol,
                    unmeasured |-> {}]
    /\ Illisibles = {}
    /\ \A m \in AAgir : resultat[m] = "changed"

JeuInv == Note /\ Attendu /\ Publie /\ RienSansBesoin

LEMMA JeuInit == Init => JeuInv
  BY DEF Init, JeuInv, Note, Attendu, Publie, RienSansBesoin, Rien

\* Nothing of the run is there before its group is chosen.
LEMMA JeuSelection ==
  ASSUME TypeInv, etape = "selection", etape' = "selection",
         UNCHANGED <<resultat, envoyees>>
  PROVE  JeuInv'
  BY DEF TypeInv, Cadre, JeuInv, Note, Attendu, Publie, RienSansBesoin, Rien

LEMMA JeuChoisir ==
  ASSUME TypeInv, Choisir
  PROVE  JeuInv'
<1>1. lu' = NonLu /\ resultat' = Rien /\ envoyees' = {} /\ parc' = parc /\ etape' # "vert"
  BY DEF Choisir, compteVars, TypeInv, Cadre
<1>2. /\ passe' = {m \in Machines : VersLe(desire', parc'[m])}
      /\ aQuitter' = {m \in Machines : ALInverse(desire', parc'[m])}
  BY <1>1 DEF Choisir
<1>3. \A m \in Machines : ~VersLe(desire', lu'[m]) /\ ~ALInverse(desire', lu'[m])
  BY <1>1 DEF NonLu, VersLe, ALInverse, Eteintes
<1> QED BY <1>1, <1>2, <1>3 DEF JeuInv, Note, Attendu, Publie, RienSansBesoin, Rien

LEMMA JeuLire ==
  ASSUME TypeInv, JeuInv, LireMachine
  PROVE  JeuInv'
<1>1. UNCHANGED <<parc, inv, etape, desire, check, resultat, envoyees, passe, aQuitter>>
      /\ etape = "lecture"
  BY DEF LireMachine, compteVars, inventaireVars, historique
<1>2. PICK n \in Machines : lu' \in {[lu EXCEPT ![n] = "illisible"], [lu EXCEPT ![n] = parc[n]]}
  <2>1. Suivante(Restantes) \in Machines
    BY SuivanteDans DEF LireMachine, Restantes, TypeInv, TypeOK, InventaireTypeOK, Inventaires
  <2> QED BY <2>1 DEF LireMachine
<1>3. \A m \in Machines : lu'[m] \in {lu[m], "illisible", parc[m]}
  BY <1>2 DEF TypeInv, TypeOK
<1>4. Note'
  BY <1>1, <1>3 DEF JeuInv, Note, VersLe, ALInverse, Eteintes
<1> QED BY <1>1, <1>4 DEF JeuInv, Attendu, Publie, RienSansBesoin

LEMMA JeuEnvoyer ==
  ASSUME TypeInv, JeuInv, Envoyer
  PROVE  JeuInv'
<1>1. UNCHANGED <<inv, etape, desire, check, lu>> /\ etape = "action" /\ ~check
  BY DEF Envoyer, inventaireVars
<1> DEFINE n == Suivante(AEnvoyer)
<1>2. n \in AAgir /\ n \in inv.hotes /\ n \in Machines
  BY SuivanteDans DEF Envoyer, AEnvoyer, AAgir, TypeInv, TypeOK, InventaireTypeOK, Inventaires
<1>3. n \in aQuitter
  <2>1. ALInverse(desire, lu[n])
    BY <1>2 DEF AAgir, Depart, ALInverse, Eteintes
  <2> QED BY <1>1, <1>2, <2>1 DEF JeuInv, Note
<1>4. /\ passe' = passe \cup {m \in Machines : VersLe(desire, parc'[m])}
      /\ aQuitter' = aQuitter \cup {m \in Machines : ALInverse(desire, parc'[m])}
      /\ envoyees' = envoyees \cup {n}
      /\ \E r \in {"attend", "echec"} : resultat' = [resultat EXCEPT ![n] = r]
  BY DEF Envoyer, Noter, Resultat
<1> HIDE DEF n
<1>5. Note' BY <1>1, <1>4 DEF JeuInv, Note
<1>6. Attendu'
  BY <1>1, <1>4 DEF JeuInv, Attendu, TypeInv, TypeOK
<1>7. RienSansBesoin' BY <1>1, <1>2, <1>3, <1>4 DEF JeuInv, RienSansBesoin
<1> QED BY <1>1, <1>5, <1>6, <1>7 DEF JeuInv, Publie

LEMMA JeuRepondre ==
  ASSUME TypeInv, JeuInv, Annoncer \/ Attendre
  PROVE  JeuInv'
<1>1. UNCHANGED <<parc, inv, etape, desire, check, lu, envoyees, passe, aQuitter>>
      /\ etape = "action"
  BY DEF Annoncer, Attendre, compteVars, inventaireVars, historique
<1>2. Attendu'
  <2>1. CASE Annoncer
    BY <1>1, <2>1 DEF Annoncer, Attendu
  <2>2. CASE Attendre
    <3>1. PICK m \in Attendues, r \in {"changed", "echec"} :
            resultat' = [resultat EXCEPT ![m] = r] /\ (r = "changed" => Aboutie(m))
      BY <2>2 DEF Attendre, Resultat
    <3>2. m \in Machines
      BY DEF Attendues, AAgir, TypeInv, TypeOK, InventaireTypeOK, Inventaires
    <3>3. r = "changed" => m \in passe
      BY <1>1, <3>1, <3>2 DEF Aboutie, Vise, VersLe, JeuInv, Note
    <3> QED BY <1>1, <3>1, <3>3 DEF JeuInv, Attendu, TypeInv, TypeOK
  <2> QED BY <2>1, <2>2
<1> QED BY <1>1, <1>2 DEF JeuInv, Note, Publie, RienSansBesoin

LEMMA JeuPublier ==
  ASSUME TypeInv, JeuInv, Publier
  PROVE  JeuInv'
<1>1. UNCHANGED <<parc, inv, desire, check, lu, resultat, envoyees, passe, aQuitter>>
      /\ etape = "action"
  BY DEF Publier, compteVars, inventaireVars, historique
<1>2. UNCHANGED <<AAgir, Deja, EnVol, Illisibles>>
  BY <1>1 DEF AAgir, Deja, EnVol, Illisibles
<1>3. ASSUME etape' = "vert" PROVE Publie'
  <2>1. /\ AEnvoyer = {} /\ Attendues = {} /\ Echouees = {} /\ Illisibles = {}
        /\ operation' = [changed |-> {m \in AAgir : resultat[m] = "changed"},
                         already_compliant |-> Deja, refused |-> EnVol,
                         unmeasured |-> Illisibles]
    BY <1>3 DEF Publier
  <2>2. AAgir \subseteq Machines
    BY DEF AAgir, TypeInv, TypeOK, InventaireTypeOK, Inventaires
  <2>3. \A m \in AAgir : resultat[m] = "changed"
    BY <2>1, <2>2 DEF AEnvoyer, Attendues, Echouees, TypeInv, TypeOK
  <2>4. {m \in AAgir : resultat[m] = "changed"} = AAgir
    BY <2>3
  <2> QED BY <1>1, <1>2, <2>1, <2>3, <2>4 DEF Publie
<1> QED BY <1>1, <1>3 DEF JeuInv, Note, Attendu, Publie, RienSansBesoin

\* The accounts change: the histories follow.
LEMMA JeuNoter ==
  ASSUME JeuInv, UNCHANGED <<inv, etape, desire, check, lu, resultat, operation, envoyees>>,
         etape # "selection", Noter(desire)
  PROVE  JeuInv'
<1>1. UNCHANGED <<AAgir, Deja, EnVol, Illisibles>>
  BY DEF AAgir, Deja, EnVol, Illisibles
<1> QED BY <1>1 DEF JeuInv, Note, Attendu, Publie, RienSansBesoin, Noter

LEMMA JeuPas ==
  ASSUME TypeInv, JeuInv, [Next]_vars
  PROVE  JeuInv'
<1>1. CASE UNCHANGED vars \/ Repos
  <2>1. UNCHANGED <<parc, inv, etape, desire, check, lu, resultat, operation, envoyees,
                    passe, aQuitter>>
    BY <1>1 DEF Repos, vars, compteVars, inventaireVars, roleVars
  <2>2. UNCHANGED <<AAgir, Deja, EnVol, Illisibles>>
    BY <2>1 DEF AAgir, Deja, EnVol, Illisibles
  <2> QED BY <2>1, <2>2 DEF JeuInv, Note, Attendu, Publie, RienSansBesoin
<1>2. CASE Commencer \/ Parcourir
  BY <1>2, JeuSelection DEF Commencer, Parcourir, Analyser, Decouvrir, Refuser, Rendre, roleVars,
     TypeInv, Cadre
<1>3. CASE Trier
  <2>1. UNCHANGED <<parc, inv, desire, check, lu, resultat, envoyees, passe, aQuitter>>
        /\ etape = "lecture" /\ etape' = "action"
    BY <1>3 DEF Trier, compteVars, inventaireVars, historique
  <2> QED BY <2>1 DEF JeuInv, Note, Attendu, Publie, RienSansBesoin
<1>4. CASE Finir
  BY <1>4 DEF Finir, JeuInv, Note, Attendu, Publie, RienSansBesoin, Rien
<1>5. CASE Changer
  BY <1>5, JeuSelection, JeuNoter DEF Changer, inventaireVars, roleVars
<1>6. CASE \E m \in Machines : Aboutir(m)
  <2>1. etape # "selection"
    BY <1>6 DEF Aboutir, TypeInv, Cadre, Rien
  <2> QED BY <1>6, <2>1, JeuNoter DEF Aboutir, inventaireVars, roleVars
<1> QED
  BY <1>1, <1>2, <1>3, <1>4, <1>5, <1>6, JeuChoisir, JeuLire, JeuEnvoyer, JeuRepondre, JeuPublier
  DEF Next, Role

\* A green run accounts for its group.
LEMMA BilanDeVert == ASSUME TypeInv, JeuInv PROVE BilanVrai
<1> SUFFICES ASSUME etape = "vert"
             PROVE  /\ inv.hotes = UNION {operation[f] : f \in DOMAIN operation}
                    /\ \A f, g \in DOMAIN operation : f # g => operation[f] \cap operation[g] = {}
                    /\ \A m \in inv.hotes : lu[m] # "illisible"
                    /\ operation.already_compliant \subseteq passe
                    /\ ~check => operation.changed \subseteq passe
  BY DEF BilanVrai
<1>1. inv.hotes \subseteq Machines
  BY DEF TypeInv, TypeOK, InventaireTypeOK, Inventaires
<1>2. /\ operation = [changed |-> AAgir, already_compliant |-> Deja, refused |-> EnVol,
                      unmeasured |-> {}]
      /\ Illisibles = {}
      /\ \A m \in AAgir : resultat[m] = "changed"
  BY DEF JeuInv, Publie
<1>3. DOMAIN operation = {"changed", "already_compliant", "refused", "unmeasured"}
  BY <1>2
<1>4. /\ operation["changed"] = AAgir /\ operation["already_compliant"] = Deja
      /\ operation["refused"] = EnVol /\ operation["unmeasured"] = {}
  BY <1>2
<1>5. /\ AAgir \cap Deja = {} /\ EnVol = inv.hotes \ (Deja \cup AAgir)
      /\ AAgir \subseteq inv.hotes /\ Deja \subseteq inv.hotes
  BY <1>2 DEF AAgir, Deja, EnVol, Vise, Depart
<1>6. inv.hotes = UNION {operation[f] : f \in DOMAIN operation}
  BY <1>3, <1>4, <1>5
<1>7. \A f, g \in DOMAIN operation : f # g => operation[f] \cap operation[g] = {}
  BY <1>3, <1>4, <1>5
<1>8. \A m \in inv.hotes : lu[m] # "illisible"
  BY <1>2 DEF Illisibles
<1>9. Deja \subseteq passe
  BY <1>1 DEF Deja, Vise, VersLe, JeuInv, Note
<1>10. ~check => AAgir \subseteq passe
  BY <1>1, <1>2, <1>5 DEF JeuInv, Attendu
<1> QED BY <1>4, <1>6, <1>7, <1>8, <1>9, <1>10

\* Whatever the inventory served and whatever moves meanwhile, an action goes only to a
\* machine the run saw in a state to leave.
THEOREM Besoin == Spec => []RienSansBesoin
<1>1. TypeInv /\ [Next]_vars => TypeInv' BY TypePas
<1>2. TypeInv /\ JeuInv /\ [Next]_vars => JeuInv' BY JeuPas
<1>3. JeuInv => RienSansBesoin BY DEF JeuInv
<1> QED BY TypeInit, JeuInit, <1>1, <1>2, <1>3, PTL DEF Spec

\* A green run names every machine of its group once, and says of none that it is where
\* it never was.
THEOREM Bilan == Spec => []BilanVrai
<1>1. TypeInv /\ [Next]_vars => TypeInv' BY TypePas
<1>2. TypeInv /\ JeuInv /\ [Next]_vars => JeuInv' BY JeuPas
<1>3. TypeInv /\ JeuInv => BilanVrai BY BilanDeVert
<1> QED BY TypeInit, JeuInit, <1>1, <1>2, <1>3, PTL DEF Spec
==============================================================================
