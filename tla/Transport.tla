------------------------------ MODULE Transport ------------------------------
(***************************************************************************)
(* One call of the Scaleway API, as every module of the collection makes   *)
(* it: ScalewayApi.request and its loop _send, the decision to replay      *)
(* (_attente_avant_reessai), the Retry-After header, and the error that    *)
(* leaves the call.  The API is the environment: a transmission may be     *)
(* applied, refused or lost, before or after the client stopped waiting    *)
(* for it.                                                                 *)
(***************************************************************************)
EXTENDS Integers, Sequences

CONSTANTS
  MAX_REESSAIS,   \* additional calls granted to an operation that may be replayed
  ATTENTES,       \* seconds before the n-th replay, when the server said nothing
  ATTENTE_MAX,    \* ceiling of what a Retry-After may make the module wait
  Politiques,     \* the policies of the operations considered
  Statuts,        \* the HTTP statuses the API answers with
  RetryAfters     \* the Retry-After headers it may join: [forme, valeur]

Min2(a, b) == IF a <= b THEN a ELSE b
Max2(a, b) == IF a >= b THEN a ELSE b

TROP_DE_REQUETES == 429
AMBIGUS == {500, 502, 503, 504}

ASSUME TransportAssumption ==
  /\ MAX_REESSAIS \in Nat
  /\ ATTENTE_MAX \in Nat
  /\ ATTENTES \in Seq(0..ATTENTE_MAX) /\ ATTENTES # <<>>
  /\ Politiques \subseteq {"never", "limited", "safe"}
  /\ Statuts \subseteq 200..599
  /\ RetryAfters \subseteq [forme : {"absent", "secondes", "date", "illisible"},
                            valeur : Int]

VARIABLES
  retry,      \* Operation.retry of the call under way
  tentative,  \* the loop counter of _send
  pc,         \* "envoi", "attend" (blocked in requests.request), "epuise", "fini"
  dormi,      \* seconds slept between two transmissions, in all
  demandes,   \* what became of each transmission: the API's side
  issue       \* what request() returned or raised

vars == <<retry, tentative, pc, dormi, demandes, issue>>

Tentatives == 0..MAX_REESSAIS
Sorts == {"non_emise", "en_vol", "traitee", "ecartee"}
\* "http" and "illisible" and "transport" are the three errors request() raises.
Natures == {"aucune", "charge", "http", "illisible", "transport"}

TypeOK ==
  /\ retry \in Politiques
  /\ tentative \in 0..(MAX_REESSAIS + 1)
  /\ pc \in {"envoi", "attend", "epuise", "fini"}
  /\ dormi \in Nat
  /\ demandes \in [Tentatives -> Sorts]
  /\ issue \in [nature : Natures, statut : {0} \cup Statuts]

------------------------------------------------------------------------------
(* What the code decides, as pure operators. *)

Aucune == -1     \* Python's None: no wait, the response is returned

\* The wait before the replay number t, when the server asked for nothing.
AttenteParDefaut(t) == ATTENTES[Min2(t, Len(ATTENTES) - 1) + 1]

\* A number of seconds or a date (here: the seconds left until it), never
\* negative; anything else is None.
SecondesDeRetryAfter(entete) ==
  IF entete.forme \in {"secondes", "date"} THEN Max2(0, entete.valeur) ELSE Aucune

\* Mutant: the server is obeyed whatever it asks for.
Mut_AttenteSurRefus(entete, t) ==
  IF SecondesDeRetryAfter(entete) = Aucune THEN AttenteParDefaut(t)
                                           ELSE SecondesDeRetryAfter(entete)

AttenteSurRefus(entete, t) ==
  LET demandee == SecondesDeRetryAfter(entete)
  IN  IF demandee = Aucune THEN AttenteParDefaut(t)
      ELSE IF demandee <= ATTENTE_MAX THEN demandee ELSE Aucune

\* Mutants: an ambiguous status replayed for a write too; the policy "never"
\* forgotten; one replay too many.
Mut_AmbiguRejoue(politique, statut, entete, t) ==
  IF statut < 400 \/ t >= MAX_REESSAIS \/ politique = "never" THEN Aucune
  ELSE IF statut = TROP_DE_REQUETES THEN AttenteSurRefus(entete, t)
  ELSE IF statut \in AMBIGUS THEN AttenteParDefaut(t) ELSE Aucune

Mut_NeverOubliee(politique, statut, entete, t) ==
  IF statut < 400 \/ t >= MAX_REESSAIS THEN Aucune
  ELSE IF statut = TROP_DE_REQUETES THEN AttenteSurRefus(entete, t)
  ELSE IF statut \in AMBIGUS /\ politique = "safe" THEN AttenteParDefaut(t) ELSE Aucune

Mut_UnReessaiDeTrop(politique, statut, entete, t) ==
  IF statut < 400 \/ t > MAX_REESSAIS \/ politique = "never" THEN Aucune
  ELSE IF statut = TROP_DE_REQUETES THEN AttenteSurRefus(entete, t)
  ELSE IF statut \in AMBIGUS /\ politique = "safe" THEN AttenteParDefaut(t) ELSE Aucune

AttenteAvantReessai(politique, statut, entete, t) ==
  IF statut < 400 \/ t >= MAX_REESSAIS \/ politique = "never" THEN Aucune
  ELSE IF statut = TROP_DE_REQUETES THEN AttenteSurRefus(entete, t)
  ELSE IF statut \in AMBIGUS /\ politique = "safe" THEN AttenteParDefaut(t)
  ELSE Aucune

\* Mutant: a transport failure replayed whatever the policy.
Mut_RejouerApresPanne(politique, t) == t # MAX_REESSAIS

RejouerApresPanne(politique, t) == politique = "safe" /\ t # MAX_REESSAIS

\* What request() makes of the response _send returned.  "lisible": its body is JSON.
IssueDeLaReponse(statut, lisible) ==
  [nature |-> IF statut >= 400 THEN "http" ELSE IF lisible THEN "charge" ELSE "illisible",
   statut |-> statut]

------------------------------------------------------------------------------
Init ==
  /\ retry \in Politiques
  /\ tentative = 0
  /\ pc = "envoi"
  /\ dormi = 0
  /\ demandes = [n \in Tentatives |-> "non_emise"]
  /\ issue = [nature |-> "aucune", statut |-> 0]

\* One turn of the loop sends the request.
Emettre ==
  /\ pc = "envoi"
  /\ demandes' = [demandes EXCEPT ![tentative] = "en_vol"]
  /\ pc' = "attend"
  /\ UNCHANGED <<retry, tentative, dormi, issue>>

\* Sleep, then the next turn; a loop that ran out of turns raises the exception
\* its comment calls unreachable.
Dormir(secondes) ==
  /\ dormi' = dormi + secondes
  /\ tentative' = tentative + 1
  /\ pc' = IF tentative + 1 \in Tentatives THEN "envoi" ELSE "epuise"
  /\ UNCHANGED <<retry, demandes, issue>>

Conclure(resultat) ==
  /\ issue' = resultat
  /\ pc' = "fini"
  /\ UNCHANGED <<retry, tentative, dormi, demandes>>

\* What a status says of the transmission it answers: a success was applied; a
\* refusal (429 comes from the limiter, before the API) was not; after an
\* ambiguous status nobody knows.
Compatible(statut, sort) ==
  \/ statut < 400 /\ sort = "traitee"
  \/ statut \in AMBIGUS
  \/ statut >= 400 /\ statut \notin AMBIGUS /\ sort = "ecartee"

Recevoir(statut, entete, lisible) ==
  /\ pc = "attend"
  /\ Compatible(statut, demandes[tentative])
  /\ LET attente == AttenteAvantReessai(retry, statut, entete, tentative)
     IN  IF attente = Aucune THEN Conclure(IssueDeLaReponse(statut, lisible))
                             ELSE Dormir(attente)

\* A timeout, a refused or broken connection: the request may have left.
Panne ==
  /\ pc = "attend"
  /\ IF RejouerApresPanne(retry, tentative)
       THEN Dormir(AttenteParDefaut(tentative))
       ELSE Conclure([nature |-> "transport", statut |-> 0])

(* The API: it applies a transmission or drops it, at any later time. *)
Traiter(n) ==
  /\ demandes[n] = "en_vol"
  /\ demandes' = [demandes EXCEPT ![n] = "traitee"]
  /\ UNCHANGED <<retry, tentative, pc, dormi, issue>>

Ecarter(n) ==
  /\ demandes[n] = "en_vol"
  /\ demandes' = [demandes EXCEPT ![n] = "ecartee"]
  /\ UNCHANGED <<retry, tentative, pc, dormi, issue>>

Client == \/ Emettre
          \/ \E s \in Statuts, e \in RetryAfters, l \in BOOLEAN : Recevoir(s, e, l)
          \/ Panne

Api == \E n \in Tentatives : Traiter(n) \/ Ecarter(n)

\* The call is over and nothing of it is left on the wire.
Repos == /\ pc \in {"fini", "epuise"}
         /\ \A n \in Tentatives : demandes[n] # "en_vol"
         /\ UNCHANGED vars

Next == Client \/ Api \/ Repos

Spec == Init /\ [][Next]_vars

\* The code runs, and requests.request returns or raises: it is given a timeout.
FairSpec == Spec /\ WF_vars(Client)

------------------------------------------------------------------------------
(* Properties. *)

Appliquees == {n \in Tentatives : demandes[n] = "traitee"}
EnVol == {n \in Tentatives : demandes[n] = "en_vol"}

\* A write is never applied twice, the transmissions the client gave up on
\* included: the loop of _send replays it only when the one before cannot land.
AuPlusUneFois ==
  retry # "safe" => \A m, n \in Appliquees \cup EnVol : m = n

\* A write reported refused (an HTTP status that is not an ambiguous one) had no
\* effect and will have none, whatever was replayed before that answer.
RefusSansEffet ==
  (retry # "safe" /\ issue.nature = "http" /\ issue.statut \notin AMBIGUS)
    => Appliquees \cup EnVol = {}

\* request() returned a payload: the write took effect, once and already.
SuccesApplique ==
  issue.nature = "charge" => tentative \in Appliquees /\ (retry # "safe" => EnVol = {})

\* An action is transmitted once at most: not even a 429 replays it.
ActionJamaisRejouee ==
  retry = "never" => \A n \in Tentatives : n > 0 => demandes[n] = "non_emise"

\* The end of the loop is unreachable, and the module never looks frozen: the
\* replays of one call sleep at most ATTENTE_MAX each.
BoucleBornee ==
  /\ pc # "epuise"
  /\ dormi <= MAX_REESSAIS * ATTENTE_MAX

\* Every call ends, whatever the API answers.
AppelTermine == <>(pc = "fini")

(* The inductive invariant: what the loop knows of the transmissions behind it
   and ahead of it. *)

\* A turn is only taken while one is left, and an action has one.
Tours == tentative \in Tentatives /\ (retry = "never" => tentative = 0)

\* A write goes on to its next transmission only after a refusal.
Passees == retry # "safe" =>
             \A n \in Tentatives : n < tentative => demandes[n] = "ecartee"

Futures == \A n \in Tentatives :
             (n > tentative \/ (n = tentative /\ pc = "envoi")) => demandes[n] = "non_emise"

\* What the caller is told agrees with what the API did of the last transmission.
IssueExacte ==
  /\ pc # "fini" => issue.nature = "aucune"
  /\ issue.nature = "charge" => demandes[tentative] = "traitee"
  /\ (issue.nature = "http" /\ issue.statut \notin AMBIGUS)
       => demandes[tentative] = "ecartee"

IInv == /\ TypeOK
        /\ Tours
        /\ Passees
        /\ Futures
        /\ IssueExacte
        /\ pc # "epuise"
        /\ dormi <= tentative * ATTENTE_MAX

(* The contract the callers rely on. *)
Contrat == INSTANCE OneShot WITH
  Requetes <- Tentatives,
  rejouable <- retry = "safe",
  effet <- Appliquees,
  verdict <- IF pc # "fini" THEN "attente"
             ELSE IF issue.nature = "charge" THEN "fait"
             ELSE IF issue.nature = "http" /\ issue.statut \notin AMBIGUS THEN "refuse"
             ELSE "inconnu"

\* A call implements OneShot: the replays of _send are not seen by its caller.
RespecteLeContrat == Contrat!Spec

==============================================================================
