------------------------------- MODULE OneShot -------------------------------
(***************************************************************************)
(* What the caller of one call may rely on, whatever the transport does    *)
(* between the two.  A write takes effect at most once; an answer "fait"   *)
(* means it did, an answer "refuse" means it did not and never will, and   *)
(* "inconnu" promises nothing: the effect may be there, may still land     *)
(* later, or may never land.  A read ("rejouable") may be served any       *)
(* number of times, and "fait" means it was.  Transport implements this;   *)
(* the modules that issue writes (Gestion, Action) only rely on it.        *)
(***************************************************************************)

CONSTANT Requetes     \* the identities a transmission may have

VARIABLES rejouable,  \* the operation changes nothing: it may be served again
          effet,      \* the transmissions the API applied: none, or one for a write
          verdict     \* what the caller was told

vars == <<rejouable, effet, verdict>>

Verdicts == {"attente", "fait", "refuse", "inconnu"}

TypeOK == /\ rejouable \in BOOLEAN
          /\ effet \in SUBSET Requetes
          /\ verdict \in Verdicts

Init == /\ rejouable \in BOOLEAN
        /\ effet = {}
        /\ verdict = "attente"

\* The API applies the call.  It may do so after the caller gave up waiting.
Appliquer == /\ rejouable \/ (effet = {} /\ verdict \in {"attente", "inconnu"})
             /\ \E n \in Requetes : effet' = effet \cup {n}
             /\ UNCHANGED <<rejouable, verdict>>

\* The caller is told something.
Conclure(v) == /\ verdict = "attente"
               /\ v = "fait" => effet # {}
               /\ v = "refuse" => rejouable \/ effet = {}
               /\ verdict' = v
               /\ UNCHANGED <<rejouable, effet>>

Next == Appliquer \/ \E v \in {"fait", "refuse", "inconnu"} : Conclure(v)

Spec == Init /\ [][Next]_vars
==============================================================================
