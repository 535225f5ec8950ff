----------------------------- MODULE MCTransport -----------------------------
(* The constants of scaleway.py as they are, every kind of status and every
   form of Retry-After: readable or not, negative, at the ceiling, one above. *)
EXTENDS Transport

MCAttentes == <<1, 3, 8>>
MCStatuts == {200, 404, 429, 501, 503}
MCRetryAfters ==
  {[forme |-> "absent", valeur |-> 0], [forme |-> "illisible", valeur |-> 0],
   [forme |-> "date", valeur |-> -5]}
    \cup [forme : {"secondes"}, valeur : {30, 31}]

==============================================================================
