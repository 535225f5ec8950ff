------------------------------ MODULE MCSuivi -------------------------------
(* A zone with an Instance and a load balancer, and a region with a cluster. *)
EXTENDS Suivi

R == {"i1", "l1", "c1"}
Produits == [r \in R |-> CASE r = "i1" -> "instance" [] r = "l1" -> "lb" [] r = "c1" -> "k8s_cluster"]
LesPortees == [r \in R |-> IF r = "c1" THEN "region/a" ELSE "zone/a1"]
Gravites == [r \in R |-> IF r = "c1" THEN "warn" ELSE "fail"]

\* An exception that covers the first run, then expires.
Exceptions == [r \in R |-> IF r = "i1" THEN 1 ELSE 0]

\* One product per scope.
AuditSepare == << <<"instance", "zone/a1">>, <<"k8s_cluster", "region/a">>,
                  <<"k8s_version", "region/a">> >>

\* Two products of one zone.
AuditMele == << <<"instance", "zone/a1">>, <<"lb", "zone/a1">> >>

\* The products fleet_report reads by default.
Releve == << <<"instance", "zone/a1">>, <<"lb", "zone/a1">> >>

Zones == {"zone/a1"}
=============================================================================
