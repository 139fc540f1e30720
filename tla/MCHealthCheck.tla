---------------------------- MODULE MCHealthCheck ----------------------------
(* Two workers with one thread each.  All thresholds are 2, except that one *)
(* success that a request reports is enough.                                *)
EXTENDS HealthCheck

MCHome == [p1 |-> "w1", p2 |-> "w2"]
MCLimit == [active |-> [k \in Kind |-> 2], passive |-> [[k \in Kind |-> 2] EXCEPT !["success"] = 1]]
=============================================================================
