----------------------------- MODULE MCConnLimit -----------------------------
(* Instances of ConnLimit: requests on two workers. *)
EXTENDS ConnLimit

CONSTANTS r1, r2, r3, r4, w1, w2

MCReq  == {r1, r2, r3, r4}
MCHome == [r \in MCReq |-> IF r \in {r1, r2} THEN w1 ELSE w2]
MCWorker == {w1, w2}
=============================================================================
