------------------------------ MODULE MCReqLimit ------------------------------
(* Instances of ReqLimit: the requests are interchangeable. *)
EXTENDS ReqLimit, TLC

Symmetry == Permutations(Req)
=============================================================================
