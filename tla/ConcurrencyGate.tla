--------------------------- MODULE ConcurrencyGate ---------------------------
(***************************************************************************)
(* What the connection limiter promises, with no counter, no Redis and no  *)
(* failure in sight: a gate with Limit places.  A request enters only when *)
(* a place is free, leaves at will (alone, or together with the others of  *)
(* a crashed worker), and a request turned away changes nothing.  The one  *)
(* concession is slack: the number of places the gate gives twice because  *)
(* it forgot that somebody is inside.                                      *)
(***************************************************************************)
EXTENDS Integers, FiniteSets

CONSTANTS Req,    \* the requests
          Limit   \* places behind the gate

VARIABLES inside, \* the requests behind the gate
          slack   \* places given twice

gateVars == <<inside, slack>>

GateInit == inside = {} /\ slack = 0

Enter(r) == /\ r \in Req \ inside
            /\ Cardinality(inside) < Limit + slack
            /\ inside' = inside \cup {r}
            /\ UNCHANGED slack

Leave(S) == /\ inside' = inside \ S
            /\ UNCHANGED slack

\* The gate's memory is reset; whatever it believes afterwards, the requests
\* inside are still covered by the places it knows of and the slack.
Forget == /\ slack' \in Int
          /\ Cardinality(inside) <= Limit + slack'
          /\ UNCHANGED inside

GateNext == \/ \E r \in Req : Enter(r)
            \/ \E S \in SUBSET Req : Leave(S)
            \/ Forget

GateSpec == GateInit /\ [][GateNext]_gateVars
=============================================================================
