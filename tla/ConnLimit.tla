------------------------------ MODULE ConnLimit ------------------------------
(***************************************************************************)
(* The connection limiter: util/connlimit.lua (the counter in Redis),      *)
(* access/connlimit_logic.lua (what a request does with the answer) and    *)
(* log/conn_redis.lua (the release, from a timer after the request).       *)
(*                                                                         *)
(* One Redis key is shared by all requests of one rule.  A request adds 1  *)
(* with INCR and looks at the sum; above Max + Burst it takes its 1 back   *)
(* with a second command.  An admitted request gives its 1 back in the log *)
(* phase.  The leave that brings the sum to 0 gives the key a time to      *)
(* live.  Between any two commands other requests, on this worker or       *)
(* another, run; any command may fail; a worker may die.                   *)
(***************************************************************************)
EXTENDS Integers, FiniteSets, RedisIresty

CONSTANTS Req,        \* the requests governed by one rule
          Worker,     \* nginx worker processes
          Home,       \* the worker that serves each request
          Max,        \* args.max
          Burst,      \* args.burst
          DryRun,     \* args.dry_run
          MaxFaults   \* bound: lost commands, lost timers and dead workers

ASSUME ReqAssumption    == IsFiniteSet(Req)
ASSUME HomeAssumption   == Home \in [Req -> Worker]
\* connlimit.lua:38, assert(max > 0 and burst >= 0 ...)
ASSUME LimitAssumption  == Max \in Nat \ {0} /\ Burst \in Nat
ASSUME DryRunAssumption == DryRun \in BOOLEAN
ASSUME FaultAssumption  == MaxFaults \in Nat

VARIABLES pc,      \* where each request is
          delay,   \* the delay incoming() returned, in units of unit_delay
          cnt,     \* value of the Redis key (0 when it does not exist)
          exists,  \* the key exists
          ttl,     \* the key has a time to live
          faults,  \* faults so far
          leaked,  \* history: increments nobody will take back
          erased   \* history: sum of the values the key had when it expired

key  == <<cnt, exists, ttl>>
vars == <<pc, delay, cnt, exists, ttl, faults, leaked, erased>>

Phase == {"arriving", "rejecting", "sleeping", "serving", "bypass", "denied",
          "leaving", "expiring", "done"}

Init == /\ pc = [r \in Req |-> "arriving"]
        /\ delay = [r \in Req |-> 0]
        /\ cnt = 0 /\ exists = FALSE /\ ttl = FALSE
        /\ faults = 0 /\ leaked = 0 /\ erased = 0

\* Requests whose 1 is in the counter and who will still take it back.
Counted == {r \in Req : pc[r] \in {"rejecting", "sleeping", "serving", "leaving"}}

\* Requests let through with a committed place (ctx.limit_conn is set).
Admitted == {r \in Req : pc[r] \in {"sleeping", "serving", "leaving"}}

\* Those of them that were let through at once.
Undelayed == {r \in Admitted : delay[r] = 0}

Goto(r, p) == pc' = [pc EXCEPT ![r] = p]

Fault(bad) == /\ bad => faults < MaxFaults
              /\ faults' = faults + (IF bad THEN 1 ELSE 0)

\* One INCR or DECR: it creates the key when needed and keeps the time to live.
Bump(o, d) == /\ Fault(~Answered(o))
              /\ cnt' = IF Applied(o) THEN cnt + d ELSE cnt
              /\ exists' = (exists \/ Applied(o))
              /\ UNCHANGED ttl

\* Seeded faults (each stands for a slip in the definition that follows it).
DelayUnguarded(conn) == (conn - 1) \div Max
DelayOffByOne(conn)  == IF conn > Max + 1 THEN (conn - 1) \div Max ELSE 0

\* connlimit.lua:82-88, the multiple of unit_delay.
Delay(conn) == IF conn > Max THEN (conn - 1) \div Max ELSE 0

(***************************************************************************)
(* The access phase.                                                       *)
(***************************************************************************)

\* Seeded fault: the context is filled in before the answer is looked at.
conn_limit_logicCommitsAll(r, answer, d) ==
    Goto(r, IF answer = "error" THEN "bypass" ELSE "serving")

\* What conn_limit_logic does with the answer of incoming(): a rejection
\* ends in 429 unless the rule is a dry run; any other error lets the
\* request through without a place; a delay is slept.
conn_limit_logic(r, answer, d) ==
    \/ answer = "rejected" /\ ~DryRun /\ Goto(r, "denied")
    \/ answer = "rejected" /\ DryRun  /\ Goto(r, "bypass")
    \/ answer = "error"               /\ Goto(r, "bypass")
    \/ answer = "admitted" /\ d > 0   /\ Goto(r, "sleeping")
    \/ answer = "admitted" /\ d <= 0  /\ Goto(r, "serving")

\* Seeded faults: the limit compared with the value before the increment, and
\* with >= instead of >.
IncomingAt(r, limit) ==
    /\ pc[r] = "arriving"
    /\ Bump("ok", 1)
    /\ IF cnt + 1 > limit
         THEN Goto(r, "rejecting") /\ UNCHANGED delay
         ELSE /\ delay' = [delay EXCEPT ![r] = Delay(cnt + 1)]
              /\ conn_limit_logic(r, "admitted", Delay(cnt + 1))
    /\ UNCHANGED <<leaked, erased>>
IncomingComparesOld(r) == IncomingAt(r, Max + Burst + 1)
IncomingRejectsEarly(r) == IncomingAt(r, Max + Burst - 1)

\* incoming(), first command.  A nil answer returns at once; if the server
\* had counted the request, nobody will take that 1 back.
Incoming(r) ==
    /\ pc[r] = "arriving"
    /\ \E o \in Outcome :
         /\ Bump(o, 1)
         /\ \/ /\ ~Answered(o)
               /\ conn_limit_logic(r, "error", 0)
               /\ leaked' = leaked + (IF Applied(o) THEN 1 ELSE 0)
               /\ UNCHANGED delay
            \/ /\ Answered(o) /\ cnt + 1 > Max + Burst
               /\ Goto(r, "rejecting")
               /\ UNCHANGED <<leaked, delay>>
            \/ /\ Answered(o) /\ cnt + 1 <= Max + Burst
               /\ delay' = [delay EXCEPT ![r] = Delay(cnt + 1)]
               /\ conn_limit_logic(r, "admitted", Delay(cnt + 1))
               /\ UNCHANGED leaked
    /\ UNCHANGED erased

\* Seeded fault: the rejected request leaves its 1 in the counter.
RejectKeepsCount(r) == /\ pc[r] = "rejecting"
                       /\ conn_limit_logic(r, "rejected", 0)
                       /\ UNCHANGED <<delay, key, faults, leaked, erased>>

\* incoming(), second command of a request over the limit.  When this DECR
\* fails the answer is an error and not "rejected".
Reject(r) ==
    /\ pc[r] = "rejecting"
    /\ \E o \in Outcome :
         /\ Bump(o, -1)
         /\ conn_limit_logic(r, IF Answered(o) THEN "rejected" ELSE "error", 0)
         /\ leaked' = leaked + (IF Applied(o) THEN 0 ELSE 1)
    /\ UNCHANGED <<delay, erased>>

\* ngx.sleep(delay) returns.
Wake(r) == /\ pc[r] = "sleeping"
           /\ Goto(r, "serving")
           /\ UNCHANGED <<delay, key, faults, leaked, erased>>

(***************************************************************************)
(* The log phase and its timer.                                            *)
(***************************************************************************)

\* Seeded fault: the release also runs for a request that was refused.
LogPhaseReleasesDenied(r) ==
    /\ pc[r] \in {"serving", "bypass", "denied"}
    /\ Goto(r, IF pc[r] # "bypass" THEN "leaving" ELSE "done")
    /\ UNCHANGED <<delay, key, faults, leaked, erased>>

\* The request ends.  conn_redis.lua creates a timer for every request; its
\* callback does something only when the request holds a place.  When the
\* timer cannot be created the place is never given back.
LogPhase(r) ==
    /\ pc[r] \in {"serving", "bypass", "denied"}
    /\ \E created \in BOOLEAN :
         /\ Fault(~created)
         /\ LET holds == pc[r] = "serving" IN
            /\ Goto(r, IF holds /\ created THEN "leaving" ELSE "done")
            /\ leaked' = leaked + (IF holds /\ ~created THEN 1 ELSE 0)
    /\ UNCHANGED <<delay, key, erased>>

\* leaving(), first command.  Only an answer of exactly 0 is followed by
\* EXPIRE; a nil answer returns at once.
Leaving(r) ==
    /\ pc[r] = "leaving"
    /\ \E o \in Outcome :
         /\ Bump(o, -1)
         /\ Goto(r, IF Answered(o) /\ cnt - 1 = 0 THEN "expiring" ELSE "done")
         /\ leaked' = leaked + (IF Applied(o) THEN 0 ELSE 1)
    /\ UNCHANGED <<delay, erased>>

\* leaving(), EXPIRE key 60, whatever the value of the key is by now.
SetExpire(r) ==
    /\ pc[r] = "expiring"
    /\ \E o \in Outcome :
         /\ Fault(~Answered(o))
         /\ ttl' = (ttl \/ (Applied(o) /\ exists))
    /\ Goto(r, "done")
    /\ UNCHANGED <<delay, cnt, exists, leaked, erased>>

(***************************************************************************)
(* The environment.                                                        *)
(***************************************************************************)

\* Redis removes the key 60 seconds after the last EXPIRE.  A request may
\* be served for longer than that, so the model sets no lower bound.
KeyExpires == /\ exists /\ ttl
              /\ erased' = erased + cnt
              /\ cnt' = 0 /\ exists' = FALSE /\ ttl' = FALSE
              /\ UNCHANGED <<pc, delay, faults, leaked>>

\* A worker dies with its requests and its timers.
WorkerCrash(w) ==
    /\ Fault(TRUE)
    /\ LET dead == {r \in Req : Home[r] = w /\ pc[r] # "arriving"} IN
       /\ \E r \in dead : pc[r] # "done"
       /\ pc' = [r \in Req |-> IF r \in dead THEN "done" ELSE pc[r]]
       /\ leaked' = leaked + Cardinality(Counted \cap dead)
    /\ UNCHANGED <<delay, key, erased>>

Step(r) == \/ Incoming(r) \/ Reject(r) \/ Wake(r)
           \/ LogPhase(r) \/ Leaving(r) \/ SetExpire(r)

Next == \/ \E r \in Req : Step(r)
        \/ KeyExpires
        \/ \E w \in Worker : WorkerCrash(w)

\* A request that has started runs to its end: every wait in the code has a
\* timeout (Redis 1 s, the delay, proxy_read_timeout).  Nothing obliges the
\* key to expire, a fault to happen or a request to arrive.
Fairness == \A r \in Req : WF_vars(pc[r] # "arriving" /\ Step(r))

Spec == Init /\ [][Next]_vars /\ Fairness

-----------------------------------------------------------------------------

TypeOK == /\ pc \in [Req -> Phase]
          /\ delay \in [Req -> Nat]
          /\ cnt \in Int
          /\ exists \in BOOLEAN /\ ttl \in BOOLEAN
          /\ faults \in 0..MaxFaults
          /\ leaked \in Nat
          /\ erased \in Int

\* The counter is exactly what the requests that will still take their 1
\* back have put there, plus what failed commands, lost timers and dead
\* workers left behind, minus what expiries of the key swept away.  This is
\* what the INCR / DECR pairs of connlimit.lua have to add up to.
CounterAccounting == cnt = Cardinality(Counted) + leaked - erased

\* connlimit_logic.lua:16-21 for every interleaving and every fault: the
\* requests admitted at one time exceed max + burst by no more than what the
\* expiry of the key forgot.  No lost command and no crash widens the limit.
HardLimit == Cardinality(Admitted) <= Max + Burst + erased

\* Of these, the ones that were let through without a delay number at most
\* max, again up to what the expiry forgot: "we delay requests under 300
\* concurrent connections and above 200".
SoftLimit == Cardinality(Undelayed) <= Max + erased

\* A request is turned away only when max + burst places are held, on their
\* way back or leaked: the limiter never refuses out of thin air.
RejectOnlyWhenFull ==
    [][\A r \in Req : pc[r] = "arriving" /\ pc'[r] = "rejecting"
          => Cardinality(Counted) + leaked >= Max + Burst + erased]_vars

\* What connlimit_logic.lua:16-21 says as it stands ("reject any new requests
\* exceeding 300 connections").  The expiry of a key in use breaks it.
DocumentedLimit == Cardinality(Admitted) <= Max + Burst

\* Every place that is taken is given back: in the end only the leaked ones
\* are missing from the counter.
EventuallyReleased == <>[](cnt = leaked - erased)

\* The limiter implements the gate: admitted requests are inside it, and the
\* only way it gives a place twice is the expiry of the key.
Gate == INSTANCE ConcurrencyGate
          WITH Limit <- Max + Burst, inside <- Admitted, slack <- erased
ImplementsGate == Gate!GateSpec
=============================================================================
