------------------------------- MODULE ReqLimit -------------------------------
(***************************************************************************)
(* The request-rate limiter: util/ratelimit.lua (a leaky bucket kept as    *)
(* one JSON value in Redis) and access/reqlimit_logic.lua.                 *)
(*                                                                         *)
(* A request reads the clock, then GETs the bucket, computes the new       *)
(* level, SETs it and gives the key a time to live: four steps between     *)
(* which other requests run.  An overflow may store a ban.  Errors of      *)
(* Redis are not errors here: do_command answers nil, which GET takes for  *)
(* "no bucket" and SET and EXPIRE ignore.                                  *)
(*                                                                         *)
(* Time is counted in seconds.  Unit stands for the 1000 of the code (the  *)
(* level of one request), so that levels stay small integers.              *)
(***************************************************************************)
EXTENDS Integers, FiniteSets, RedisIresty

CONSTANTS Req,        \* the requests governed by one rule
          Unit,       \* level added by one request (1000 in the code)
          RateNum,    \* n of "n r/s" or "n r/m"
          Scale,      \* 1 for r/s, 60 for r/m
          BurstNum,   \* args.burst
          Duration,   \* args.duration: length of a ban, 0 for no ban
          Integral,   \* Duration is a whole number of seconds
          TTL,        \* time to live of a bucket (60 in the code)
          DryRun,     \* reqlimitconf.dry_run
          MaxTime,    \* bound: the clock stops here
          MaxFaults   \* bound: commands that fail

ASSUME UnitAssumption == Unit \in Nat \ {0}
\* ratelimit.lua:99, assert(rate > 0 and burst >= 0 and duration >= 0)
ASSUME RateAssumption == /\ RateNum \in Nat \ {0} /\ Scale \in Nat \ {0}
                         /\ BurstNum \in Nat /\ Duration \in Nat
ASSUME TimeAssumption == /\ TTL \in Nat \ {0} /\ MaxTime \in Nat
                         /\ MaxFaults \in Nat
ASSUME FlagAssumption == Integral \in BOOLEAN /\ DryRun \in BOOLEAN

VARIABLES now,      \* the clock
          bucket,   \* what the key holds: a set with at most one record
          deadline, \* when Redis removes the key; Never without EXPIRE
          pc,       \* where each request is
          started,  \* the clock each request read
          level,    \* the level (excess) each request computed
          faults,   \* failed commands so far
          disturbed \* history: requests overlapped, or a command failed

store == <<bucket, deadline>>
vars  == <<now, bucket, deadline, pc, started, level, faults, disturbed>>

\* ratelimit.lua:101-102
Burst == BurstNum * Unit
Rate  == (RateNum * Unit) \div Scale

Never    == -1
InFlight == {"get", "set", "expire", "setban", "expireban"}
Phase    == {"idle", "passed", "denied", "dryrun"} \cup InFlight
Bucket   == [excess : Nat, last : Nat, forbidden : {0, 1}]

Init == /\ now = 0 /\ bucket = {} /\ deadline = Never
        /\ pc = [r \in Req |-> "idle"]
        /\ started = [r \in Req |-> 0]
        /\ level = [r \in Req |-> 0]
        /\ faults = 0 /\ disturbed = FALSE

Goto(r, p) == pc' = [pc EXCEPT ![r] = p]

Abs(n) == IF n < 0 THEN -n ELSE n

\* A failed command costs one of the faults and disturbs the history.
Fault(o) == /\ o # "ok" => faults < MaxFaults
            /\ faults' = faults + (IF o = "ok" THEN 0 ELSE 1)

\* What req_limit_logic does when incoming() says "rejected".
req_limit_logic(r) == Goto(r, IF DryRun THEN "dryrun" ELSE "denied")

\* Seeded faults: the drained level is not clipped; one request too little is
\* added; the drain is counted twice.
LevelUnclipped(b, t)   == b.excess - Rate * Abs(t - b.last) + Unit
LevelUncharged(b, t) ==
    LET e == b.excess - Rate * Abs(t - b.last) IN IF e < 0 THEN 0 ELSE e

\* ratelimit.lua:43-47, the level after draining and adding one request.
Level(b, t) ==
    LET e == b.excess - Rate * Abs(t - b.last) + Unit IN IF e < 0 THEN 0 ELSE e

(***************************************************************************)
(* redis_commit, one action per command.                                   *)
(***************************************************************************)

\* The request reads the clock and sends its GET.
Begin(r) ==
    /\ pc[r] = "idle"
    /\ started' = [started EXCEPT ![r] = now]
    /\ Goto(r, "get")
    /\ disturbed' = (disturbed \/ \E q \in Req : pc[q] \in InFlight)
    /\ UNCHANGED <<now, store, level, faults>>

\* Seeded fault: the ban is looked at only when the level is too high.
GetIgnoresBan(r) ==
    /\ pc[r] = "get"
    /\ IF bucket = {}
         THEN Goto(r, "set") /\ level' = [level EXCEPT ![r] = 0]
         ELSE \E b \in bucket :
                /\ level' = [level EXCEPT ![r] = Level(b, started[r])]
                /\ Goto(r, IF Level(b, started[r]) > Burst THEN "setban" ELSE "set")
    /\ UNCHANGED <<now, store, started, faults, disturbed>>

\* The bucket arrives.  No answer is the same as no bucket: level 0.  A ban
\* is final; a level above burst is a rejection, with a ban if the rule has
\* a duration; anything else is stored.
Get(r) ==
    /\ pc[r] = "get"
    /\ \E o \in {"ok", "lost"} :
         /\ Fault(o)
         /\ disturbed' = (disturbed \/ o # "ok")
         /\ \/ /\ ~Answered(o) \/ bucket = {}
               /\ level' = [level EXCEPT ![r] = 0]
               /\ Goto(r, "set")
            \/ /\ Answered(o)
               /\ \E b \in bucket :
                    \/ /\ b.forbidden = 1
                       /\ req_limit_logic(r)
                       /\ UNCHANGED level
                    \/ /\ b.forbidden = 0
                       /\ level' = [level EXCEPT ![r] = Level(b, started[r])]
                       /\ \/ /\ Level(b, started[r]) <= Burst
                             /\ Goto(r, "set")
                          \/ /\ Level(b, started[r]) > Burst /\ Duration > 0
                             /\ Goto(r, "setban")
                          \/ /\ Level(b, started[r]) > Burst /\ Duration = 0
                             /\ req_limit_logic(r)
    /\ UNCHANGED <<now, store, started>>

\* SET of {level, started, flag}; it also discards the time to live.
Store(r, o, flag) ==
    /\ Fault(o)
    /\ disturbed' = (disturbed \/ o # "ok")
    /\ bucket' = IF Applied(o)
                   THEN {[excess |-> level[r], last |-> started[r], forbidden |-> flag]}
                   ELSE bucket
    /\ deadline' = IF Applied(o) THEN Never ELSE deadline
    /\ UNCHANGED <<now, started, level>>

\* EXPIRE: nothing to do for a key that is gone, refused for a fraction.
Expire(o, seconds, whole) ==
    /\ Fault(o)
    /\ disturbed' = (disturbed \/ o # "ok")
    /\ deadline' = IF Applied(o) /\ whole /\ bucket # {} THEN now + seconds ELSE deadline
    /\ UNCHANGED <<now, bucket, started, level>>

\* Seeded fault: the refreshed bucket keeps no time to live.
SetForgetsExpire(r) == pc[r] = "set" /\ Store(r, "ok", 0) /\ Goto(r, "passed")

\* ratelimit.lua:67-75, the request passes.
Set(r) == /\ pc[r] = "set"
          /\ \E o \in Outcome : Store(r, o, 0)
          /\ Goto(r, "expire")

ExpireBucket(r) == /\ pc[r] = "expire"
                   /\ \E o \in Outcome : Expire(o, TTL, TRUE)
                   /\ Goto(r, "passed")

\* ratelimit.lua:52-64, the request overflows the bucket and is banned.
SetBan(r) == /\ pc[r] = "setban"
             /\ \E o \in Outcome : Store(r, o, 1)
             /\ Goto(r, "expireban")

\* Seeded fault: the ban gets the time to live of a bucket.
ExpireBanTooLate(r) == /\ pc[r] = "expireban"
                       /\ Expire("ok", TTL, TRUE)
                       /\ req_limit_logic(r)

ExpireBan(r) == /\ pc[r] = "expireban"
                /\ \E o \in Outcome : Expire(o, Duration, Integral)
                /\ req_limit_logic(r)

\* A second passes; Redis removes the key at its deadline.  A request caught
\* between its clock and its GET computes with a bucket it never saw.
Tick ==
    LET gone == deadline # Never /\ deadline <= now + 1 IN
    /\ now < MaxTime
    /\ now' = now + 1
    /\ bucket' = IF gone THEN {} ELSE bucket
    /\ deadline' = IF gone THEN Never ELSE deadline
    /\ disturbed' = (disturbed \/ (gone /\ \E r \in Req : pc[r] = "get"))
    /\ UNCHANGED <<pc, started, level, faults>>

Step(r) == \/ Begin(r) \/ Get(r) \/ Set(r) \/ ExpireBucket(r)
           \/ SetBan(r) \/ ExpireBan(r)

Next == Tick \/ \E r \in Req : Step(r)

Spec == Init /\ [][Next]_vars

-----------------------------------------------------------------------------

Banned == \E b \in bucket : b.forbidden = 1
Passed == {r \in Req : pc[r] = "passed"}

\* The instant a passed request may proceed after its delay, in levels: the
\* clock it read plus excess / rate (ratelimit.lua:146).
Proceeds(r) == Rate * started[r] + level[r]

TypeOK == /\ now \in 0..MaxTime
          /\ bucket \in SUBSET Bucket /\ \A b, c \in bucket : b = c
          /\ deadline \in Nat \cup {Never}
          /\ pc \in [Req -> Phase]
          /\ started \in [Req -> 0..MaxTime]
          /\ level \in [Req -> Nat]
          /\ faults \in 0..MaxFaults
          /\ disturbed \in BOOLEAN

\* A key lives at least as long as the debt in it takes to drain.
KeysOutliveDebt == /\ Rate * TTL >= Burst + Unit
                   /\ Duration > 0 => Rate * Duration >= Burst + Unit

\* The rate limit: as long as requests do not overlap and Redis answers, any
\* two requests that pass proceed, after the delay the limiter gave them, at
\* least one request's worth of rate apart, expiries and bans included.
Paced == ~disturbed /\ KeysOutliveDebt =>
           \A q, r \in Passed : q # r => Abs(Proceeds(q) - Proceeds(r)) >= Unit

\* While a ban is stored, no request that runs by itself passes or lifts
\* the ban: nothing but time ends it (ratelimit.lua:40-42).
BanBlocks == [][Banned /\ ~disturbed' =>
                  Passed' = Passed /\ (Banned' \/ now' # now)]_vars

\* A key without a time to live (ratelimit.lua:58 and :71 not yet reached)
\* has a request on its way to give it one, unless a command failed: no
\* interleaving of SETs and EXPIREs leaves an immortal bucket or ban behind.
NoImmortalKey ==
    bucket # {} /\ deadline = Never /\ Integral =>
        \/ faults > 0
        \/ \E r \in Req : pc[r] \in {"expire", "expireban"}

\* An undisturbed ban ends within its duration.
BanNotProlonged == Banned /\ ~disturbed /\ deadline # Never
                     => deadline <= now + Duration

\* What the example rule of reqlimit_logic.lua:16 promises
\* ("burst":0, "duration":0.5): once the banning request is through, the ban
\* has an end.
DocumentedBan == Banned => \/ deadline # Never
                           \/ \E r \in Req : pc[r] \in InFlight
=============================================================================
