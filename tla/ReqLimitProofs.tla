---------------------------- MODULE ReqLimitProofs ----------------------------
(***************************************************************************)
(* Proofs about ReqLimit for every set of requests, rate, burst, duration  *)
(* and number of faults.                                                   *)
(***************************************************************************)
EXTENDS ReqLimit, TLAPS

\* At most one request is in flight.
Serial == \A q, r \in Req : pc[q] \in InFlight /\ pc[r] \in InFlight => q = r

\* What request r stores, with the given flag.
Own(r, flag) == [excess |-> level[r], last |-> started[r], forbidden |-> flag]

\* Between its SET and its EXPIRE a request finds its own bucket; before the
\* SET it has seen that there is no ban, and there still is none.
OwnBucket(r) ==
    /\ pc[r] \in {"set", "setban"} => ~Banned
    /\ pc[r] = "expire" => bucket = {Own(r, 0)} /\ deadline = Never
    /\ pc[r] = "expireban" => bucket = {Own(r, 1)} /\ deadline = Never

\* An undisturbed history: requests one after the other, each with its own bucket.
Quiet == ~disturbed => /\ Serial
                       /\ \A r \in Req : OwnBucket(r)
                       /\ BanNotProlonged

\* Everybody who passed may proceed one request's worth before x.
Clears(x) == \A q \in Passed : Proceeds(q) + Unit <= x

\* The bucket remembers the requests that passed, and outlives their debt.
Remembers ==
    /\ bucket = {} => Clears(Rate * now)
    /\ \A b \in bucket :
         /\ b.last <= now
         /\ b.forbidden = 0 =>
              /\ b.excess <= Burst
              /\ \A q \in Passed : Proceeds(q) <= Rate * b.last + b.excess
              /\ deadline # Never => deadline >= b.last + TTL
         /\ b.forbidden = 1 =>
              /\ Duration > 0
              /\ b.excess <= Burst + Unit
              /\ Clears(Rate * b.last + b.excess)
              /\ deadline # Never => deadline >= b.last + Duration

\* What a request in flight knows is as recent as the bucket.
Informed(r) ==
    /\ pc[r] \in InFlight => started[r] <= now
    /\ pc[r] = "get" => /\ bucket = {} => Clears(Rate * started[r])
                        /\ \A b \in bucket : b.last <= started[r]
    /\ pc[r] \in {"set", "expire"} => level[r] <= Burst /\ Clears(Proceeds(r))
    /\ pc[r] \in {"setban", "expireban"} =>
         Duration > 0 /\ level[r] <= Burst + Unit /\ Clears(Proceeds(r))

\* The pacing invariant.
PaceInv == ~disturbed /\ KeysOutliveDebt =>
             Paced /\ Remembers /\ \A r \in Req : Informed(r)

-----------------------------------------------------------------------------

\* ratelimit.lua:101-102: the scaled rate and burst are natural numbers.
LEMMA ScaledTypes == Rate \in Nat /\ Burst \in Nat
<1>1. RateNum * Unit \in Nat /\ BurstNum * Unit \in Nat
  BY UnitAssumption, RateAssumption
<1>2. \A n \in Nat : n \div Scale \in Nat
  BY RateAssumption
<1>3. QED
  BY <1>1, <1>2 DEF Rate, Burst

\* A later instant is a larger level.
LEMMA RateIsMonotone ==
  ASSUME NEW a \in Int, NEW b \in Int, a <= b
  PROVE  Rate * a \in Int /\ Rate * b \in Int /\ Rate * a <= Rate * b
BY ScaledTypes

\* Levels of instants add up.
LEMMA RateIsAdditive ==
  ASSUME NEW a \in Int, NEW b \in Int
  PROVE  Rate * (a + b) = Rate * a + Rate * b
BY ScaledTypes

\* ratelimit.lua:43-47 for a request whose clock is not behind the bucket:
\* one more request's worth is on the bucket, however much was drained.
LEMMA LevelPaces ==
  ASSUME NEW b \in Bucket, NEW t \in Nat, b.last <= t
  PROVE  /\ Level(b, t) \in Nat /\ Level(b, t) <= b.excess + Unit
         /\ Rate * t + Level(b, t) >= Rate * b.last + b.excess + Unit
<1>1. b.excess \in Nat /\ b.last \in Nat /\ t - b.last \in Nat
  BY DEF Bucket
<1>2. Abs(t - b.last) = t - b.last
  BY <1>1 DEF Abs
<1>3. Rate * t = Rate * b.last + Rate * (t - b.last)
  <2>1. Rate * (b.last + (t - b.last)) = Rate * b.last + Rate * (t - b.last)
    BY <1>1, RateIsAdditive
  <2>2. b.last + (t - b.last) = t
    BY <1>1
  <2>3. QED
    BY <2>1, <2>2
<1>4. Rate * (t - b.last) \in Nat /\ Rate * b.last \in Nat
  BY <1>1, ScaledTypes
<1> DEFINE d == Rate * (t - b.last)
<1>5. Level(b, t) = IF b.excess - d + Unit < 0 THEN 0 ELSE b.excess - d + Unit
  BY <1>2 DEF Level
<1>6. d \in Nat /\ Rate * t = Rate * b.last + d
  BY <1>3, <1>4
<1> HIDE DEF d
<1>7. QED
  BY <1>1, <1>4, <1>5, <1>6, UnitAssumption

\* Whatever the clocks, a level is a natural number.
LEMMA LevelType ==
  ASSUME NEW b \in Bucket, NEW t \in Nat
  PROVE  Level(b, t) \in Nat
<1>1. Abs(t - b.last) \in Nat /\ b.excess \in Nat
  BY DEF Abs, Bucket
<1>2. Rate * Abs(t - b.last) \in Nat
  BY <1>1, ScaledTypes
<1> DEFINE d == Rate * Abs(t - b.last)
<1>3. Level(b, t) = IF b.excess - d + Unit < 0 THEN 0 ELSE b.excess - d + Unit
  BY DEF Level
<1>4. d \in Nat
  BY <1>2
<1> HIDE DEF d
<1>5. QED
  BY <1>1, <1>3, <1>4, UnitAssumption

\* A command that failed leaves a trace, one that did not leaves none.
LEMMA FaultCounts ==
  ASSUME TypeOK, NEW o, Fault(o)
  PROVE  faults' \in 0..MaxFaults /\ (o # "ok" => faults' > 0) /\ faults' >= faults
BY TimeAssumption DEF TypeOK, Fault

\* Type correctness, initially.
LEMMA InitType == Init => TypeOK
<1> SUFFICES ASSUME Init PROVE TypeOK
  OBVIOUS
<1>1. /\ now \in 0..MaxTime /\ deadline \in Nat \cup {Never}
      /\ bucket \in SUBSET Bucket /\ (\A b, c \in bucket : b = c)
      /\ faults \in 0..MaxFaults
  BY TimeAssumption DEF Init, Never
<1>2. /\ pc \in [Req -> Phase] /\ started \in [Req -> 0..MaxTime]
      /\ level \in [Req -> Nat]
  BY TimeAssumption DEF Init, Phase
<1>3. disturbed \in BOOLEAN
  BY Zenon DEF Init
<1>4. QED
  BY <1>1, <1>2, <1>3, Zenon DEF TypeOK

\* Type correctness of a SET (ratelimit.lua:54 and :67).
LEMMA StoreType ==
  ASSUME TypeOK, NEW r \in Req, NEW o \in Outcome, NEW flag \in {0, 1},
         Store(r, o, flag), NEW p \in Phase, Goto(r, p)
  PROVE  TypeOK'
<1>1. [excess |-> level[r], last |-> started[r], forbidden |-> flag] \in Bucket
  BY TimeAssumption DEF TypeOK, Bucket
<1>2. bucket' \in SUBSET Bucket /\ (\A b, c \in bucket' : b = c)
  BY <1>1 DEF Store, TypeOK
<1>3. pc' \in [Req -> Phase]
  BY DEF Goto, TypeOK
<1>4. faults' \in 0..MaxFaults
  BY FaultCounts DEF Store
<1>5. deadline' \in Nat \cup {Never} /\ UNCHANGED <<now, started, level>>
  BY DEF Store, TypeOK
<1>6. disturbed' \in BOOLEAN
  BY DEF Store, TypeOK
<1>7. QED
  BY <1>2, <1>3, <1>4, <1>5, <1>6 DEF TypeOK

\* Type correctness of an EXPIRE (ratelimit.lua:58 and :71).
LEMMA ExpireType ==
  ASSUME TypeOK, NEW r \in Req, NEW o \in Outcome, NEW n \in Nat, NEW whole,
         Expire(o, n, whole), NEW p \in Phase, Goto(r, p)
  PROVE  TypeOK'
<1>1. pc' \in [Req -> Phase]
  BY DEF Goto, TypeOK
<1>2. faults' \in 0..MaxFaults
  BY FaultCounts DEF Expire
<1>3. deadline' \in Nat \cup {Never} /\ UNCHANGED <<now, bucket, started, level>>
  BY TimeAssumption DEF Expire, TypeOK
<1>4. disturbed' \in BOOLEAN
  BY DEF Expire, TypeOK
<1>5. QED
  BY <1>1, <1>2, <1>3, <1>4 DEF TypeOK

\* Type correctness of one step.
LEMMA NextType == TypeOK /\ [Next]_vars => TypeOK'
<1> SUFFICES ASSUME TypeOK, [Next]_vars PROVE TypeOK'
  OBVIOUS
<1>1. CASE Tick
  <2>1. now' \in 0..MaxTime
    BY <1>1, TimeAssumption DEF Tick, TypeOK
  <2>2. bucket' \in SUBSET Bucket /\ (\A b, c \in bucket' : b = c)
    BY <1>1 DEF Tick, TypeOK
  <2>3. deadline' \in Nat \cup {Never} /\ UNCHANGED <<pc, started, level, faults>>
    BY <1>1 DEF Tick, TypeOK
  <2>4. disturbed' \in BOOLEAN
    BY <1>1 DEF Tick, TypeOK
  <2>5. QED
    BY <2>1, <2>2, <2>3, <2>4 DEF TypeOK
<1>2. ASSUME NEW r \in Req, Begin(r) PROVE TypeOK'
  <2>1. pc' \in [Req -> Phase] /\ started' \in [Req -> 0..MaxTime]
    BY <1>2 DEF Begin, Goto, TypeOK, Phase, InFlight
  <2>2. disturbed' \in BOOLEAN /\ UNCHANGED <<now, bucket, deadline, level, faults>>
    BY <1>2 DEF Begin, TypeOK, store
  <2>3. QED
    BY <2>1, <2>2 DEF TypeOK
<1>3. ASSUME NEW r \in Req, Get(r) PROVE TypeOK'
  <2>1. \E p \in Phase : Goto(r, p)
    BY <1>3 DEF Get, req_limit_logic, Phase, InFlight
  <2>2. pc' \in [Req -> Phase]
    BY <2>1 DEF Goto, TypeOK
  <2>3. \E n \in Nat : level' = [level EXCEPT ![r] = n] \/ level' = level
    <3>1. started[r] \in Nat
      BY TimeAssumption DEF TypeOK
    <3>2. \A b \in bucket : Level(b, started[r]) \in Nat
      BY <3>1, LevelType DEF TypeOK
    <3>3. QED
      BY <1>3, <3>2 DEF Get
  <2>4. level' \in [Req -> Nat]
    BY <2>3 DEF TypeOK
  <2>5. faults' \in 0..MaxFaults /\ disturbed' \in BOOLEAN
    BY <1>3, FaultCounts DEF Get, TypeOK
  <2>6. UNCHANGED <<now, bucket, deadline, started>>
    BY <1>3 DEF Get, store
  <2>7. QED
    BY <2>2, <2>4, <2>5, <2>6 DEF TypeOK
<1>4. ASSUME NEW r \in Req, Set(r) PROVE TypeOK'
  BY <1>4, StoreType DEF Set, Phase, InFlight
<1>5. ASSUME NEW r \in Req, SetBan(r) PROVE TypeOK'
  BY <1>5, StoreType DEF SetBan, Phase, InFlight
<1>6. ASSUME NEW r \in Req, ExpireBucket(r) PROVE TypeOK'
  BY <1>6, ExpireType, TimeAssumption DEF ExpireBucket, Phase
<1>7. ASSUME NEW r \in Req, ExpireBan(r) PROVE TypeOK'
  BY <1>7, ExpireType, RateAssumption DEF ExpireBan, Phase, req_limit_logic
<1>8. CASE UNCHANGED vars
  BY <1>8 DEF vars, TypeOK
<1>9. QED
  BY <1>1, <1>2, <1>3, <1>4, <1>5, <1>6, <1>7, <1>8 DEF Next, Step

\* Type correctness of the limiter's state.
THEOREM TypeCorrect == Spec => []TypeOK
BY InitType, NextType, PTL DEF Spec

-----------------------------------------------------------------------------

\* A key without a time to live has somebody on the way to give it one.
LEMMA NextMortal == TypeOK /\ NoImmortalKey /\ [Next]_vars => NoImmortalKey'
<1> SUFFICES ASSUME TypeOK, NoImmortalKey, [Next]_vars,
                    bucket' # {}, deadline' = Never, Integral, ~(faults' > 0)
             PROVE  \E r \in Req : pc'[r] \in {"expire", "expireban"}
  BY DEF NoImmortalKey
<1> USE DEF TypeOK
<1>1. CASE Tick
  BY <1>1 DEF Tick, NoImmortalKey
<1>2. ASSUME NEW r \in Req, Begin(r) \/ Get(r)
      PROVE  \E q \in Req : pc'[q] \in {"expire", "expireban"}
  <2>1. bucket' = bucket /\ deadline' = deadline
    BY <1>2 DEF Begin, Get, store
  <2>a. faults' \in Nat /\ faults \in Nat /\ faults' >= faults
    BY <1>2, FaultCounts, TimeAssumption DEF Begin, Get
  <2>b. ~(faults > 0)
    BY <2>a
  <2>2. PICK q \in Req : pc[q] \in {"expire", "expireban"}
    BY <2>1, <2>b DEF NoImmortalKey
  <2>3. q # r /\ \E p : pc' = [pc EXCEPT ![r] = p]
    BY <1>2, <2>2 DEF Begin, Get, Goto, req_limit_logic
  <2>4. QED
    BY <2>2, <2>3
<1>3. ASSUME NEW r \in Req, Set(r) \/ SetBan(r)
      PROVE  \E q \in Req : pc'[q] \in {"expire", "expireban"}
  BY <1>3 DEF Set, SetBan, Goto
<1>4. ASSUME NEW r \in Req, ExpireBucket(r) \/ ExpireBan(r)
      PROVE  FALSE
  <2>1. PICK o \in Outcome, n \in Nat : Expire(o, n, TRUE) \/ Expire(o, n, Integral)
    BY <1>4, TimeAssumption, RateAssumption DEF ExpireBucket, ExpireBan
  <2>2. o = "ok"
    BY <2>1, FaultCounts DEF Expire
  <2>3. deadline' = now + n
    BY <2>1, <2>2 DEF Expire, Applied
  <2>4. QED
    BY <2>3, TimeAssumption DEF Never
<1>5. CASE UNCHANGED vars
  BY <1>5 DEF vars, NoImmortalKey
<1>6. QED
  BY <1>1, <1>2, <1>3, <1>4, <1>5 DEF Next, Step

\* No interleaving of SETs and EXPIREs leaves an immortal key behind
\* (ratelimit.lua:54-58, 67-71); only a failed command can.
THEOREM KeysAreMortal == Spec => []NoImmortalKey
<1>1. Init => NoImmortalKey
  BY DEF Init, NoImmortalKey
<1>2. QED
  BY <1>1, NextMortal, TypeCorrect, PTL DEF Spec

-----------------------------------------------------------------------------

\* A step that leaves the history undisturbed was undisturbed and had no fault.
LEMMA StaysQuiet ==
  ASSUME TypeOK, Next, ~disturbed'
  PROVE  ~disturbed
BY DEF Next, Step, Tick, Begin, Get, Set, SetBan, ExpireBucket, ExpireBan,
   Store, Expire, TypeOK

\* In a serial history a step of r finds nobody else in flight.
LEMMA AloneInFlight ==
  ASSUME Serial, NEW r \in Req, pc[r] \in InFlight, NEW q \in Req, q # r
  PROVE  pc[q] \notin InFlight
BY DEF Serial

\* An undisturbed history stays serial, with every request on its own bucket.
LEMMA NextQuiet == TypeOK /\ Quiet /\ [Next]_vars => Quiet'
<1> SUFFICES ASSUME TypeOK, Quiet, [Next]_vars, ~disturbed'
             PROVE  Serial' /\ (\A q \in Req : OwnBucket(q)') /\ BanNotProlonged'
  BY DEF Quiet
<1>a. ASSUME Next
      PROVE  ~disturbed /\ Serial /\ (\A q \in Req : OwnBucket(q)) /\ BanNotProlonged
  BY <1>a, StaysQuiet DEF Quiet
<1> USE DEF TypeOK
<1>1. CASE Tick
  <2>1. UNCHANGED <<pc, started, level>>
    BY <1>1 DEF Tick
  <2>2. Serial'
    BY <1>1, <1>a, <2>1 DEF Serial, Next
  <2>3. \A q \in Req : OwnBucket(q)'
    BY <1>1, <1>a, <2>1 DEF OwnBucket, Own, Tick, Next, Banned
  <2>4. BanNotProlonged'
    BY <1>1, <1>a, RateAssumption, TimeAssumption DEF BanNotProlonged, Banned, Tick, Next, Never
  <2>5. QED
    BY <2>2, <2>3, <2>4
<1>2. ASSUME NEW r \in Req, Begin(r)
      PROVE  Serial' /\ (\A q \in Req : OwnBucket(q)') /\ BanNotProlonged'
  <2>1. /\ pc' = [pc EXCEPT ![r] = "get"] /\ pc[r] = "idle"
        /\ \A q \in Req : pc[q] \notin InFlight
        /\ UNCHANGED <<now, bucket, deadline, level>>
    BY <1>2 DEF Begin, Goto, store
  <2>2. Serial'
    BY <2>1 DEF Serial
  <2>3. \A q \in Req : OwnBucket(q)'
    BY <2>1 DEF OwnBucket, InFlight
  <2>4. BanNotProlonged'
    BY <1>2, <1>a, <2>1 DEF BanNotProlonged, Banned, Next, Step
  <2>5. QED
    BY <2>2, <2>3, <2>4
<1>3. ASSUME NEW r \in Req, Get(r)
      PROVE  Serial' /\ (\A q \in Req : OwnBucket(q)') /\ BanNotProlonged'
  <2>1. /\ pc[r] = "get" /\ UNCHANGED <<now, bucket, deadline, started>>
        /\ Serial /\ BanNotProlonged
    BY <1>3, <1>a DEF Get, store, Next, Step
  <2>2. \E p \in {"set", "setban", "denied", "dryrun"} : pc' = [pc EXCEPT ![r] = p]
    BY <1>3 DEF Get, Goto, req_limit_logic
  <2>3. \A q \in Req : q # r => pc[q] \notin InFlight
    BY <2>1, AloneInFlight DEF InFlight
  <2>4. Serial'
    BY <2>2, <2>3 DEF Serial
  <2>b. pc'[r] \in {"set", "setban"} => ~Banned'
    <3>1. \/ bucket = {}
          \/ \E b \in bucket : b.forbidden = 0
          \/ pc' = [pc EXCEPT ![r] = "denied"]
          \/ pc' = [pc EXCEPT ![r] = "dryrun"]
      BY <1>3 DEF Get, Goto, req_limit_logic, Answered
    <3>2. (\E b \in bucket : b.forbidden = 0) => ~Banned
      BY DEF Banned
    <3>3. QED
      BY <2>1, <3>1, <3>2 DEF Banned
  <2>5. \A q \in Req : OwnBucket(q)'
    BY <2>2, <2>3, <2>b DEF OwnBucket, InFlight
  <2>6. BanNotProlonged'
    BY <1>3, <1>a, <2>1 DEF BanNotProlonged, Banned, Next, Step
  <2>7. QED
    BY <2>4, <2>5, <2>6
<1>4. ASSUME NEW r \in Req, NEW flag \in {0, 1}, Store(r, "ok", flag),
             pc[r] \in InFlight, Next, NEW p, pc' = [pc EXCEPT ![r] = p],
             \/ flag = 0 /\ p = "expire"
             \/ flag = 1 /\ p = "expireban"
      PROVE  Serial' /\ (\A q \in Req : OwnBucket(q)') /\ BanNotProlonged'
  <2>1. \A q \in Req : q # r => pc[q] \notin InFlight
    BY <1>4, <1>a, AloneInFlight
  <2>2. Serial'
    BY <1>4, <2>1 DEF Serial
  <2>3. bucket' = {Own(r, flag)} /\ deadline' = Never /\ UNCHANGED <<started, level>>
    BY <1>4 DEF Store, Own, Applied
  <2>4. \A q \in Req : OwnBucket(q)'
    BY <1>4, <2>1, <2>3 DEF OwnBucket, InFlight, Own
  <2>5. BanNotProlonged'
    BY <2>3 DEF BanNotProlonged
  <2>6. QED
    BY <2>2, <2>4, <2>5
<1>5. ASSUME NEW r \in Req, Set(r) \/ SetBan(r)
      PROVE  Serial' /\ (\A q \in Req : OwnBucket(q)') /\ BanNotProlonged'
  <2>1. CASE Set(r)
    <3>1. Store(r, "ok", 0) /\ pc[r] \in InFlight /\ pc' = [pc EXCEPT ![r] = "expire"]
      BY <2>1 DEF Set, Store, Goto, InFlight
    <3>2. QED
      BY <2>1, <3>1, <1>4 DEF Next, Step
  <2>2. CASE SetBan(r)
    <3>1. Store(r, "ok", 1) /\ pc[r] \in InFlight /\ pc' = [pc EXCEPT ![r] = "expireban"]
      BY <2>2 DEF SetBan, Store, Goto, InFlight
    <3>2. QED
      BY <2>2, <3>1, <1>4 DEF Next, Step
  <2>3. QED
    BY <1>5, <2>1, <2>2
<1>6. ASSUME NEW r \in Req, ExpireBucket(r) \/ ExpireBan(r)
      PROVE  Serial' /\ (\A q \in Req : OwnBucket(q)') /\ BanNotProlonged'
  <2>1. Serial /\ OwnBucket(r)
    BY <1>6, <1>a DEF Next, Step
  <2>2. pc[r] \in InFlight
    BY <1>6 DEF ExpireBucket, ExpireBan, InFlight
  <2>3. \A q \in Req : q # r => pc[q] \notin InFlight
    BY <2>1, <2>2, AloneInFlight
  <2>4. /\ \E p \in {"passed", "denied", "dryrun"} : pc' = [pc EXCEPT ![r] = p]
        /\ UNCHANGED <<now, bucket>>
    BY <1>6 DEF ExpireBucket, ExpireBan, Expire, Goto, req_limit_logic
  <2>5. Serial'
    BY <2>3, <2>4 DEF Serial, InFlight
  <2>6. \A q \in Req : OwnBucket(q)'
    BY <2>3, <2>4 DEF OwnBucket, InFlight
  <2>7. CASE ExpireBucket(r)
    <3>1. bucket = {Own(r, 0)}
      BY <2>1, <2>7 DEF OwnBucket, ExpireBucket
    <3>2. ~Banned'
      BY <3>1, <2>4 DEF Banned, Own
    <3>3. QED
      BY <3>2, <2>5, <2>6 DEF BanNotProlonged
  <2>8. CASE ExpireBan(r)
    <3>1. deadline = Never
      BY <2>1, <2>8 DEF OwnBucket, ExpireBan
    <3>2. deadline' = now + Duration \/ deadline' = Never
      BY <3>1, <2>8 DEF ExpireBan, Expire
    <3>3. BanNotProlonged'
      BY <3>2, <2>4, TimeAssumption, RateAssumption DEF BanNotProlonged
    <3>4. QED
      BY <3>3, <2>5, <2>6
  <2>9. QED
    BY <1>6, <2>7, <2>8
<1>7. CASE UNCHANGED vars
  BY <1>7 DEF vars, Quiet, Serial, OwnBucket, Own, BanNotProlonged, Banned
<1>8. QED
  BY <1>1, <1>2, <1>3, <1>5, <1>6, <1>7 DEF Next, Step

\* Initially nobody is in flight.
LEMMA InitQuiet == Init => Quiet
BY DEF Init, Quiet, Serial, OwnBucket, BanNotProlonged, Banned, InFlight, Never

\* The serial structure of an undisturbed history.
THEOREM QuietHistory == Spec => []Quiet
BY InitQuiet, NextQuiet, TypeCorrect, PTL DEF Spec

\* An undisturbed ban ends within its duration (ratelimit.lua:58).
THEOREM BansEndInTime == Spec => []BanNotProlonged
<1>1. Quiet => BanNotProlonged
  BY DEF Quiet, BanNotProlonged
<1>2. QED
  BY <1>1, QuietHistory, PTL

\* ratelimit.lua:40-42: in an undisturbed history nobody passes during a ban
\* and nobody lifts it.
THEOREM BansBlock == Spec => BanBlocks
<1>1. TypeOK /\ Quiet /\ [Next]_vars =>
        [Banned /\ ~disturbed' => Passed' = Passed /\ (Banned' \/ now' # now)]_vars
  <2> SUFFICES ASSUME TypeOK, Quiet, Next, Banned, ~disturbed'
               PROVE  Passed' = Passed /\ (Banned' \/ now' # now)
    OBVIOUS
  <2>1. \A r \in Req : OwnBucket(r)
    BY StaysQuiet DEF Quiet
  <2>2. ASSUME NEW r \in Req, ExpireBucket(r) PROVE FALSE
    <3>1. bucket = {Own(r, 0)}
      BY <2>1, <2>2 DEF OwnBucket, ExpireBucket
    <3>2. QED
      BY <3>1 DEF Banned, Own
  <2>3. ASSUME NEW r \in Req, Set(r) \/ SetBan(r) PROVE FALSE
    BY <2>1, <2>3 DEF OwnBucket, Set, SetBan
  <2>4. CASE Tick
    BY <2>4 DEF Tick, Passed, TypeOK
  <2>5. ASSUME NEW r \in Req, Step(r)
        PROVE  Passed' = Passed /\ (Banned' \/ now' # now)
    <3>1. Begin(r) \/ Get(r) \/ ExpireBan(r)
      BY <2>2, <2>3, <2>5 DEF Step
    <3>2. Passed' = Passed
      BY <3>1 DEF Begin, Get, ExpireBan, Goto, req_limit_logic, Passed, TypeOK
    <3>3. bucket' = bucket
      BY <3>1 DEF Begin, Get, ExpireBan, Expire, store
    <3>4. QED
      BY <3>2, <3>3 DEF Banned
  <2>6. QED
    BY <2>4, <2>5 DEF Next
<1>2. QED
  BY <1>1, TypeCorrect, QuietHistory, PTL DEF Spec, BanBlocks

-----------------------------------------------------------------------------

\* Levels of requests and of buckets are integers.
LEMMA ProceedsType ==
  ASSUME TypeOK, NEW q \in Req
  PROVE  Proceeds(q) \in Int /\ started[q] \in Nat /\ level[q] \in Nat
<1>1. started[q] \in Nat /\ level[q] \in Nat
  BY TimeAssumption DEF TypeOK
<1>2. QED
  BY <1>1, ScaledTypes DEF Proceeds

\* What a key is worth when Redis removes it: nothing that passed is forgotten
\* before it has drained.
LEMMA ForgottenIsDrained ==
  ASSUME TypeOK, KeysOutliveDebt, Remembers, NEW b \in bucket,
         deadline # Never, NEW t \in Nat, deadline <= t
  PROVE  Clears(Rate * t)
<1>1. /\ b.last \in Nat /\ b.excess \in Nat /\ deadline \in Nat
      /\ b.forbidden \in {0, 1}
  BY DEF TypeOK, Bucket
<1> SUFFICES ASSUME NEW q \in Passed PROVE Proceeds(q) + Unit <= Rate * t
  BY DEF Clears
<1>2. Proceeds(q) \in Int
  BY ProceedsType DEF Passed
<1>3. CASE b.forbidden = 0
  <2>1. Rate * (b.last + TTL) <= Rate * t
    BY <1>1, <1>3, TimeAssumption, RateIsMonotone DEF Remembers
  <2>2. Rate * (b.last + TTL) = Rate * b.last + Rate * TTL
    <3>1. b.last \in Int /\ TTL \in Int
      BY <1>1, TimeAssumption
    <3>2. QED
      BY <3>1, RateIsAdditive, Zenon
  <2>3. /\ Rate * b.last \in Int /\ Rate * TTL \in Int /\ Rate * t \in Int
    BY <1>1, ScaledTypes, TimeAssumption
  <2>4. Proceeds(q) <= Rate * b.last + b.excess /\ b.excess <= Burst
    BY <1>3 DEF Remembers
  <2>5. Rate * TTL >= Burst + Unit
    BY DEF KeysOutliveDebt
  <2>6. QED
    BY <1>1, <1>2, <2>1, <2>2, <2>3, <2>4, <2>5, ScaledTypes, UnitAssumption
<1>4. CASE b.forbidden = 1
  <2>1. Rate * (b.last + Duration) <= Rate * t
    BY <1>1, <1>4, RateAssumption, RateIsMonotone DEF Remembers
  <2>2. Rate * (b.last + Duration) = Rate * b.last + Rate * Duration
    <3>1. b.last \in Int /\ Duration \in Int
      BY <1>1, RateAssumption
    <3>2. QED
      BY <3>1, RateIsAdditive, Zenon
  <2>3. /\ Rate * b.last \in Int /\ Rate * Duration \in Int /\ Rate * t \in Int
    BY <1>1, ScaledTypes, RateAssumption
  <2>4. Proceeds(q) + Unit <= Rate * b.last + b.excess /\ b.excess <= Burst + Unit
    BY <1>4 DEF Remembers, Clears
  <2>5. Rate * Duration >= Burst + Unit
    BY <1>4 DEF KeysOutliveDebt, Remembers
  <2>6. QED
    BY <1>1, <1>2, <2>1, <2>2, <2>3, <2>4, <2>5, ScaledTypes, UnitAssumption
<1>5. QED
  BY <1>1, <1>3, <1>4

\* Nothing the pacing is about changes unless a request passes.
LEMMA PassedFrame ==
  ASSUME TypeOK, NEW r \in Req, Step(r), ~ExpireBucket(r)
  PROVE  Passed' = Passed /\ (\A q \in Passed : Proceeds(q)' = Proceeds(q))
<1>1. Passed' = Passed /\ r \notin Passed
  BY DEF Step, Begin, Get, Set, SetBan, ExpireBan, Goto, req_limit_logic, Passed, TypeOK
<1>2. \A q \in Req : q # r => started'[q] = started[q] /\ level'[q] = level[q]
  BY DEF Step, Begin, Get, Set, SetBan, ExpireBan, Store, Expire, TypeOK
<1>3. QED
  BY <1>1, <1>2 DEF Proceeds, Passed

\* With nothing passed and nothing moved, the pacing of the passed remains.
LEMMA PacedFrame ==
  ASSUME Paced, KeysOutliveDebt, ~disturbed,
         Passed' = Passed, \A q \in Passed : Proceeds(q)' = Proceeds(q)
  PROVE  Paced'
BY DEF Paced, Abs

\* The pacing invariant survives every step of an undisturbed history.
LEMMA NextPaced == TypeOK /\ TypeOK' /\ Quiet /\ PaceInv /\ [Next]_vars => PaceInv'
<1> SUFFICES ASSUME TypeOK, TypeOK', Quiet, PaceInv, [Next]_vars,
                    ~disturbed', KeysOutliveDebt
             PROVE  Paced' /\ Remembers' /\ (\A q \in Req : Informed(q)')
  BY DEF PaceInv, KeysOutliveDebt
<1>a. ASSUME Next
      PROVE  /\ ~disturbed /\ Serial /\ (\A q \in Req : OwnBucket(q))
             /\ Paced /\ Remembers /\ (\A q \in Req : Informed(q))
  BY <1>a, StaysQuiet DEF Quiet, PaceInv
<1>1. CASE Tick
  <2>1. UNCHANGED <<pc, started, level>> /\ now' = now + 1 /\ now \in Nat
    BY <1>1, TimeAssumption DEF Tick, TypeOK
  <2>2. Passed' = Passed /\ (\A q \in Passed : Proceeds(q)' = Proceeds(q))
    BY <2>1 DEF Passed, Proceeds
  <2>3. Paced'
    BY <1>1, <1>a, <2>2, PacedFrame DEF Next
  <2>4. \A x : Clears(x) => \A q \in Passed' : Proceeds(q)' + Unit <= x
    BY <2>2 DEF Clears
  <2>5. CASE deadline # Never /\ deadline <= now + 1
    <3>1. bucket' = {} /\ \A q \in Req : pc[q] # "get"
      BY <1>1, <2>5 DEF Tick
    <3>2. Clears(Rate * (now + 1))
      <4>1. CASE bucket = {}
        <5>1. Clears(Rate * now)
          BY <4>1, <1>1, <1>a DEF Remembers, Next
        <5>2. Rate * now <= Rate * (now + 1) /\ Rate * now \in Int /\ Rate * (now + 1) \in Int
          BY <2>1, RateIsMonotone
        <5>3. QED
          BY <5>1, <5>2, ProceedsType, UnitAssumption DEF Clears, Passed
      <4>2. CASE bucket # {}
        BY <4>2, <1>1, <1>a, <2>1, <2>5, ForgottenIsDrained DEF Next
      <4>3. QED
        BY <4>1, <4>2
    <3>3. Remembers'
      BY <3>1, <3>2, <2>1, <2>4 DEF Remembers, Clears
    <3>4. \A q \in Req : Informed(q)'
      <4> SUFFICES ASSUME NEW q \in Req PROVE Informed(q)'
        OBVIOUS
      <4>1. Informed(q) /\ pc[q] # "get" /\ Proceeds(q)' = Proceeds(q)
        BY <1>1, <1>a, <3>1, <2>1 DEF Next, Proceeds
      <4>2. started[q] \in Nat
        BY ProceedsType
      <4>3. QED
        BY <4>1, <4>2, <2>1, <2>4 DEF Informed, Clears
    <3>5. QED
      BY <2>3, <3>3, <3>4
  <2>6. CASE ~(deadline # Never /\ deadline <= now + 1)
    <3>1. bucket' = bucket /\ deadline' = deadline
      BY <1>1, <2>6 DEF Tick
    <3>2. Rate * now <= Rate * (now + 1) /\ Rate * now \in Int /\ Rate * (now + 1) \in Int
      BY <2>1, RateIsMonotone
    <3>3. bucket' = {} => Clears(Rate * now)'
      <4>1. bucket = {} => Clears(Rate * now)
        BY <1>1, <1>a DEF Remembers, Next
      <4>2. QED
        BY <4>1, <3>1, <3>2, <2>1, <2>2, ProceedsType, UnitAssumption DEF Clears, Passed
    <3>4. \A b \in bucket : b.last \in Nat
      BY DEF TypeOK, Bucket
    <3>5. Remembers'
      BY <1>1, <1>a, <2>1, <2>2, <3>1, <3>3, <3>4 DEF Remembers, Clears, Next
    <3>6. \A q \in Req : Informed(q)'
      <4> SUFFICES ASSUME NEW q \in Req PROVE Informed(q)'
        OBVIOUS
      <4>1. Informed(q) /\ Proceeds(q)' = Proceeds(q)
        BY <1>1, <1>a, <2>1 DEF Next, Proceeds
      <4>2. started[q] \in Nat
        BY ProceedsType
      <4>3. QED
        BY <4>1, <4>2, <3>1, <2>1, <2>2 DEF Informed, Clears
    <3>7. QED
      BY <2>3, <3>5, <3>6
  <2>7. QED
    BY <2>5, <2>6
<1>2. ASSUME NEW r \in Req, Begin(r)
      PROVE  Paced' /\ Remembers' /\ (\A q \in Req : Informed(q)')
  <2>1. /\ pc' = [pc EXCEPT ![r] = "get"] /\ started' = [started EXCEPT ![r] = now]
        /\ \A q \in Req : pc[q] \notin InFlight
        /\ UNCHANGED <<now, bucket, deadline, level>>
    BY <1>2 DEF Begin, Goto, store
  <2>2. Passed' = Passed /\ (\A q \in Passed : Proceeds(q)' = Proceeds(q))
    BY <1>2, PassedFrame DEF Step, Begin, ExpireBucket
  <2>3. ~disturbed /\ Paced /\ Remembers
    BY <1>2, <1>a DEF Next, Step
  <2>4. Paced'
    BY <2>2, <2>3, PacedFrame
  <2>5. Remembers'
    BY <2>1, <2>2, <2>3 DEF Remembers, Clears
  <2>6. \A q \in Req : Informed(q)'
    <3>1. ASSUME NEW q \in Req, q # r PROVE Informed(q)'
      BY <2>1, <3>1 DEF Informed, InFlight, TypeOK
    <3>2. Informed(r)'
      <4>1. pc'[r] = "get" /\ started'[r] = now /\ now \in Nat
        BY <2>1, TimeAssumption DEF TypeOK
      <4>2. bucket' = {} => Clears(Rate * started[r])'
        BY <4>1, <2>1, <2>2, <2>3 DEF Remembers, Clears
      <4>3. \A b \in bucket' : b.last <= started'[r]
        BY <4>1, <2>1, <2>3 DEF Remembers
      <4>4. QED
        BY <4>1, <4>2, <4>3, <2>1 DEF Informed
    <3>3. QED
      BY <3>1, <3>2
  <2>7. QED
    BY <2>4, <2>5, <2>6
<1>3. ASSUME NEW r \in Req, Get(r)
      PROVE  Paced' /\ Remembers' /\ (\A q \in Req : Informed(q)')
  <2>1. /\ pc[r] = "get" /\ UNCHANGED <<now, bucket, deadline, started>>
        /\ ~disturbed /\ Serial /\ Paced /\ Remembers /\ Informed(r)
    BY <1>3, <1>a DEF Get, store, Next, Step
  <2>2. Passed' = Passed /\ (\A q \in Passed : Proceeds(q)' = Proceeds(q))
    BY <1>3, PassedFrame DEF Step, Get, ExpireBucket
  <2>3. Paced'
    BY <2>1, <2>2, PacedFrame
  <2>4. Remembers'
    BY <2>1, <2>2 DEF Remembers, Clears
  <2>5. \A q \in Req : q # r => pc[q] \notin InFlight
    BY <2>1, AloneInFlight DEF InFlight
  <2>6. \E p \in {"set", "setban", "denied", "dryrun"} : pc' = [pc EXCEPT ![r] = p]
    BY <1>3 DEF Get, Goto, req_limit_logic
  <2>7. \A q \in Req : q # r => Informed(q)'
    BY <2>5, <2>6 DEF Informed, InFlight, TypeOK
  <2>8. started[r] \in Nat /\ started[r] <= now
    BY <2>1, ProceedsType DEF Informed, InFlight
  <2>9. Informed(r)'
    <3>1. CASE pc'[r] \in {"denied", "dryrun"}
      BY <3>1 DEF Informed, InFlight
    <3>2. ASSUME bucket = {}, pc'[r] = "set", level' = [level EXCEPT ![r] = 0]
          PROVE  Informed(r)'
      <4>1. Clears(Rate * started[r])
        BY <3>2, <2>1 DEF Informed
      <4>2. level'[r] = 0 /\ Proceeds(r)' = Rate * started[r]
        BY <3>2, <2>1, <2>8, ScaledTypes DEF Proceeds, TypeOK
      <4>3. Clears(Proceeds(r))'
        BY <4>1, <4>2, <2>2 DEF Clears
      <4>4. QED
        BY <3>2, <4>2, <4>3, <2>1, <2>8, ScaledTypes DEF Informed
    <3>3. ASSUME NEW b \in bucket, b.forbidden = 0,
                 level' = [level EXCEPT ![r] = Level(b, started[r])],
                 \/ pc'[r] = "set" /\ Level(b, started[r]) <= Burst
                 \/ pc'[r] = "setban" /\ Duration > 0
          PROVE  Informed(r)'
      <4>1. b \in Bucket /\ b.last <= started[r] /\ b.excess <= Burst
        BY <2>1, <3>3 DEF Informed, Remembers, TypeOK
      <4> DEFINE l == Level(b, started[r])
      <4>2. /\ l \in Nat /\ l <= b.excess + Unit
            /\ Rate * started[r] + l >= Rate * b.last + b.excess + Unit
        BY <4>1, <2>8, LevelPaces
      <4>3. level'[r] = l /\ Proceeds(r)' = Rate * started[r] + l
        BY <3>3, <2>1 DEF Proceeds, TypeOK
      <4>4. \A q \in Passed : Proceeds(q) <= Rate * b.last + b.excess
        BY <3>3, <2>1 DEF Remembers
      <4>5. /\ Rate * started[r] \in Int /\ Rate * b.last \in Int /\ b.excess \in Nat
        BY <4>1, <2>8, ScaledTypes DEF Bucket
      <4> HIDE DEF l
      <4>6. \A q \in Passed : Proceeds(q) \in Int
        BY ProceedsType DEF Passed
      <4>7. Clears(Rate * started[r] + l)
        BY <4>2, <4>4, <4>5, <4>6, UnitAssumption DEF Clears
      <4>8. Clears(Proceeds(r))'
        BY <4>3, <4>7, <2>2 DEF Clears
      <4>9. l <= Burst + Unit
        BY <4>1, <4>2, <4>5, ScaledTypes, UnitAssumption
      <4>10. pc'[r] = "set" => l <= Burst
        BY <3>3 DEF l
      <4>11. QED
        BY <3>3, <4>3, <4>8, <4>9, <4>10, <2>1, <2>8 DEF Informed
    <3>4. \/ pc'[r] \in {"denied", "dryrun"}
          \/ bucket = {} /\ pc'[r] = "set" /\ level' = [level EXCEPT ![r] = 0]
          \/ \E b \in bucket :
               /\ b.forbidden = 0
               /\ level' = [level EXCEPT ![r] = Level(b, started[r])]
               /\ \/ pc'[r] = "set" /\ Level(b, started[r]) <= Burst
                  \/ pc'[r] = "setban" /\ Duration > 0
      BY <1>3 DEF Get, Goto, req_limit_logic, Answered, TypeOK
    <3>5. QED
      BY <3>1, <3>2, <3>3, <3>4
  <2>10. QED
    BY <2>3, <2>4, <2>7, <2>9
<1>4. ASSUME NEW r \in Req, Set(r)
      PROVE  Paced' /\ Remembers' /\ (\A q \in Req : Informed(q)')
  <2>1. /\ pc[r] = "set" /\ pc' = [pc EXCEPT ![r] = "expire"]
        /\ bucket' = {Own(r, 0)} /\ deadline' = Never
        /\ UNCHANGED <<now, started, level>>
    BY <1>4 DEF Set, Store, Goto, Own, Applied
  <2>2. ~disturbed /\ Serial /\ Paced /\ Informed(r)
    BY <1>4, <1>a DEF Next, Step
  <2>3. Passed' = Passed /\ (\A q \in Passed : Proceeds(q)' = Proceeds(q))
    BY <1>4, PassedFrame DEF Step, Set, ExpireBucket
  <2>4. Paced'
    BY <2>2, <2>3, PacedFrame
  <2>5. started[r] <= now /\ level[r] <= Burst /\ Clears(Proceeds(r))
    BY <2>1, <2>2 DEF Informed, InFlight
  <2>6. \A q \in Passed : Proceeds(q) <= Rate * started[r] + level[r]
    BY <2>5, ProceedsType, UnitAssumption DEF Clears, Proceeds, Passed
  <2>7. Remembers'
    <3>1. /\ Own(r, 0).last = started[r] /\ Own(r, 0).excess = level[r]
          /\ Own(r, 0).forbidden = 0
      BY DEF Own
    <3>2. QED
      BY <2>1, <2>3, <2>5, <2>6, <3>1 DEF Remembers
  <2>8. \A q \in Req : q # r => pc[q] \notin InFlight
    BY <2>1, <2>2, AloneInFlight DEF InFlight
  <2>9. \A q \in Req : Informed(q)'
    <3>1. \A q \in Req : q # r => Informed(q)'
      BY <2>1, <2>8 DEF Informed, InFlight, TypeOK
    <3>2. Proceeds(r)' = Proceeds(r)
      BY <2>1 DEF Proceeds
    <3>3. Clears(Proceeds(r))'
      BY <2>3, <2>5, <3>2 DEF Clears
    <3>4. Informed(r)'
      BY <2>1, <2>5, <3>3 DEF Informed, TypeOK
    <3>5. QED
      BY <3>1, <3>4
  <2>10. QED
    BY <2>4, <2>7, <2>9
<1>5. ASSUME NEW r \in Req, SetBan(r)
      PROVE  Paced' /\ Remembers' /\ (\A q \in Req : Informed(q)')
  <2>1. /\ pc[r] = "setban" /\ pc' = [pc EXCEPT ![r] = "expireban"]
        /\ bucket' = {Own(r, 1)} /\ deadline' = Never
        /\ UNCHANGED <<now, started, level>>
    BY <1>5 DEF SetBan, Store, Goto, Own, Applied
  <2>2. ~disturbed /\ Serial /\ Paced /\ Informed(r)
    BY <1>5, <1>a DEF Next, Step
  <2>3. Passed' = Passed /\ (\A q \in Passed : Proceeds(q)' = Proceeds(q))
    BY <1>5, PassedFrame DEF Step, SetBan, ExpireBucket
  <2>4. Paced'
    BY <2>2, <2>3, PacedFrame
  <2>5. /\ started[r] <= now /\ level[r] <= Burst + Unit /\ Duration > 0
        /\ Clears(Rate * started[r] + level[r])
    BY <2>1, <2>2 DEF Informed, InFlight, Proceeds
  <2>6. Remembers'
    <3>1. /\ Own(r, 1).last = started[r] /\ Own(r, 1).excess = level[r]
          /\ Own(r, 1).forbidden = 1
      BY DEF Own
    <3>2. QED
      BY <2>1, <2>3, <2>5, <3>1 DEF Remembers, Clears
  <2>7. \A q \in Req : q # r => pc[q] \notin InFlight
    BY <2>1, <2>2, AloneInFlight DEF InFlight
  <2>8. \A q \in Req : Informed(q)'
    <3>1. \A q \in Req : q # r => Informed(q)'
      BY <2>1, <2>7 DEF Informed, InFlight, TypeOK
    <3>2. Clears(Proceeds(r))'
      BY <2>1, <2>3, <2>5 DEF Clears, Proceeds
    <3>3. Informed(r)'
      BY <2>1, <2>5, <3>2 DEF Informed, TypeOK
    <3>4. QED
      BY <3>1, <3>3
  <2>9. QED
    BY <2>4, <2>6, <2>8
<1>6. ASSUME NEW r \in Req, ExpireBucket(r)
      PROVE  Paced' /\ Remembers' /\ (\A q \in Req : Informed(q)')
  <2>1. /\ pc[r] = "expire" /\ pc' = [pc EXCEPT ![r] = "passed"]
        /\ UNCHANGED <<now, bucket, started, level>>
    BY <1>6 DEF ExpireBucket, Expire, Goto
  <2>2. ~disturbed /\ Serial /\ Paced /\ Informed(r) /\ OwnBucket(r)
    BY <1>6, <1>a DEF Next, Step
  <2>3. bucket = {Own(r, 0)} /\ deadline' = now + TTL
    BY <1>6, <2>1, <2>2 DEF OwnBucket, ExpireBucket, Expire, Applied
  <2>4. started[r] <= now /\ level[r] <= Burst /\ Clears(Proceeds(r))
    BY <2>1, <2>2 DEF Informed, InFlight
  <2>5. Passed' = Passed \cup {r} /\ (\A q \in Req : Proceeds(q)' = Proceeds(q))
    BY <2>1 DEF Passed, Proceeds, TypeOK
  <2>6. \A q \in Req : Proceeds(q) \in Int
    BY ProceedsType
  <2>7. Paced'
    <3> SUFFICES ASSUME NEW q \in Passed', NEW p \in Passed', q # p
                 PROVE  Abs(Proceeds(q)' - Proceeds(p)') >= Unit
      BY DEF Paced, Abs
    <3>1. q \in Req /\ p \in Req
      BY DEF Passed
    <3>2. CASE q \in Passed /\ p \in Passed
      BY <3>1, <3>2, <2>2, <2>5 DEF Paced, Abs
    <3>3. CASE q = r \/ p = r
      <4>1. \/ q = r /\ Proceeds(p) + Unit <= Proceeds(q)
            \/ p = r /\ Proceeds(q) + Unit <= Proceeds(p)
        BY <3>3, <2>4, <2>5 DEF Clears
      <4>2. QED
        BY <3>1, <4>1, <2>5, <2>6, UnitAssumption DEF Abs
    <3>4. QED
      BY <3>2, <3>3, <2>5
  <2>8. Remembers'
    <3>1. /\ Own(r, 0).last = started[r] /\ Own(r, 0).excess = level[r]
          /\ Own(r, 0).forbidden = 0
      BY DEF Own
    <3>2. \A q \in Passed' : Proceeds(q)' <= Rate * started[r] + level[r]
      <4>1. Proceeds(r) = Rate * started[r] + level[r]
        BY DEF Proceeds
      <4>2. \A q \in Passed : Proceeds(q) <= Proceeds(r)
        BY <2>4, <2>6, UnitAssumption DEF Clears, Passed
      <4>3. \A q \in Passed' : Proceeds(q) <= Proceeds(r)
        BY <4>2, <2>5, <2>6
      <4>4. \A q \in Passed' : q \in Req
        BY DEF Passed
      <4>5. QED
        BY <4>1, <4>3, <4>4, <2>5
    <3>3. now + TTL >= started[r] + TTL /\ now \in Nat /\ started[r] \in Nat
      BY <2>4, TimeAssumption, ProceedsType DEF TypeOK
    <3>4. QED
      BY <2>1, <2>3, <2>4, <3>1, <3>2, <3>3 DEF Remembers
  <2>9. \A q \in Req : q # r => pc[q] \notin InFlight
    BY <2>1, <2>2, AloneInFlight DEF InFlight
  <2>10. \A q \in Req : Informed(q)'
    BY <2>1, <2>9 DEF Informed, InFlight, TypeOK
  <2>11. QED
    BY <2>7, <2>8, <2>10
<1>7. ASSUME NEW r \in Req, ExpireBan(r)
      PROVE  Paced' /\ Remembers' /\ (\A q \in Req : Informed(q)')
  <2>1. /\ pc[r] = "expireban" /\ UNCHANGED <<now, bucket, started, level>>
        /\ \E p \in {"denied", "dryrun"} : pc' = [pc EXCEPT ![r] = p]
    BY <1>7 DEF ExpireBan, Expire, Goto, req_limit_logic
  <2>2. ~disturbed /\ Serial /\ Paced /\ Remembers /\ Informed(r) /\ OwnBucket(r)
    BY <1>7, <1>a DEF Next, Step
  <2>3. Passed' = Passed /\ (\A q \in Passed : Proceeds(q)' = Proceeds(q))
    BY <1>7, PassedFrame DEF Step, ExpireBan, ExpireBucket
  <2>4. Paced'
    BY <2>2, <2>3, PacedFrame
  <2>5. /\ bucket = {Own(r, 1)}
        /\ deadline' = now + Duration \/ deadline' = Never
    BY <1>7, <2>1, <2>2 DEF OwnBucket, ExpireBan, Expire
  <2>6. Remembers'
    <3>1. /\ Own(r, 1).last = started[r] /\ Own(r, 1).forbidden = 1
      BY DEF Own
    <3>2. started[r] <= now /\ now \in Nat /\ started[r] \in Nat
      BY <2>1, <2>2, TimeAssumption, ProceedsType DEF Informed, InFlight, TypeOK
    <3>3. deadline' # Never => deadline' >= Own(r, 1).last + Duration
      BY <2>5, <3>1, <3>2, RateAssumption
    <3>4. QED
      BY <2>1, <2>2, <2>3, <2>5, <3>1, <3>3 DEF Remembers, Clears
  <2>7. \A q \in Req : q # r => pc[q] \notin InFlight
    BY <2>1, <2>2, AloneInFlight DEF InFlight
  <2>8. \A q \in Req : Informed(q)'
    BY <2>1, <2>7 DEF Informed, InFlight, TypeOK
  <2>9. QED
    BY <2>4, <2>6, <2>8
<1>8. CASE UNCHANGED vars
  <2>1. ~disturbed /\ Paced /\ Remembers /\ (\A q \in Req : Informed(q))
    BY <1>8 DEF vars, PaceInv
  <2>2. UNCHANGED <<now, bucket, deadline, pc, started, level>>
    BY <1>8 DEF vars
  <2>3. Passed' = Passed /\ (\A q \in Req : Proceeds(q)' = Proceeds(q))
    BY <2>2 DEF Passed, Proceeds
  <2>4. Paced'
    BY <2>1, <2>3, PacedFrame DEF Passed
  <2>5. Remembers' /\ (\A q \in Req : Informed(q)')
    BY <2>1, <2>2, <2>3 DEF Remembers, Informed, Clears, Passed
  <2>6. QED
    BY <2>4, <2>5
<1>9. QED
  BY <1>1, <1>2, <1>3, <1>4, <1>5, <1>6, <1>7, <1>8 DEF Next, Step

\* Initially nobody has passed.
LEMMA InitPaced == Init => PaceInv
<1> SUFFICES ASSUME Init PROVE PaceInv
  OBVIOUS
<1>1. Passed = {} /\ bucket = {}
  BY DEF Init, Passed
<1>2. Paced /\ Remembers
  BY <1>1 DEF Paced, Remembers, Clears
<1>3. \A r \in Req : Informed(r)
  BY DEF Init, Informed, InFlight
<1>4. QED
  BY <1>2, <1>3 DEF PaceInv

\* The rate limit of ratelimit.lua: in an undisturbed history, with keys that
\* outlive the debt in them, the requests that pass are paced by the rate.
THEOREM RateIsKept == Spec => []Paced
<1>1. PaceInv => Paced
  BY DEF PaceInv, Paced
<1>2. QED
  BY <1>1, InitPaced, NextPaced, TypeCorrect, QuietHistory, PTL DEF Spec
=============================================================================
