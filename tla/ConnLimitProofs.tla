--------------------------- MODULE ConnLimitProofs ---------------------------
(***************************************************************************)
(* Proofs about ConnLimit for every set of requests, every Max, Burst and  *)
(* number of faults.  The inductive invariant is the accounting equation   *)
(* of the counter together with the two limits it implies.                 *)
(***************************************************************************)
EXTENDS ConnLimit, FiniteSetTheorems, TLAPS

\* The inductive invariant.
IInv == TypeOK /\ CounterAccounting /\ HardLimit /\ SoftLimit

\* Sets of requests are finite and have a size.
LEMMA SizeOfRequests ==
  ASSUME NEW S \in SUBSET Req
  PROVE  IsFiniteSet(S) /\ Cardinality(S) \in Nat
BY ReqAssumption, FS_Subset, FS_CardinalityType

\* A set of requests is at least as large as each of its parts.
LEMMA SizeIsMonotone ==
  ASSUME NEW S \in SUBSET Req, NEW T \in SUBSET S
  PROVE  Cardinality(T) <= Cardinality(S)
BY SizeOfRequests, FS_Subset

\* One more request in a set.
LEMMA SizeAfterEntry ==
  ASSUME NEW S \in SUBSET Req, NEW r \in Req, r \notin S
  PROVE  Cardinality(S \cup {r}) = Cardinality(S) + 1
BY SizeOfRequests, FS_AddElement

\* One request less in a set.
LEMMA SizeAfterExit ==
  ASSUME NEW S \in SUBSET Req, NEW r \in S
  PROVE  Cardinality(S \ {r}) = Cardinality(S) - 1
BY SizeOfRequests, FS_RemoveElement

\* Some requests less in a set.
LEMMA SizeAfterCrash ==
  ASSUME NEW S \in SUBSET Req, NEW D \in SUBSET Req
  PROVE  Cardinality(S \ D) = Cardinality(S) - Cardinality(S \cap D)
<1>1. S = (S \ D) \cup (S \cap D) /\ (S \ D) \cap (S \cap D) = {}
  OBVIOUS
<1>2. S \ D \in SUBSET Req /\ S \cap D \in SUBSET Req
  OBVIOUS
<1>3. Cardinality((S \ D) \cup (S \cap D))
         = Cardinality(S \ D) + Cardinality(S \cap D)
           - Cardinality((S \ D) \cap (S \cap D))
  BY <1>2, SizeOfRequests, FS_Union
<1>4. Cardinality((S \ D) \cap (S \cap D)) = 0
  BY <1>1, FS_EmptySet
<1>5. Cardinality((S \ D) \cup (S \cap D)) = Cardinality(S)
  BY <1>1
<1>6. Cardinality(S \ D) \in Nat /\ Cardinality(S \cap D) \in Nat
  BY <1>2, SizeOfRequests
<1>7. QED
  BY <1>3, <1>4, <1>5, <1>6

\* connlimit.lua:82-88: above max the delay is at least one unit.
LEMMA DelayAboveMax ==
  ASSUME NEW c \in Int, c > Max
  PROVE  Delay(c) \in Nat /\ Delay(c) > 0
<1>1. Max \in Nat /\ Max > 0
  BY LimitAssumption
<1>2. (c - 1) \div Max \in Int /\ (c - 1) \div Max >= 1
  BY <1>1, SMT
<1>3. QED
  BY <1>2 DEF Delay

\* Up to max there is no delay.
LEMMA NoDelayUpToMax ==
  ASSUME NEW c \in Int, ~(c > Max)
  PROVE  Delay(c) = 0
BY DEF Delay

\* The three sets of requests the invariant counts, before and after a step.
LEMMA PartsOfRequests ==
  /\ Counted \in SUBSET Req /\ Admitted \in SUBSET Counted
  /\ Undelayed \in SUBSET Admitted
  /\ Counted' \in SUBSET Req /\ Admitted' \in SUBSET Counted'
  /\ Undelayed' \in SUBSET Admitted'
BY DEF Counted, Admitted, Undelayed

\* Their sizes, ordered by inclusion.
LEMMA SizesOfParts ==
  /\ Cardinality(Counted) \in Nat /\ Cardinality(Admitted) \in Nat
  /\ Cardinality(Undelayed) \in Nat
  /\ Cardinality(Undelayed) <= Cardinality(Admitted)
  /\ Cardinality(Admitted) <= Cardinality(Counted)
  /\ Cardinality(Counted') \in Nat /\ Cardinality(Admitted') \in Nat
  /\ Cardinality(Undelayed') \in Nat
  /\ Cardinality(Undelayed') <= Cardinality(Admitted')
  /\ Cardinality(Admitted') <= Cardinality(Counted')
<1>1. /\ Admitted \in SUBSET Req /\ Undelayed \in SUBSET Req
      /\ Admitted' \in SUBSET Req /\ Undelayed' \in SUBSET Req
  BY PartsOfRequests
<1>2. QED
  BY <1>1, PartsOfRequests, SizeOfRequests, SizeIsMonotone

\* Initially nobody is counted.
LEMMA InitEstablishes == Init => IInv
<1> SUFFICES ASSUME Init PROVE IInv
  OBVIOUS
<1>1. TypeOK
  <2>1. pc \in [Req -> Phase] /\ delay \in [Req -> Nat]
    BY DEF Init, Phase
  <2>2. exists \in BOOLEAN /\ ttl \in BOOLEAN
    BY Zenon DEF Init
  <2>3. cnt \in Int /\ faults \in 0..MaxFaults /\ leaked \in Nat /\ erased \in Int
    BY FaultAssumption DEF Init
  <2>4. QED
    BY <2>1, <2>2, <2>3, Zenon DEF TypeOK
<1>2. Counted = {}
  BY DEF Init, Counted
<1>3. Cardinality(Counted) = 0
  BY <1>2, FS_EmptySet
<1>4. QED
  BY <1>1, <1>3, SizesOfParts, LimitAssumption
  DEF IInv, CounterAccounting, HardLimit, SoftLimit, Init

\* The invariant survives when nobody enters and the books balance.
LEMMA NobodyEnters ==
  ASSUME IInv, TypeOK', CounterAccounting',
         Admitted' \in SUBSET Admitted, Undelayed' \in SUBSET Undelayed,
         erased' = erased
  PROVE  IInv'
<1>1. Admitted \in SUBSET Req /\ Undelayed \in SUBSET Req
  BY PartsOfRequests
<1>2. /\ Cardinality(Admitted') <= Cardinality(Admitted)
      /\ Cardinality(Undelayed') <= Cardinality(Undelayed)
  BY <1>1, SizeIsMonotone
<1>3. QED
  BY <1>2, SizesOfParts, LimitAssumption
  DEF IInv, HardLimit, SoftLimit, TypeOK

\* connlimit.lua:51-73, the three ways the first INCR can end.
LEMMA IncomingPreserves ==
  ASSUME IInv, NEW r \in Req, Incoming(r)
  PROVE  IInv'
<1> USE DEF IInv
<1>1. PICK o \in Outcome :
        /\ Bump(o, 1)
        /\ \/ /\ ~Answered(o)
              /\ conn_limit_logic(r, "error", 0)
              /\ leaked' = leaked + (IF Applied(o) THEN 1 ELSE 0)
              /\ UNCHANGED delay
           \/ /\ Answered(o) /\ cnt + 1 > Max + Burst
              /\ Goto(r, "rejecting")
              /\ UNCHANGED <<leaked, delay>>
           \/ /\ Answered(o) /\ cnt + 1 <= Max + Burst
              /\ delay' = [delay EXCEPT ![r] = Delay(cnt + 1)]
              /\ conn_limit_logic(r, "admitted", Delay(cnt + 1))
              /\ UNCHANGED leaked
  BY DEF Incoming
<1>2. pc[r] = "arriving" /\ erased' = erased /\ r \notin Counted
  BY DEF Incoming, Counted
<1>3. cnt + 1 \in Int /\ Delay(cnt + 1) \in Nat
  BY DelayAboveMax, NoDelayUpToMax DEF TypeOK
<1>4. CASE ~Answered(o)
  <2>1. pc' = [pc EXCEPT ![r] = "bypass"] /\ delay' = delay
    BY <1>1, <1>4 DEF conn_limit_logic, Goto
  <2>2. Counted' = Counted /\ Admitted' = Admitted /\ Undelayed' = Undelayed
    BY <2>1, <1>2 DEF Counted, Admitted, Undelayed, TypeOK
  <2>3. TypeOK'
    BY <1>1, <1>4, <1>2, <2>1, FaultAssumption
    DEF TypeOK, Bump, Fault, Phase, Outcome, Answered, Applied
  <2>4. CounterAccounting'
    BY <1>1, <1>4, <1>2, <2>2, SizesOfParts
    DEF CounterAccounting, Bump, TypeOK, Outcome, Answered, Applied
  <2>5. QED
    BY <2>2, <2>3, <2>4, <1>2, NobodyEnters
<1>5. CASE Answered(o) /\ cnt + 1 > Max + Burst
  <2>1. pc' = [pc EXCEPT ![r] = "rejecting"] /\ delay' = delay /\ leaked' = leaked
    BY <1>1, <1>5, LimitAssumption DEF Goto, TypeOK
  <2>2. /\ Counted' = Counted \cup {r}
        /\ Admitted' = Admitted /\ Undelayed' = Undelayed
    BY <2>1, <1>2 DEF Counted, Admitted, Undelayed, TypeOK
  <2>3. TypeOK'
    BY <1>1, <1>5, <1>2, <2>1, FaultAssumption
    DEF TypeOK, Bump, Fault, Phase, Outcome, Answered, Applied
  <2>4. Cardinality(Counted') = Cardinality(Counted) + 1
    BY <2>2, <1>2, PartsOfRequests, SizeAfterEntry
  <2>5. CounterAccounting'
    BY <1>1, <1>5, <1>2, <2>1, <2>4, SizesOfParts
    DEF CounterAccounting, Bump, TypeOK, Outcome, Answered, Applied
  <2>6. QED
    BY <2>2, <2>3, <2>5, <1>2, NobodyEnters
<1>6. CASE Answered(o) /\ cnt + 1 <= Max + Burst
  <2>1. /\ delay' = [delay EXCEPT ![r] = Delay(cnt + 1)]
        /\ leaked' = leaked /\ cnt' = cnt + 1
    BY <1>1, <1>6, LimitAssumption DEF Bump, Answered, Applied, TypeOK
  <2>2. \E p \in {"sleeping", "serving"} : pc' = [pc EXCEPT ![r] = p]
    BY <1>1, <1>3, <1>6, LimitAssumption DEF conn_limit_logic, Goto, TypeOK
  <2>3. Counted' = Counted \cup {r}
    BY <2>2, <1>2 DEF Counted, TypeOK
  <2>4. TypeOK'
    BY <1>1, <1>3, <1>6, <1>2, <2>1, <2>2, FaultAssumption
    DEF TypeOK, Bump, Fault, Phase, Outcome, Answered, Applied
  <2>5. Cardinality(Counted') = Cardinality(Counted) + 1
    BY <2>3, <1>2, PartsOfRequests, SizeAfterEntry
  <2>6. CounterAccounting'
    BY <1>2, <2>1, <2>5, SizesOfParts DEF CounterAccounting, TypeOK
  <2>7. Cardinality(Counted') <= cnt + 1 + erased
    BY <2>1, <2>6, <1>2, SizesOfParts DEF CounterAccounting, TypeOK
  <2>8. HardLimit'
    BY <2>7, <1>2, <1>6, SizesOfParts, LimitAssumption DEF HardLimit, TypeOK
  <2>9. SoftLimit'
    <3>1. CASE cnt + 1 > Max
      <4>1. delay'[r] > 0
        BY <2>1, <1>3, <3>1, DelayAboveMax DEF TypeOK
      <4>2. Undelayed' = Undelayed
        BY <4>1, <2>1, <2>2, <1>2 DEF Undelayed, Admitted, TypeOK
      <4>3. QED
        BY <4>2, <1>2 DEF SoftLimit
    <3>2. CASE cnt + 1 <= Max
      BY <3>2, <2>7, <1>2, SizesOfParts, LimitAssumption DEF SoftLimit, TypeOK
    <3>3. QED
      BY <3>1, <3>2, LimitAssumption DEF TypeOK
  <2>10. QED
    BY <2>4, <2>6, <2>8, <2>9
<1>7. QED
  BY <1>1, <1>4, <1>5, <1>6

\* connlimit.lua:66-72, the rejected request takes its 1 back.
LEMMA RejectPreserves ==
  ASSUME IInv, NEW r \in Req, Reject(r)
  PROVE  IInv'
<1> USE DEF IInv
<1>1. PICK o \in Outcome :
        /\ Bump(o, -1)
        /\ conn_limit_logic(r, IF Answered(o) THEN "rejected" ELSE "error", 0)
        /\ leaked' = leaked + (IF Applied(o) THEN 0 ELSE 1)
  BY DEF Reject
<1>2. pc[r] = "rejecting" /\ erased' = erased /\ delay' = delay /\ r \in Counted
  BY DEF Reject, Counted
<1>3. \E p \in {"denied", "bypass"} : pc' = [pc EXCEPT ![r] = p]
  BY <1>1 DEF conn_limit_logic, Goto
<1>4. /\ Counted' = Counted \ {r}
      /\ Admitted' = Admitted /\ Undelayed' = Undelayed
  BY <1>2, <1>3 DEF Counted, Admitted, Undelayed, TypeOK
<1>5. TypeOK'
  BY <1>1, <1>2, <1>3, FaultAssumption
  DEF TypeOK, Bump, Fault, Phase, Outcome, Answered, Applied
<1>6. Cardinality(Counted') = Cardinality(Counted) - 1
  BY <1>2, <1>4, PartsOfRequests, SizeAfterExit
<1>7. CounterAccounting'
  BY <1>1, <1>2, <1>6, SizesOfParts
  DEF CounterAccounting, Bump, TypeOK, Outcome, Answered, Applied
<1>8. QED
  BY <1>2, <1>4, <1>5, <1>7, NobodyEnters

\* connlimit_logic.lua:151, the end of the delay moves nothing.
LEMMA WakePreserves ==
  ASSUME IInv, NEW r \in Req, Wake(r)
  PROVE  IInv'
<1> USE DEF IInv
<1>1. /\ pc[r] = "sleeping" /\ pc' = [pc EXCEPT ![r] = "serving"]
      /\ UNCHANGED <<delay, cnt, exists, ttl, faults, leaked, erased>>
  BY DEF Wake, Goto, key
<1>2. Counted' = Counted /\ Admitted' = Admitted /\ Undelayed' = Undelayed
  BY <1>1 DEF Counted, Admitted, Undelayed, TypeOK
<1>3. TypeOK'
  BY <1>1 DEF TypeOK, Phase
<1>4. CounterAccounting'
  BY <1>1, <1>2 DEF CounterAccounting
<1>5. QED
  BY <1>1, <1>2, <1>3, <1>4, NobodyEnters

\* conn_redis.lua:21-24, the timer that will give the place back.
LEMMA LogPhasePreserves ==
  ASSUME IInv, NEW r \in Req, LogPhase(r)
  PROVE  IInv'
<1> USE DEF IInv
<1>1. PICK created \in BOOLEAN :
        /\ Fault(~created)
        /\ Goto(r, IF pc[r] = "serving" /\ created THEN "leaving" ELSE "done")
        /\ leaked' = leaked + (IF pc[r] = "serving" /\ ~created THEN 1 ELSE 0)
  BY DEF LogPhase
<1>2. /\ pc[r] \in {"serving", "bypass", "denied"}
      /\ UNCHANGED <<delay, cnt, exists, ttl, erased>>
  BY DEF LogPhase, key
<1>3. TypeOK'
  BY <1>1, <1>2, FaultAssumption DEF TypeOK, Fault, Goto, Phase
<1>4. CASE pc[r] = "serving" /\ ~created
  <2>1. pc' = [pc EXCEPT ![r] = "done"] /\ leaked' = leaked + 1
    BY <1>1, <1>4 DEF Goto
  <2>2. /\ Counted' = Counted \ {r} /\ r \in Counted
        /\ Admitted' \in SUBSET Admitted /\ Undelayed' \in SUBSET Undelayed
    BY <2>1, <1>2, <1>4 DEF Counted, Admitted, Undelayed, TypeOK
  <2>3. Cardinality(Counted') = Cardinality(Counted) - 1
    BY <2>2, PartsOfRequests, SizeAfterExit
  <2>4. CounterAccounting'
    BY <2>1, <2>3, <1>2, SizesOfParts DEF CounterAccounting, TypeOK
  <2>5. QED
    BY <1>2, <1>3, <2>2, <2>4, NobodyEnters
<1>5. CASE ~(pc[r] = "serving" /\ ~created)
  <2>1. leaked' = leaked
    BY <1>1, <1>5 DEF TypeOK
  <2>2. Counted' = Counted /\ Admitted' = Admitted /\ Undelayed' = Undelayed
    BY <1>1, <1>2, <1>5 DEF Counted, Admitted, Undelayed, TypeOK, Goto
  <2>3. CounterAccounting'
    BY <2>1, <2>2, <1>2 DEF CounterAccounting
  <2>4. QED
    BY <1>2, <1>3, <2>2, <2>3, NobodyEnters
<1>6. QED
  BY <1>4, <1>5

\* connlimit.lua:97-104, the release.
LEMMA LeavingPreserves ==
  ASSUME IInv, NEW r \in Req, Leaving(r)
  PROVE  IInv'
<1> USE DEF IInv
<1>1. PICK o \in Outcome :
        /\ Bump(o, -1)
        /\ Goto(r, IF Answered(o) /\ cnt - 1 = 0 THEN "expiring" ELSE "done")
        /\ leaked' = leaked + (IF Applied(o) THEN 0 ELSE 1)
  BY DEF Leaving
<1>2. pc[r] = "leaving" /\ erased' = erased /\ delay' = delay /\ r \in Counted
  BY DEF Leaving, Counted
<1>3. \E p \in {"expiring", "done"} : pc' = [pc EXCEPT ![r] = p]
  BY <1>1 DEF Goto
<1>4. /\ Counted' = Counted \ {r}
      /\ Admitted' \in SUBSET Admitted /\ Undelayed' \in SUBSET Undelayed
  BY <1>2, <1>3 DEF Counted, Admitted, Undelayed, TypeOK
<1>5. TypeOK'
  BY <1>1, <1>2, <1>3, FaultAssumption
  DEF TypeOK, Bump, Fault, Phase, Outcome, Answered, Applied
<1>6. Cardinality(Counted') = Cardinality(Counted) - 1
  BY <1>2, <1>4, PartsOfRequests, SizeAfterExit
<1>7. CounterAccounting'
  BY <1>1, <1>2, <1>6, SizesOfParts
  DEF CounterAccounting, Bump, TypeOK, Outcome, Answered, Applied
<1>8. QED
  BY <1>2, <1>4, <1>5, <1>7, NobodyEnters

\* connlimit.lua:110-116, the time to live changes no count.
LEMMA SetExpirePreserves ==
  ASSUME IInv, NEW r \in Req, SetExpire(r)
  PROVE  IInv'
<1> USE DEF IInv
<1>1. PICK o \in Outcome : /\ Fault(~Answered(o))
                           /\ ttl' = (ttl \/ (Applied(o) /\ exists))
  BY DEF SetExpire
<1>2. /\ pc[r] = "expiring" /\ pc' = [pc EXCEPT ![r] = "done"]
      /\ UNCHANGED <<delay, cnt, exists, leaked, erased>>
  BY DEF SetExpire, Goto
<1>3. Counted' = Counted /\ Admitted' = Admitted /\ Undelayed' = Undelayed
  BY <1>2 DEF Counted, Admitted, Undelayed, TypeOK
<1>4. TypeOK'
  BY <1>1, <1>2, FaultAssumption DEF TypeOK, Fault, Phase
<1>5. CounterAccounting'
  BY <1>2, <1>3 DEF CounterAccounting
<1>6. QED
  BY <1>2, <1>3, <1>4, <1>5, NobodyEnters

\* The expiry moves the value of the key from the counter to erased.
LEMMA KeyExpiresPreserves ==
  ASSUME IInv, KeyExpires
  PROVE  IInv'
<1> USE DEF IInv
<1>1. /\ erased' = erased + cnt /\ cnt' = 0
      /\ exists' = FALSE /\ ttl' = FALSE
      /\ UNCHANGED <<pc, delay, faults, leaked>>
  BY DEF KeyExpires
<1>2. Counted' = Counted /\ Admitted' = Admitted /\ Undelayed' = Undelayed
  BY <1>1 DEF Counted, Admitted, Undelayed
<1>3. TypeOK'
  <2>1. exists' \in BOOLEAN /\ ttl' \in BOOLEAN
    BY <1>1, Zenon
  <2>2. cnt' \in Int /\ erased' \in Int
    BY <1>1 DEF TypeOK
  <2>3. QED
    BY <1>1, <2>1, <2>2, Zenon DEF TypeOK
<1>4. CounterAccounting'
  BY <1>1, <1>2, SizesOfParts DEF CounterAccounting, TypeOK
<1>5. Cardinality(Admitted') <= erased'
      \/ (cnt >= 0 /\ erased' >= erased)
  BY <1>1, <1>4, SizesOfParts DEF CounterAccounting, TypeOK
<1>6. HardLimit' /\ SoftLimit'
  BY <1>1, <1>2, <1>3, <1>5, SizesOfParts, LimitAssumption
  DEF HardLimit, SoftLimit, TypeOK
<1>7. QED
  BY <1>3, <1>4, <1>6

\* A crash turns the places of the dead into leaked ones.
LEMMA WorkerCrashPreserves ==
  ASSUME IInv, NEW w \in Worker, WorkerCrash(w)
  PROVE  IInv'
<1> USE DEF IInv
<1> DEFINE dead == {r \in Req : Home[r] = w /\ pc[r] # "arriving"}
<1>1. /\ pc' = [r \in Req |-> IF r \in dead THEN "done" ELSE pc[r]]
      /\ leaked' = leaked + Cardinality(Counted \cap dead)
      /\ Fault(TRUE) /\ UNCHANGED <<delay, cnt, exists, ttl, erased>>
  BY DEF WorkerCrash, key
<1>2. dead \in SUBSET Req /\ Counted \cap dead \in SUBSET Req
  BY PartsOfRequests
<1>3. /\ Counted' = Counted \ dead
      /\ Admitted' \in SUBSET Admitted /\ Undelayed' \in SUBSET Undelayed
  BY <1>1 DEF Counted, Admitted, Undelayed
<1>4. Cardinality(Counted \cap dead) \in Nat
  BY <1>2, SizeOfRequests
<1>5. TypeOK'
  BY <1>1, <1>4, FaultAssumption DEF TypeOK, Fault, Phase
<1>6. Cardinality(Counted') = Cardinality(Counted) - Cardinality(Counted \cap dead)
  BY <1>2, <1>3, PartsOfRequests, SizeAfterCrash
<1> HIDE DEF dead
<1>7. CounterAccounting'
  BY <1>1, <1>4, <1>6, SizesOfParts DEF CounterAccounting, TypeOK
<1>8. QED
  BY <1>1, <1>3, <1>5, <1>7, NobodyEnters

\* Every step of the limiter, every fault and every expiry keeps the invariant.
LEMMA NextPreserves == IInv /\ [Next]_vars => IInv'
<1> SUFFICES ASSUME IInv, [Next]_vars PROVE IInv'
  OBVIOUS
<1>1. CASE \E r \in Req : Step(r)
  BY <1>1, IncomingPreserves, RejectPreserves, WakePreserves,
     LogPhasePreserves, LeavingPreserves, SetExpirePreserves DEF Step
<1>2. CASE KeyExpires
  BY <1>2, KeyExpiresPreserves
<1>3. CASE \E w \in Worker : WorkerCrash(w)
  BY <1>3, WorkerCrashPreserves
<1>4. CASE UNCHANGED vars
  BY <1>4 DEF vars, IInv, TypeOK, CounterAccounting, HardLimit, SoftLimit,
     Counted, Admitted, Undelayed
<1>5. QED
  BY <1>1, <1>2, <1>3, <1>4 DEF Next

\* The invariant of connlimit.lua for every interleaving, fault and expiry.
THEOREM Invariance == Spec => []IInv
<1>1. Init => IInv
  BY InitEstablishes
<1>2. IInv /\ [Next]_vars => IInv'
  BY NextPreserves
<1>3. QED
  BY <1>1, <1>2, PTL DEF Spec

\* Type correctness of the limiter's state.
THEOREM TypeCorrect == Spec => []TypeOK
BY Invariance, PTL DEF IInv

\* The counter always balances (connlimit.lua:59, 67 and 101).
THEOREM AccountsBalance == Spec => []CounterAccounting
BY Invariance, PTL DEF IInv

\* The limit of connlimit_logic.lua:16-21 holds up to what expiries forget.
THEOREM LimitHolds == Spec => []HardLimit
BY Invariance, PTL DEF IInv

\* At most max requests are let through without a delay, up to the same.
THEOREM DelayHolds == Spec => []SoftLimit
BY Invariance, PTL DEF IInv

\* connlimit.lua:66: nobody is turned away unless max + burst places are held,
\* on their way back or leaked.
THEOREM NoSpuriousReject == Spec => RejectOnlyWhenFull
<1> DEFINE A == \A r \in Req : pc[r] = "arriving" /\ pc'[r] = "rejecting"
                   => Cardinality(Counted) + leaked >= Max + Burst + erased
<1>1. IInv /\ [Next]_vars => [A]_vars
  <2> SUFFICES ASSUME IInv, Next, NEW r \in Req,
                      pc[r] = "arriving", pc'[r] = "rejecting"
               PROVE  Cardinality(Counted) + leaked >= Max + Burst + erased
    OBVIOUS
  <2>1. Incoming(r)
    BY DEF Next, Step, Incoming, Reject, Wake, LogPhase, Leaving, SetExpire,
       KeyExpires, WorkerCrash, conn_limit_logic, Goto, IInv, TypeOK
  <2>2. cnt + 1 > Max + Burst
    BY <2>1 DEF Incoming, conn_limit_logic, Goto, IInv, TypeOK
  <2>3. QED
    BY <2>2, SizesOfParts, LimitAssumption DEF IInv, CounterAccounting, TypeOK
<1>2. QED
  BY <1>1, Invariance, PTL DEF Spec, RejectOnlyWhenFull

\* How a step of one request changes who is admitted: a request in its log
\* phase leaves, a request that incoming() commits enters below the limit.
LEMMA StepMovesAdmitted ==
  ASSUME IInv, NEW r \in Req, Step(r)
  PROVE  /\ erased' = erased
         /\ \/ Admitted' = Admitted
            \/ Admitted' = Admitted \ {r}
            \/ /\ r \notin Admitted /\ Admitted' = Admitted \cup {r}
               /\ cnt + 1 <= Max + Burst
<1> USE DEF IInv
<1>1. erased' = erased
  BY DEF Step, Incoming, Reject, Wake, LogPhase, Leaving, SetExpire
<1>2. \E p \in Phase : pc' = [pc EXCEPT ![r] = p]
  BY DEF Step, Incoming, Reject, Wake, LogPhase, Leaving, SetExpire,
     conn_limit_logic, Goto, Phase
<1>3. CASE Incoming(r)
  BY <1>1, <1>2, <1>3 DEF Incoming, conn_limit_logic, Goto, Admitted, TypeOK
<1>4. CASE ~Incoming(r)
  <2>1. pc[r] \notin {"sleeping", "serving", "leaving"}
          => pc'[r] \notin {"sleeping", "serving", "leaving"}
    BY <1>4 DEF Step, Reject, Wake, LogPhase, Leaving, SetExpire,
       conn_limit_logic, Goto, TypeOK
  <2>2. QED
    BY <1>1, <1>2, <2>1 DEF Admitted, TypeOK
<1>5. QED
  BY <1>3, <1>4

\* The gate counts with the same Cardinality.
LEMMA GateCounts ==
  ASSUME NEW S
  PROVE  Gate!Cardinality(S) = Cardinality(S)
BY DEF Cardinality, Gate!Cardinality

\* The limiter implements the gate (ConcurrencyGate): whatever Redis and the
\* workers do, a request enters only through a free place, and places are
\* given twice only by the expiry of the key.
THEOREM LimiterImplementsGate == Spec => ImplementsGate
<1>1. Init => Gate!GateInit
  BY DEF Init, Gate!GateInit, Admitted
<1>2. IInv /\ IInv' /\ [Next]_vars => [Gate!GateNext]_(Gate!gateVars)
  <2> SUFFICES ASSUME IInv, IInv', [Next]_vars
               PROVE  [Gate!GateNext]_(Gate!gateVars)
    OBVIOUS
  <2>1. CASE \E r \in Req : Step(r)
    <3>1. PICK r \in Req : Step(r)
      BY <2>1
    <3>2. erased' = erased
      BY <3>1, StepMovesAdmitted
    <3>3. CASE Admitted' = Admitted
      BY <3>2, <3>3 DEF Gate!gateVars
    <3>4. CASE Admitted' = Admitted \ {r}
      <4>1. Gate!Leave({r})
        BY <3>2, <3>4 DEF Gate!Leave
      <4>2. QED
        BY <4>1 DEF Gate!GateNext
    <3>5. CASE /\ r \notin Admitted /\ Admitted' = Admitted \cup {r}
               /\ cnt + 1 <= Max + Burst
      <4>1. Cardinality(Admitted) < Max + Burst + erased
        BY <3>5, SizesOfParts, LimitAssumption DEF IInv, CounterAccounting, TypeOK
      <4>2. Gate!Enter(r)
        BY <3>2, <3>5, <4>1, GateCounts DEF Gate!Enter
      <4>3. QED
        BY <4>2 DEF Gate!GateNext
    <3>6. QED
      BY <3>1, <3>3, <3>4, <3>5, StepMovesAdmitted
  <2>2. CASE KeyExpires
    <3>1. Admitted' = Admitted /\ erased' \in Int
      BY <2>2 DEF KeyExpires, Admitted, IInv, TypeOK
    <3>2. Gate!Forget
      BY <3>1, GateCounts DEF Gate!Forget, IInv, HardLimit
    <3>3. QED
      BY <3>2 DEF Gate!GateNext
  <2>3. CASE \E w \in Worker : WorkerCrash(w)
    <3>1. PICK w \in Worker : WorkerCrash(w)
      BY <2>3
    <3> DEFINE dead == {r \in Req : Home[r] = w /\ pc[r] # "arriving"}
    <3>2. Admitted' = Admitted \ dead /\ erased' = erased
      BY <3>1 DEF WorkerCrash, Admitted
    <3>3. Gate!Leave(dead)
      BY <3>2 DEF Gate!Leave
    <3>4. dead \in SUBSET Req
      OBVIOUS
    <3>5. QED
      BY <3>3, <3>4 DEF Gate!GateNext
  <2>4. CASE UNCHANGED vars
    BY <2>4 DEF vars, Admitted, Gate!gateVars
  <2>5. QED
    BY <2>1, <2>2, <2>3, <2>4 DEF Next
<1>3. QED
  BY <1>1, <1>2, Invariance, PTL DEF Spec, ImplementsGate, Gate!GateSpec
=============================================================================
