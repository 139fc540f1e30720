----------------------------- MODULE AccessProofs -----------------------------
(***************************************************************************)
(* Proofs about Access for any number of requests, any rule files, lists,  *)
(* clients and any size of the dictionary.  Two of its properties do not   *)
(* depend on what the shared dictionary does (IInv): that the counters of  *)
(* the connection limiter balance, and that the answers of the two address *)
(* lists are judged by a state they were in.  The others need what the     *)
(* dictionary keeps and how the loader fills it (DInv), which rests on the *)
(* lemmas of ShDictProofs about its operations.                            *)
(***************************************************************************)
EXTENDS Access, RulesProofs

\* Where a request cannot have a place yet.
Early == {"idle", "basic", "black", "white", "req", "conn"}

\* The variables of the requests, as far as they are needed here.
Shape == /\ pc \in [Req -> Phase] /\ doubt \in [Req -> 0..3]
         /\ DOMAIN client = Req /\ DOMAIN service = Req /\ DOMAIN rule = Req
         /\ DOMAIN hold = Req /\ DOMAIN placed = Req /\ DOMAIN seen = Req

\* What a request owes is what its context says, or, on its way to 429, what
\* its rule says.
Owes(r) == /\ pc[r] = "rejecting" => placed[r] = {CounterKey(r, rule[r])} /\ hold[r] = {}
           /\ pc[r] # "rejecting" => placed[r] = hold[r]
           /\ pc[r] \in Early => hold[r] = {}
           /\ \A k \in hold[r] : hold[r] = {k}
Owing == \A r \in Req : Owes(r)

\* The requests with a place at counter k, and the counter itself.
At(k) == {r \in Req : k \in placed[r]}
Balanced == \A k : Counter(k) = Cardinality(At(k))

\* While a request asks the lists, the history has the way they stand now,
\* and an address that was found on the black list is still there unless an
\* edit took it off.
Asked(r) == <<service[r], client[r].ip>>
Watched(r) == /\ pc[r] \in {"black", "white"}
                 => Standing(service[r], client[r], black, white) \in seen[r]
              /\ pc[r] = "white" /\ doubt[r] = 0 => Asked(r) \in black
              /\ pc[r] = "white" /\ doubt[r] = 1
                 => "banned" \in seen[r] \/ Asked(r) \in black \cup white
Watching == \A r \in Req : Watched(r)

\* The inductive invariant.
IInv == Shape /\ Owing /\ Balanced /\ Watching

-----------------------------------------------------------------------------

\* INCR and DECR change one counter by one.
LEMMA BumpCounts ==
  ASSUME \A j : Counter(j) \in Int, NEW k, NEW d \in Int, Bump(k, d)
  PROVE  \A j : Counter(j)' = Counter(j) + (IF j = k THEN d ELSE 0)
<1> DEFINE Sum(j) == Counter(j) + (IF j = k THEN d ELSE 0)
           D == {j \in DOMAIN cnt \cup {k} : Sum(j) # 0}
<1>1. cnt' = [j \in D |-> Sum(j)]
  BY DEF Bump
<1>2. ASSUME NEW j PROVE Counter(j)' = Sum(j)
  <2>1. CASE j \in D
    BY <1>1, <2>1 DEF Counter
  <2>2. CASE j \notin D
    <3>1. Counter(j)' = 0
      BY <1>1, <2>2 DEF Counter
    <3>2. Sum(j) = 0
      BY <2>2 DEF Counter
    <3>3. QED
      BY <3>1, <3>2
  <2>3. QED
    BY <2>1, <2>2
<1>3. QED
  BY <1>2

\* The counters are natural numbers.
LEMMA CountersNat ==
  ASSUME Balanced
  PROVE  \A k : Counter(k) \in Int /\ IsFiniteSet(At(k)) /\ Cardinality(At(k)) \in Nat
<1>1. \A k : At(k) \subseteq Req
  BY DEF At
<1>2. \A k : IsFiniteSet(At(k))
  BY <1>1, AccessAssumption, FS_Subset
<1>3. QED
  BY <1>2, FS_CardinalityType DEF Balanced

\* A request without a place takes one, at the counter that is raised.
LEMMA PlaceTaken ==
  ASSUME Shape, Balanced, NEW r \in Req, NEW k, placed[r] = {},
         placed' = [placed EXCEPT ![r] = {k}], Bump(k, 1)
  PROVE  Balanced'
<1>1. \A j : Counter(j)' = Counter(j) + (IF j = k THEN 1 ELSE 0)
  BY CountersNat, BumpCounts
<1>2. /\ placed'[r] = {k}
      /\ \A s \in Req : s # r => placed'[s] = placed[s]
  BY DEF Shape
<1>3. ASSUME NEW j PROVE Counter(j)' = Cardinality(At(j))'
  <2>1. PICK S : S = At(j)
    OBVIOUS
  <2>2. IsFiniteSet(S) /\ Cardinality(S) \in Nat /\ Counter(j) = Cardinality(S)
    BY <2>1, CountersNat DEF Balanced
  <2>3. CASE j = k
    <3>1. At(j)' = S \cup {r} /\ r \notin S
      BY <1>2, <2>1, <2>3 DEF At
    <3>2. Cardinality(S \cup {r}) = Cardinality(S) + 1
      BY <2>2, <3>1, FS_AddElement
    <3>3. QED
      BY <1>1, <2>2, <2>3, <3>1, <3>2
  <2>4. CASE j # k
    <3>1. At(j)' = S
      BY <1>2, <2>1, <2>4 DEF At
    <3>2. QED
      BY <1>1, <2>2, <2>4, <3>1
  <2>5. QED
    BY <2>3, <2>4
<1>4. QED
  BY <1>3 DEF Balanced

\* A request gives its only place back, at the counter that is lowered.
LEMMA PlaceReturned ==
  ASSUME Shape, Balanced, NEW r \in Req, NEW k, placed[r] = {k},
         placed' = [placed EXCEPT ![r] = {}], Bump(k, -1)
  PROVE  Balanced'
<1>1. \A j : Counter(j)' = Counter(j) + (IF j = k THEN -1 ELSE 0)
  BY CountersNat, BumpCounts
<1>2. /\ placed'[r] = {}
      /\ \A s \in Req : s # r => placed'[s] = placed[s]
  BY DEF Shape
<1>3. ASSUME NEW j PROVE Counter(j)' = Cardinality(At(j))'
  <2>1. PICK S : S = At(j)
    OBVIOUS
  <2>2. IsFiniteSet(S) /\ Cardinality(S) \in Nat /\ Counter(j) = Cardinality(S)
    BY <2>1, CountersNat DEF Balanced
  <2>3. CASE j = k
    <3>1. At(j)' = S \ {r} /\ r \in S
      BY <1>2, <2>1, <2>3 DEF At
    <3>2. Cardinality(S \ {r}) = Cardinality(S) - 1
      BY <2>2, <3>1, FS_RemoveElement
    <3>3. QED
      BY <1>1, <2>2, <2>3, <3>1, <3>2
  <2>4. CASE j # k
    <3>1. At(j)' = S
      BY <1>2, <2>1, <2>4 DEF At
    <3>2. QED
      BY <1>1, <2>2, <2>4, <3>1
  <2>5. QED
    BY <2>3, <2>4
<1>4. QED
  BY <1>3 DEF Balanced

\* A step that moves no place keeps the balance.
LEMMA NothingMoved ==
  ASSUME Balanced, placed' = placed, cnt' = cnt
  PROVE  Balanced'
<1>1. ASSUME NEW j PROVE Counter(j)' = Cardinality(At(j))'
  BY DEF Balanced, Counter, At
<1>2. QED
  BY <1>1 DEF Balanced

-----------------------------------------------------------------------------

\* Only request r takes a step.
Alone(r) == \A s \in Req : s # r =>
              /\ pc'[s] = pc[s] /\ client'[s] = client[s] /\ service'[s] = service[s]
              /\ rule'[s] = rule[s] /\ hold'[s] = hold[s] /\ placed'[s] = placed[s]
              /\ seen'[s] = seen[s] /\ doubt'[s] = doubt[s]

\* The steps of a request.
Steps(r) == \/ Arrive(r) \/ Basic(r) \/ Black(r) \/ White(r) \/ ReqLimit(r)
            \/ ConnLimit(r) \/ Reject(r) \/ Log(r)

\* The step of a request changes nothing of another one.
LEMMA StepsAlone ==
  ASSUME Shape, NEW r \in Req, Steps(r)
  PROVE  Shape' /\ Alone(r) /\ black' = black /\ white' = white
<1>1. CASE Arrive(r)
  <2>1. PICK l \in {"serving", "basic"} : pc' = [pc EXCEPT ![r] = l]
    BY <1>1 DEF Arrive, Goto
  <2>2. PICK c \in Clients[r] : client' = [client EXCEPT ![r] = c]
    BY <1>1 DEF Arrive
  <2>3. UNCHANGED <<black, white, service, rule, hold, placed, seen, doubt>>
    BY <1>1 DEF Arrive, lists
  <2>4. QED
    BY <2>1, <2>2, <2>3 DEF Shape, Alone, Phase
<1>2. CASE Basic(r)
  <2>1. PICK l \in {"failed", "black", "req"} : pc' = [pc EXCEPT ![r] = l]
    BY <1>2, Zenon DEF Basic, Goto
  <2>2. service' = service \/ \E x : service' = [service EXCEPT ![r] = x]
    BY <1>2, Zenon DEF Basic
  <2>3. seen' = seen \/ \E x : seen' = [seen EXCEPT ![r] = x]
    BY <1>2, Zenon DEF Basic
  <2>4. UNCHANGED <<black, white, client, rule, hold, placed, doubt>>
    BY <1>2 DEF Basic, lists
  <2>5. QED
    BY <2>1, <2>2, <2>3, <2>4 DEF Shape, Alone, Phase
<1>3. CASE Black(r) \/ White(r)
  <2>1. PICK l \in {"white", "req", "denied"} : pc' = [pc EXCEPT ![r] = l]
    BY <1>3 DEF Black, White, Goto
  <2>2. doubt' = doubt \/ doubt' = [doubt EXCEPT ![r] = 3]
    BY <1>3 DEF Black, White
  <2>3. UNCHANGED <<black, white, client, service, rule, hold, placed, seen>>
    BY <1>3 DEF Black, White, lists
  <2>4. QED
    BY <2>1, <2>2, <2>3 DEF Shape, Alone, Phase
<1>4. CASE ReqLimit(r)
  <2>1. PICK l \in {"conn", "failed", "denied"} : pc' = [pc EXCEPT ![r] = l]
    BY <1>4, Zenon DEF ReqLimit, Goto
  <2>2. /\ seen' = [seen EXCEPT ![r] = {}] /\ doubt' = [doubt EXCEPT ![r] = 0]
        /\ UNCHANGED <<black, white, client, service, rule, hold, placed>>
    BY <1>4 DEF ReqLimit, lists
  <2>3. QED
    BY <2>1, <2>2 DEF Shape, Alone, Phase
<1>5. CASE ConnLimit(r)
  <2>1. PICK l \in {"failed", "serving", "rejecting"} : pc' = [pc EXCEPT ![r] = l]
    BY <1>5, Zenon DEF ConnLimit, Goto
  <2>2. rule' = rule \/ \E x : rule' = [rule EXCEPT ![r] = x]
    BY <1>5, Zenon DEF ConnLimit
  <2>3. hold' = hold \/ \E x : hold' = [hold EXCEPT ![r] = x]
    BY <1>5, Zenon DEF ConnLimit
  <2>4. placed' = placed \/ \E x : placed' = [placed EXCEPT ![r] = x]
    BY <1>5, Zenon DEF ConnLimit
  <2>5. UNCHANGED <<black, white, client, service, seen, doubt>>
    BY <1>5 DEF ConnLimit, lists
  <2>6. QED
    BY <2>1, <2>2, <2>3, <2>4, <2>5 DEF Shape, Alone, Phase
<1>6. CASE Reject(r)
  <2>1. PICK l \in {"serving", "denied"} : pc' = [pc EXCEPT ![r] = l]
    BY <1>6 DEF Reject, Goto
  <2>2. /\ placed' = [placed EXCEPT ![r] = {}] /\ rule' = [rule EXCEPT ![r] = Nil]
        /\ UNCHANGED <<black, white, client, service, hold, seen, doubt>>
    BY <1>6 DEF Reject, lists
  <2>3. QED
    BY <2>1, <2>2 DEF Shape, Alone, Phase
<1>7. CASE Log(r)
  <2>1. PICK c : client' = [client EXCEPT ![r] = c]
    BY <1>7 DEF Log, Forget
  <2>2. /\ pc' = [pc EXCEPT ![r] = "idle"] /\ service' = [service EXCEPT ![r] = Nil]
        /\ rule' = [rule EXCEPT ![r] = Nil] /\ hold' = [hold EXCEPT ![r] = {}]
        /\ placed' = [placed EXCEPT ![r] = {}] /\ seen' = [seen EXCEPT ![r] = {}]
        /\ doubt' = [doubt EXCEPT ![r] = 0] /\ UNCHANGED <<black, white>>
    BY <1>7 DEF Log, Forget, Goto, lists
  <2>3. QED
    BY <2>1, <2>2 DEF Shape, Alone, Phase
<1>8. QED
  BY <1>1, <1>2, <1>3, <1>4, <1>5, <1>6, <1>7 DEF Steps

\* What one request owes and what it has seen is all that its step can change.
LEMMA AloneKeeps ==
  ASSUME NEW r \in Req, Alone(r), black' = black, white' = white, Owing, Watching
  PROVE  /\ Owes(r)' => Owing'
         /\ Watched(r)' => Watching'
<1>1. ASSUME NEW s \in Req, s # r PROVE Owes(s)' /\ Watched(s)'
  <2>1. /\ pc'[s] = pc[s] /\ client'[s] = client[s] /\ service'[s] = service[s]
        /\ rule'[s] = rule[s] /\ hold'[s] = hold[s] /\ placed'[s] = placed[s]
        /\ seen'[s] = seen[s] /\ doubt'[s] = doubt[s]
    BY <1>1 DEF Alone
  <2>2. Owes(s)'
    BY <2>1 DEF Owing, Owes, CounterKey
  <2>3. Watched(s)'
    BY <2>1 DEF Watching, Watched, Asked, Standing
  <2>4. QED
    BY <2>2, <2>3
<1>2. QED
  BY <1>1 DEF Owing, Watching

\* A request that has no place yet and goes on without one owes nothing.
LEMMA EarlyOwes ==
  ASSUME Shape, Owing, NEW r \in Req, pc[r] \in Early, NEW l \in Phase \ {"rejecting"},
         pc' = [pc EXCEPT ![r] = l], hold' = hold, placed' = placed
  PROVE  Owes(r)'
<1>1. hold[r] = {} /\ placed[r] = {}
  BY DEF Owing, Owes, Early
<1>2. pc'[r] = l
  BY DEF Shape
<1>3. QED
  BY <1>1, <1>2 DEF Owes

\* A request that does not ask the lists afterwards has nothing to watch.
LEMMA NotAsking ==
  ASSUME NEW r \in Req, pc'[r] \notin {"black", "white"}
  PROVE  Watched(r)'
BY DEF Watched

\* The steps before the connection limiter move no place, and keep the
\* history of the lists up to date.
LEMMA EarlySteps ==
  ASSUME IInv, NEW r \in Req, Arrive(r) \/ Basic(r) \/ Black(r) \/ White(r) \/ ReqLimit(r)
  PROVE  Owes(r)' /\ Balanced' /\ Watched(r)'
<1>0. Shape /\ Owing /\ Balanced /\ Watched(r)
  BY DEF IInv, Watching
<1>1. cnt' = cnt /\ hold' = hold /\ placed' = placed /\ pc[r] \in Early
  BY DEF Arrive, Basic, Black, White, ReqLimit, Early
<1>2. Balanced'
  BY <1>0, <1>1, NothingMoved
<1>3. PICK l \in Phase \ {"rejecting"} : pc' = [pc EXCEPT ![r] = l]
  <2>1. CASE Arrive(r)
    BY <2>1, Zenon DEF Arrive, Goto, Phase
  <2>2. CASE Basic(r)
    BY <2>2, Zenon DEF Basic, Goto, Phase
  <2>3. CASE Black(r)
    BY <2>3, Zenon DEF Black, Goto, Phase
  <2>4. CASE White(r)
    BY <2>4, Zenon DEF White, Goto, Phase
  <2>5. CASE ReqLimit(r)
    BY <2>5, Zenon DEF ReqLimit, Goto, Phase
  <2>6. QED
    BY <2>1, <2>2, <2>3, <2>4, <2>5
<1>4. Owes(r)'
  BY <1>0, <1>1, <1>3, EarlyOwes
<1>5. pc'[r] = l
  BY <1>0, <1>3 DEF Shape
<1>6. CASE Arrive(r)
  <2>1. pc' = [pc EXCEPT ![r] = "serving"] \/ pc' = [pc EXCEPT ![r] = "basic"]
    BY <1>6 DEF Arrive, Goto
  <2>2. pc'[r] \in {"serving", "basic"}
    BY <1>0, <2>1 DEF Shape
  <2>3. QED
    BY <1>2, <1>4, <2>2, NotAsking
<1>7. CASE Basic(r)
  <2>1. CASE Goto(r, "black")
    <3>1. PICK s : /\ service' = [service EXCEPT ![r] = s]
                   /\ seen' = [seen EXCEPT ![r] = {Standing(s, client[r], black, white)}]
      <4>1. ~Goto(r, "failed") /\ ~Goto(r, "req")
        BY <1>0, <2>1 DEF Goto, Shape
      <4>2. QED
        BY <1>7, <2>1, <4>1, Zenon DEF Basic
    <3>2. client' = client /\ black' = black /\ white' = white /\ pc'[r] = "black"
      BY <1>0, <1>7, <2>1 DEF Basic, lists, Goto, Shape
    <3>3. service'[r] = s /\ seen'[r] = {Standing(s, client[r], black, white)}
      BY <1>0, <3>1 DEF Shape
    <3>4. Watched(r)'
      BY <3>2, <3>3 DEF Watched, Standing
    <3>5. QED
      BY <1>2, <1>4, <3>4
  <2>2. CASE Goto(r, "failed") \/ Goto(r, "req")
    <3>1. pc'[r] \notin {"black", "white"}
      BY <1>0, <2>2 DEF Goto, Shape
    <3>2. QED
      BY <1>2, <1>4, <3>1, NotAsking
  <2>3. QED
    BY <1>7, <2>1, <2>2, Zenon DEF Basic
<1>8. CASE Black(r)
  <2>1. /\ pc[r] = "black" /\ UNCHANGED <<black, white, client, service, seen>>
    BY <1>8 DEF Black, lists
  <2>2. CASE Goto(r, "req")
    <3>1. pc'[r] \notin {"black", "white"}
      BY <1>0, <2>2 DEF Goto, Shape
    <3>2. QED
      BY <1>2, <1>4, <3>1, NotAsking
  <2>3. CASE ~Goto(r, "req")
    <3>1. Asked(r) \in black /\ pc'[r] = "white"
      BY <1>0, <1>8, <2>3 DEF Black, Goto, Shape, Asked
    <3>2. Watched(r)'
      BY <1>0, <2>1, <3>1 DEF Watched, Asked, Standing
    <3>3. QED
      BY <1>2, <1>4, <3>2
  <2>4. QED
    BY <2>2, <2>3
<1>9. CASE White(r)
  <2>1. pc'[r] \notin {"black", "white"}
    BY <1>0, <1>9 DEF White, Goto, Shape
  <2>2. QED
    BY <1>2, <1>4, <2>1, NotAsking
<1>10. CASE ReqLimit(r)
  <2>1. Goto(r, "conn") \/ Goto(r, "failed") \/ Goto(r, "denied")
    BY <1>10, Zenon DEF ReqLimit
  <2>2. pc'[r] \notin {"black", "white"}
    BY <1>0, <2>1 DEF Goto, Shape
  <2>3. QED
    BY <1>2, <1>4, <2>2, NotAsking
<1>11. QED
  BY <1>6, <1>7, <1>8, <1>9, <1>10

\* The connection limiter: the place is taken at the counter the context
\* names, or the one the rule names while the request takes it back.
LEMMA ConnLimitStep ==
  ASSUME IInv, NEW r \in Req, ConnLimit(r)
  PROVE  Owes(r)' /\ Balanced' /\ Watched(r)'
<1>0. Shape /\ Owing /\ Balanced
  BY DEF IInv
<1>1. pc[r] = "conn" /\ service' = service
  BY DEF ConnLimit
<1>2. hold[r] = {} /\ placed[r] = {}
  BY <1>0, <1>1 DEF Owing, Owes, Early
<1>3. \/ (Goto(r, "failed") \/ Goto(r, "serving")) /\ UNCHANGED <<cnt, hold, placed>>
      \/ \E v : /\ rule' = [rule EXCEPT ![r] = v]
                /\ Bump(CounterKey(r, v), 1)
                /\ placed' = [placed EXCEPT ![r] = {CounterKey(r, v)}]
                /\ \/ Goto(r, "rejecting") /\ UNCHANGED hold
                   \/ Goto(r, "serving") /\ hold' = [hold EXCEPT ![r] = {CounterKey(r, v)}]
  BY Zenon DEF ConnLimit
<1>4. pc'[r] \notin {"black", "white"}
  BY <1>0, <1>3 DEF Goto, Shape
<1>5. Watched(r)'
  BY <1>4, NotAsking
<1>6. CASE (Goto(r, "failed") \/ Goto(r, "serving")) /\ UNCHANGED <<cnt, hold, placed>>
  <2>1. PICK l \in {"failed", "serving"} : pc' = [pc EXCEPT ![r] = l]
    BY <1>6 DEF Goto
  <2>2. Owes(r)'
    BY <1>0, <1>1, <1>6, <2>1, EarlyOwes DEF Early, Phase
  <2>3. Balanced'
    BY <1>0, <1>6, NothingMoved
  <2>4. QED
    BY <1>5, <2>2, <2>3
<1>7. ASSUME NEW v, rule' = [rule EXCEPT ![r] = v], Bump(CounterKey(r, v), 1),
             placed' = [placed EXCEPT ![r] = {CounterKey(r, v)}],
             \/ Goto(r, "rejecting") /\ UNCHANGED hold
             \/ Goto(r, "serving") /\ hold' = [hold EXCEPT ![r] = {CounterKey(r, v)}]
      PROVE  Owes(r)' /\ Balanced'
  <2>1. PICK k : k = CounterKey(r, v)
    OBVIOUS
  <2>2. Bump(k, 1) /\ placed' = [placed EXCEPT ![r] = {k}]
    BY <1>7, <2>1, Zenon
  <2>3. Balanced'
    BY <1>0, <1>2, <2>2, PlaceTaken
  <2>4. placed'[r] = {k} /\ rule'[r] = v
    BY <1>0, <1>7, <2>2 DEF Shape
  <2>5. CounterKey(r, rule[r])' = k
    BY <1>1, <2>1, <2>4 DEF CounterKey
  <2>6. CASE Goto(r, "rejecting") /\ UNCHANGED hold
    <3>1. pc'[r] = "rejecting" /\ hold'[r] = {}
      BY <1>0, <1>2, <2>6 DEF Goto, Shape
    <3>2. Owes(r)'
      BY <2>4, <2>5, <3>1 DEF Owes, Early
    <3>3. QED
      BY <2>3, <3>2
  <2>7. CASE Goto(r, "serving") /\ hold' = [hold EXCEPT ![r] = {CounterKey(r, v)}]
    <3>1. pc'[r] = "serving" /\ hold'[r] = {k}
      BY <1>0, <2>1, <2>7 DEF Goto, Shape
    <3>2. Owes(r)'
      BY <2>4, <3>1 DEF Owes, Early
    <3>3. QED
      BY <2>3, <3>2
  <2>8. QED
    BY <1>7, <2>6, <2>7
<1>8. QED
  BY <1>3, <1>5, <1>6, <1>7

\* The place of a request over the limit goes back to the counter it was
\* taken from, and so does the one of a request that ends.
LEMMA ReleaseSteps ==
  ASSUME IInv, NEW r \in Req, Reject(r) \/ Log(r)
  PROVE  Owes(r)' /\ Balanced' /\ Watched(r)'
<1>0. Shape /\ Balanced /\ Owes(r)
  BY DEF IInv, Owing
<1>1. CASE Reject(r)
  <2>1. PICK k : k = CounterKey(r, rule[r])
    OBVIOUS
  <2>2. pc[r] = "rejecting" /\ Bump(k, -1) /\ placed' = [placed EXCEPT ![r] = {}] /\ hold' = hold
    BY <1>1, <2>1, Zenon DEF Reject
  <2>3. placed[r] = {k} /\ hold[r] = {}
    BY <1>0, <2>1, <2>2 DEF Owes
  <2>4. Balanced'
    BY <1>0, <2>2, <2>3, PlaceReturned
  <2>5. pc'[r] \in {"serving", "denied"}
    BY <1>0, <1>1 DEF Reject, Goto, Shape
  <2>6. placed'[r] = {} /\ hold'[r] = {}
    BY <1>0, <2>2, <2>3 DEF Shape
  <2>7. QED
    BY <2>4, <2>5, <2>6, NotAsking DEF Owes
<1>2. CASE Log(r)
  <2>1. /\ pc[r] # "rejecting" /\ placed' = [placed EXCEPT ![r] = {}]
        /\ hold' = [hold EXCEPT ![r] = {}] /\ pc' = [pc EXCEPT ![r] = "idle"]
    BY <1>2 DEF Log, Ended, Forget, Goto
  <2>2. placed[r] = hold[r] /\ \A k \in hold[r] : hold[r] = {k}
    BY <1>0, <2>1 DEF Owes
  <2>3. pc'[r] = "idle" /\ placed'[r] = {} /\ hold'[r] = {}
    BY <1>0, <2>1 DEF Shape
  <2>4. Owes(r)' /\ Watched(r)'
    BY <2>3, NotAsking DEF Owes
  <2>5. CASE hold[r] = {} /\ UNCHANGED cnt
    <3>1. ASSUME NEW k PROVE At(k)' = At(k)
      BY <1>0, <2>1, <2>2, <2>5 DEF At, Shape
    <3>2. ASSUME NEW k PROVE Counter(k)' = Cardinality(At(k))'
      BY <1>0, <2>5, <3>1 DEF Balanced, Counter
    <3>3. QED
      BY <2>4, <3>2 DEF Balanced
  <2>6. ASSUME NEW k \in hold[r], Bump(k, -1) PROVE Balanced'
    BY <1>0, <2>1, <2>2, <2>6, PlaceReturned
  <2>7. QED
    BY <1>2, <2>4, <2>5, <2>6 DEF Log
<1>3. QED
  BY <1>1, <1>2

\* An edit of the lists while requests ask them.
LEMMA RelistStep ==
  ASSUME IInv, Relist
  PROVE  IInv'
<1>0. Shape /\ Owing /\ Balanced /\ Watching
  BY DEF IInv
<1>1. /\ UNCHANGED <<cnt, pc, client, service, rule, hold, placed>>
      /\ seen' = [r \in Req |-> IF r \in Asking
                   THEN seen[r] \cup {Standing(service[r], client[r], black', white')} ELSE seen[r]]
      /\ doubt' = [r \in Req |-> IF r \in Asking /\ doubt[r] < 2 THEN doubt[r] + 1 ELSE doubt[r]]
  BY DEF Relist
<1>2. Shape'
  BY <1>0, <1>1 DEF Shape
<1>3. Balanced'
  BY <1>0, <1>1, NothingMoved
<1>4. Owing'
  BY <1>0, <1>1 DEF Owing, Owes, CounterKey
<1>5. PICK e : \/ black' = (black \ {e}) \cup ({e} \ black) /\ white' = white
               \/ white' = (white \ {e}) \cup ({e} \ white) /\ black' = black
  BY DEF Relist
<1>6. ASSUME NEW r \in Req PROVE Watched(r)'
  <2>1. CASE r \notin Asking
    BY <1>1, <2>1 DEF Asking, Watched
  <2>2. CASE r \in Asking
    <3>1. /\ Asked(r)' = Asked(r) /\ pc'[r] = pc[r] /\ pc[r] \in {"black", "white"}
          /\ Standing(service[r], client[r], black, white)' \in seen'[r]
          /\ seen[r] \subseteq seen'[r]
      BY <1>1, <2>2 DEF Asking, Asked, Standing
    <3>2. doubt[r] \in 0..3 /\ doubt'[r] = IF doubt[r] < 2 THEN doubt[r] + 1 ELSE doubt[r]
      BY <1>0, <1>1, <2>2 DEF Shape
    <3>3. Watched(r)
      BY <1>0 DEF Watching
    <3>4. ASSUME pc[r] = "white", doubt'[r] = 1
          PROVE  "banned" \in seen'[r] \/ Asked(r) \in black' \cup white'
      <4>1. doubt[r] = 0
        BY <3>2, <3>4
      <4>2. Asked(r) \in black /\ Standing(service[r], client[r], black, white) \in seen[r]
        BY <3>1, <3>3, <3>4, <4>1 DEF Watched
      <4>3. CASE Asked(r) \in white
        BY <1>5, <4>2, <4>3
      <4>4. CASE Asked(r) \notin white
        <5>1. Standing(service[r], client[r], black, white) = "banned"
          BY <4>2, <4>4 DEF Standing, Asked
        <5>2. QED
          BY <3>1, <4>2, <5>1
      <4>5. QED
        BY <4>3, <4>4
    <3>5. doubt'[r] # 0
      BY <3>2
    <3>6. QED
      BY <3>1, <3>4, <3>5 DEF Watched
  <2>3. QED
    BY <2>1, <2>2
<1>7. QED
  BY <1>2, <1>3, <1>4, <1>6 DEF IInv, Watching

\* A step that leaves the requests, their counters and the lists alone keeps
\* the invariant, whatever it does to the dictionary.
LEMMA NothingTouched ==
  ASSUME IInv, UNCHANGED <<cnt, request, lists>>
  PROVE  IInv'
<1>1. UNCHANGED <<cnt, pc, client, service, rule, hold, placed, seen, doubt, black, white>>
  BY DEF request, lists
<1>2. Shape' /\ Balanced'
  BY <1>1, NothingMoved DEF IInv, Shape
<1>3. ASSUME NEW r \in Req PROVE Owes(r)' /\ Watched(r)'
  <2>1. Owes(r) /\ Watched(r)
    BY DEF IInv, Owing, Watching
  <2>2. Owes(r)'
    BY <1>1, <2>1 DEF Owes, CounterKey
  <2>3. Watched(r)'
    BY <1>1, <2>1 DEF Watched, Asked, Standing
  <2>4. QED
    BY <2>2, <2>3
<1>4. QED
  BY <1>2, <1>3 DEF IInv, Owing, Watching

\* Worker 0, the edits of the file and the clock are such steps.
LEMMA OthersTouchNothing ==
  ASSUME Loads \/ Edit \/ Tick
  PROVE  UNCHANGED <<cnt, request, lists>>
<1>1. CASE Loads
  <2>1. ASSUME NEW d \in Domain, Copy(d) PROVE UNCHANGED <<cnt, request, lists>>
    BY <2>1, Zenon DEF Copy
  <2>2. QED
    BY <1>1, <2>1, Zenon DEF Loads, Lock, Stat, ReadFile, Unlock
<1>2. CASE Edit \/ Tick
  BY <1>2, Zenon DEF Edit, Tick
<1>3. QED
  BY <1>1, <1>2

\* The invariant holds before the first request.
LEMMA InitInv == Init => IInv
<1> SUFFICES ASSUME Init PROVE IInv
  OBVIOUS
<1>1. Shape
  BY DEF Init, Shape, Phase
<1>2. Owing
  BY DEF Init, Owing, Owes
<1>3. ASSUME NEW k PROVE Counter(k) = Cardinality(At(k))
  <2>1. cnt = <<>> /\ placed = [r \in Req |-> {}]
    BY DEF Init
  <2>2. DOMAIN cnt = {}
    BY <2>1
  <2>3. At(k) = {}
    BY <2>1 DEF At
  <2>4. QED
    BY <2>2, <2>3, FS_EmptySet DEF Counter
<1>4. Watching
  BY DEF Init, Watching, Watched
<1>5. QED
  BY <1>1, <1>2, <1>3, <1>4 DEF IInv, Balanced

\* Every step keeps it.
LEMMA NextInv == IInv /\ [Next]_vars => IInv'
<1> SUFFICES ASSUME IInv, [Next]_vars PROVE IInv'
  OBVIOUS
<1>1. ASSUME NEW r \in Req, Steps(r) PROVE IInv'
  <2>1. Shape' /\ Alone(r) /\ black' = black /\ white' = white
    BY <1>1, StepsAlone DEF IInv
  <2>2. Owes(r)' /\ Balanced' /\ Watched(r)'
    BY <1>1, EarlySteps, ConnLimitStep, ReleaseSteps DEF Steps
  <2>3. Owing' /\ Watching'
    BY <2>1, <2>2, AloneKeeps DEF IInv
  <2>4. QED
    BY <2>1, <2>2, <2>3 DEF IInv
<1>2. CASE Loads \/ Edit \/ Tick
  BY <1>2, OthersTouchNothing, NothingTouched
<1>3. CASE Relist
  BY <1>3, RelistStep
<1>4. CASE UNCHANGED vars
  BY <1>4, NothingTouched DEF vars
<1>5. QED
  BY <1>1, <1>2, <1>3, <1>4 DEF Next, Steps

\* It holds in every behaviour; the fairness of worker 0 is not needed.
LEMMA Invariant == Spec => []IInv
<1>1. Spec => Init /\ [][Next]_vars
  BY DEF Spec
<1>2. QED
  BY <1>1, InitInv, NextInv, PTL

-----------------------------------------------------------------------------

\* access_main.lua, connlimit_logic.lua and conn_redis.lua: every counter is
\* the number of requests that still have to take their 1 back from it,
\* whatever worker 0 and the operator do in between.
THEOREM PlacesBalancedCorrect == Spec => []PlacesBalanced
<1>1. IInv => PlacesBalanced
  BY DEF IInv, Balanced, At, PlacesBalanced
<1>2. QED
  BY <1>1, Invariant, PTL

\* What ListsJudged says of one request in one step.
Judged(r) ==
    /\ pc[r] \in {"black", "white"} /\ pc'[r] = "req" /\ doubt'[r] < 3 => "free" \in seen[r]
    /\ pc[r] = "white" /\ pc'[r] = "denied" /\ doubt'[r] < 2 => "banned" \in seen[r]

\* The two queries of ip_rule are judged by what the lists said meanwhile.
LEMMA QueriesJudged ==
  ASSUME IInv, NEW r \in Req, Black(r) \/ White(r)
  PROVE  Judged(r)
<1>0. Shape /\ Watched(r) /\ doubt[r] \in 0..3
  BY DEF IInv, Watching, Shape
<1>1. CASE Black(r)
  <2>1. pc[r] = "black"
    BY <1>1 DEF Black
  <2>2. ASSUME pc'[r] = "req", doubt'[r] < 3 PROVE "free" \in seen[r]
    <3>1. doubt' # [doubt EXCEPT ![r] = 3]
      BY <1>0, <2>2 DEF Shape
    <3>2. Goto(r, IF Asked(r) \in black THEN "white" ELSE "req")
      BY <1>1, <3>1, Zenon DEF Black, Asked
    <3>3. Asked(r) \notin black
      BY <1>0, <2>2, <3>2 DEF Goto, Shape
    <3>4. QED
      BY <1>0, <2>1, <3>3 DEF Watched, Standing, Asked
  <2>3. QED
    BY <2>1, <2>2 DEF Judged
<1>2. CASE White(r)
  <2>1. pc[r] = "white"
    BY <1>2 DEF White
  <2>2. ASSUME pc'[r] = "req" PROVE "free" \in seen[r]
    <3>1. ~Goto(r, "denied")
      BY <1>0, <2>2 DEF Goto, Shape
    <3>2. Goto(r, IF Asked(r) \in white THEN "req" ELSE "denied")
      BY <1>2, <3>1, Zenon DEF White, Asked
    <3>3. Asked(r) \in white
      BY <1>0, <2>2, <3>2 DEF Goto, Shape
    <3>4. QED
      BY <1>0, <2>1, <3>3 DEF Watched, Standing, Asked
  <2>3. ASSUME pc'[r] = "denied", doubt'[r] < 2 PROVE "banned" \in seen[r]
    <3>1. doubt' # [doubt EXCEPT ![r] = 3]
      BY <1>0, <2>3 DEF Shape
    <3>2. Goto(r, IF Asked(r) \in white THEN "req" ELSE "denied") /\ doubt' = doubt
      BY <1>2, <3>1, Zenon DEF White, Asked
    <3>3. Asked(r) \notin white /\ doubt[r] \in 0..1
      BY <1>0, <2>3, <3>2 DEF Goto, Shape
    <3>4. "banned" \in seen[r] \/ Asked(r) \in black
      BY <1>0, <2>1, <3>3 DEF Watched
    <3>5. QED
      BY <1>0, <2>1, <3>3, <3>4 DEF Watched, Standing, Asked
  <2>4. QED
    BY <2>1, <2>2, <2>3 DEF Judged
<1>3. QED
  BY <1>1, <1>2

\* ip_deny.lua: a request that goes on was free at some moment while the two
\* lists were asked, unless a query failed; one that is refused was banned
\* at some moment, unless a query failed or the lists changed twice.
THEOREM ListsJudgedCorrect == Spec => ListsJudged
<1>1. IInv /\ [Next]_vars => [\A r \in Req : Judged(r)]_vars
  <2> SUFFICES ASSUME IInv, Next, NEW r \in Req PROVE Judged(r)
    OBVIOUS
  <2>1. CASE pc'[r] = pc[r]
    BY <2>1 DEF Judged
  <2>2. CASE pc[r] \notin {"black", "white"}
    BY <2>2 DEF Judged
  <2>3. CASE pc'[r] # pc[r] /\ pc[r] \in {"black", "white"}
    <3>1. PICK s \in Req : Steps(s)
      <4>1. ~(Loads \/ Edit \/ Tick)
        BY <2>3, OthersTouchNothing DEF request
      <4>2. ~Relist
        BY <2>3 DEF Relist
      <4>3. QED
        BY <4>1, <4>2 DEF Next, Steps
    <3>2. s = r
      BY <2>3, <3>1, StepsAlone DEF IInv, Alone
    <3>3. Black(r) \/ White(r)
      BY <2>3, <3>1, <3>2
      DEF Steps, Arrive, Basic, ReqLimit, ConnLimit, Reject, Log, Ended
    <3>4. QED
      BY <3>3, QueriesJudged
  <2>4. QED
    BY <2>1, <2>2, <2>3
<1>2. Spec => [][Next]_vars
  BY DEF Spec
<1>3. Spec => [][\A r \in Req : Judged(r)]_vars
  BY <1>1, <1>2, Invariant, PTL
<1>4. QED
  BY <1>3 DEF ListsJudged, Judged

-----------------------------------------------------------------------------
(***************************************************************************)
(* The dictionary.  Only the lock expires; the entry of a domain has a     *)
(* text.                                                                   *)
(***************************************************************************)

Stamp == 0..(MaxNow + LockTTL)
Record == {e \in [key : Key, val : {0} \cup Version, len : Nat, exp : Stamp] :
             /\ e.key # "lock" => e.exp = 0
             /\ e.key \in Domain => e.val \in Version /\ File[e.val][e.key] # Nil}

Dict == Queue(Record, q) /\ Used(q) <= Capacity

\* The loader: what it copies is a version of the file.
Loading == /\ loader \in [pc : {"sleep", "stat", "read", "copy", "unlock"}, held : BOOLEAN,
                          v : 0..Len(File), todo : SUBSET Domain]
           /\ loader.pc = "copy" => loader.v \in Version
           /\ \A d \in loader.todo : loader.v \in Version /\ File[loader.v][d] # Nil

\* The types AccessProofs needs no more than the above for.
Kinds == /\ now \in 0..MaxNow /\ ver \in Version
         /\ black \subseteq Lists /\ white \subseteq Lists
         /\ \A k \in DOMAIN cnt : cnt[k] \in Int \ {0}
         /\ \A r \in Req : client[r] \in Clients[r] /\ seen[r] \subseteq {"banned", "free"}

History == lost \in [Req -> BOOLEAN] /\ since \in [Key -> SUBSET Key]

\* A request that found its domain still finds it, unless it was dropped.
Found(r) == pc[r] = "basic" => lost[r] \/ Has(q, Host[r])
InForce == \A r \in Req : Found(r)

DInv == Dict /\ Loading /\ Kinds /\ History /\ InForce

\* Entries of the dictionary have lengths.
LEMMA RecordsLong == Long(Record)
BY DEF Long, Record

\* A domain that is there is alive, and its text is one of the file.
LEMMA DomainAlive ==
  ASSUME Dict, NEW d, d \notin Own, Has(q, d)
  PROVE  d \in Domain /\ lookup(q, now, d) = "ok" /\ getValue(q, now, d) \in Version /\ Table(d) # Nil
<1>1. PICK e : e = EntryOf(q, d)
  OBVIOUS
<1>2. e \in Entries(q) /\ e.key = d
  BY <1>1, TheEntry
<1>3. e \in Record
  BY <1>2, EntriesOf DEF Dict
<1>4. d \in Domain /\ e.exp = 0 /\ e.val \in Version /\ File[e.val][d] # Nil
  BY <1>2, <1>3 DEF Record, Key, Own
<1>5. lookup(q, now, d) = "ok"
  BY <1>1, <1>4 DEF lookup, Expired
<1>6. getValue(q, now, d) = e.val
  BY <1>1, <1>5 DEF getValue
<1>7. e.val # Missing
  BY <1>4, FileAssumption
<1>8. QED
  BY <1>4, <1>5, <1>6, <1>7 DEF Table

\* And one that get_domainconf finds is there.
LEMMA TableFound ==
  ASSUME NEW d, Table(d) # Nil
  PROVE  Has(q, d)
<1>1. getValue(q, now, d) # Missing
  BY DEF Table
<1>2. QED
  BY <1>1 DEF getValue, lookup

\* The keys of a queue are keys.
LEMMA KeysOfQueue ==
  ASSUME NEW p, Queue(Record, p)
  PROVE  Keys(p) \subseteq Key
<1>1. \A i \in DOMAIN p : p[i] \in Entries(p)
  BY DEF Entries
<1>2. \A i \in DOMAIN p : p[i] \in Record
  BY <1>1, EntriesOf
<1>3. QED
  BY <1>2 DEF Keys, Record

\* The bookkeeping of a use keeps its type.
LEMMA UsesTyped ==
  ASSUME NEW k, NEW p, Queue(Record, p), Uses(k, p), since \in [Key -> SUBSET Key]
  PROVE  since' \in [Key -> SUBSET Key]
BY KeysOfQueue DEF Uses

\* A get drops no domain.
LEMMA GetKeeps ==
  ASSUME Dict, History, NEW k, Get(k)
  PROVE  Dict' /\ History' /\ lost' = lost /\ \A d : d \notin Own /\ Has(q, d) => Has(q', d)
<1>1. q' = getQueue(q, now, k) /\ Uses(k, q') /\ lost' = lost
  BY DEF Get
<1>2. /\ Queue(Record, q') /\ Entries(q') \subseteq Entries(q)
      /\ \A e \in Entries(q) : e \in Entries(q') \/ Expired(e, now)
  BY <1>1, GetResult DEF Dict
<1>3. Used(q') <= Used(q)
  BY <1>1, RecordsLong, UsedGet DEF Dict
<1>4. Used(q') \in Nat /\ Used(q) \in Nat /\ Capacity \in Nat
  BY <1>2, RecordsLong, UsedNat, ShDictAssumption DEF Dict, Queue
<1>5. Dict'
  BY <1>2, <1>3, <1>4 DEF Dict
<1>6. History'
  BY <1>1, <1>2, UsesTyped DEF History
<1>7. ASSUME NEW d, d \notin Own, Has(q, d) PROVE Has(q', d)
  <2>1. PICK e \in Entries(q) : e.key = d
    BY <1>7, HasEntry
  <2>2. e \in Record
    BY <2>1, EntriesOf DEF Dict
  <2>3. ~Expired(e, now)
    BY <1>7, <2>1, <2>2 DEF Record, Key, Own, Expired
  <2>4. QED
    BY <1>2, <2>1, <2>3, HasEntry
<1>8. QED
  BY <1>1, <1>5, <1>6, <1>7

\* A store that drops a domain is noticed by every request that found it.
LEMMA PutKeeps ==
  ASSUME Dict, History, NEW k, NEW res, Put(res, k), Queue(Record, res.q), Used(res.q) <= Capacity
  PROVE  /\ Dict' /\ History'
         /\ \A r \in Req : lost[r] => lost'[r]
         /\ \A r \in Req : pc[r] = "basic" /\ Has(q, Host[r]) => lost'[r] \/ Has(q', Host[r])
<1>1. /\ q' = res.q /\ Uses(k, q')
      /\ lost' = [r \in Req |-> lost[r] \/ (/\ pc[r] # "idle"
                                           /\ lookup(q, now, Host[r]) = "ok"
                                           /\ ~Has(q', Host[r]))]
  BY DEF Put
<1>2. Dict'
  BY <1>1 DEF Dict
<1>3. History'
  <2>1. since' \in [Key -> SUBSET Key]
    BY <1>1, UsesTyped DEF History
  <2>2. lost' \in [Req -> BOOLEAN]
    BY <1>1 DEF History
  <2>3. QED
    BY <2>1, <2>2 DEF History
<1>4. ASSUME NEW r \in Req, lost[r] PROVE lost'[r]
  BY <1>1, <1>4
<1>5. ASSUME NEW r \in Req, pc[r] = "basic", Has(q, Host[r]) PROVE lost'[r] \/ Has(q', Host[r])
  <2>1. lookup(q, now, Host[r]) = "ok"
    BY <1>5, DomainAlive, FileAssumption
  <2>2. QED
    BY <1>1, <1>5, <2>1
<1>6. QED
  BY <1>2, <1>3, <1>4, <1>5

\* What a store of a well-formed entry leaves is a dictionary again, and the
\* get in front of it does not matter.
LEMMA StoreFits ==
  ASSUME Dict, NEW op, op # "delete", NEW k, NEW v, NEW len, NEW ttl, NEW p, p = q \/ p = getQueue(q, now, k),
         Entry(k, v, len, IF ttl > 0 THEN now + ttl ELSE 0) \in Record
  PROVE  /\ Queue(Record, store(p, now, op, k, v, len, ttl).q)
         /\ Used(store(p, now, op, k, v, len, ttl).q) <= Capacity
<1>1. Queue(Record, p)
  BY GetResult DEF Dict
<1>2. Used(p) <= Capacity
  <2>1. Used(getQueue(q, now, k)) <= Used(q) /\ Used(q) <= Capacity
    BY RecordsLong, UsedGet DEF Dict
  <2>2. Used(p) \in Nat /\ Used(q) \in Nat /\ Capacity \in Nat
    BY <1>1, RecordsLong, UsedNat, ShDictAssumption DEF Dict, Queue
  <2>3. QED
    BY <2>1, <2>2
<1>3. QED
  BY <1>1, <1>2, RecordsLong, StoreResult, UsedStore

\* A request that found its domain still has it, or has lost it.
LEMMA PutInForce ==
  ASSUME Dict, History, InForce, NEW k, NEW res, Put(res, k), UNCHANGED pc,
         Queue(Record, res.q), Used(res.q) <= Capacity
  PROVE  Dict' /\ History' /\ InForce'
BY PutKeeps DEF InForce, Found

\* And a get changes nothing of that.
LEMMA GetInForce ==
  ASSUME Dict, History, InForce, NEW k, Get(k), UNCHANGED pc
  PROVE  Dict' /\ History' /\ InForce'
BY GetKeeps, FileAssumption DEF InForce, Found

\* The steps of the loader keep the dictionary in order.
LEMMA LoadsDict ==
  ASSUME DInv, Loads
  PROVE  DInv'
<1>0. /\ now \in 0..MaxNow /\ ver \in Version /\ MaxNow \in Nat /\ LockTTL \in Nat \ {0}
      /\ Version = 1..Len(File) /\ Len(File) \in Nat \ {0}
  BY AccessAssumption, FileAssumption DEF DInv, Kinds, Version
<1>1. UNCHANGED <<ver, lists, cnt, request>>
  BY DEF Loads, Lock, Stat, ReadFile, Copy, Unlock
<1>2. UNCHANGED pc
  BY <1>1 DEF request
<1>3. ASSUME now' \in 0..MaxNow PROVE Kinds'
  BY <1>0, <1>1, <1>3 DEF DInv, Kinds, lists, request
<1>4. CASE Lock
  <2> DEFINE res == store(q, now, "add", "lock", 0, 1, LockTTL)
  <2>1. Put(res, "lock") /\ now' = now
    BY <1>4 DEF Lock
  <2>2. Entry("lock", 0, 1, IF LockTTL > 0 THEN now + LockTTL ELSE 0) \in Record
    BY <1>0, FileAssumption DEF Entry, Record, Key, Own, Stamp
  <2>3. Queue(Record, res.q) /\ Used(res.q) <= Capacity
    BY <2>2, StoreFits DEF DInv
  <2>4. loader' = [loader EXCEPT !.pc = "stat", !.held = (res.rc = "ok")]
    BY <1>4 DEF Lock
  <2> HIDE DEF res
  <2>5. Loading'
    BY <2>4 DEF DInv, Loading
  <2>6. QED
    BY <1>0, <1>2, <1>3, <2>1, <2>3, <2>5, PutInForce DEF DInv
<1>5. CASE Stat
  <2>1. now' = now
    BY <1>5 DEF Stat
  <2>2. Loading'
    <3>1. loader' = [loader EXCEPT !.pc = "unlock"] \/ loader' = [loader EXCEPT !.pc = "read"]
      BY <1>5 DEF Stat
    <3>2. QED
      BY <3>1 DEF DInv, Loading
  <2>3. CASE Get("time")
    BY <1>0, <1>2, <1>3, <2>1, <2>2, <2>3, GetInForce DEF DInv
  <2>4. CASE Put(store(getQueue(q, now, "time"), now, "set", "time", ver, 1, 0), "time")
    <3>1. Entry("time", ver, 1, IF 0 > 0 THEN now + 0 ELSE 0) \in Record
      BY <1>0, FileAssumption DEF Entry, Record, Key, Own, Stamp
    <3>2. PICK res : res = store(getQueue(q, now, "time"), now, "set", "time", ver, 1, 0)
      OBVIOUS
    <3>3. Queue(Record, res.q) /\ Used(res.q) <= Capacity
      BY <3>1, <3>2, StoreFits DEF DInv
    <3>4. QED
      BY <1>0, <1>2, <1>3, <2>1, <2>2, <2>4, <3>2, <3>3, PutInForce DEF DInv
  <2>5. QED
    BY <1>5, <2>3, <2>4 DEF Stat
<1>6. CASE ReadFile
  <2>1. PICK D : D = {d \in Domain : File[ver][d] # Nil}
    OBVIOUS
  <2>2. loader' = [loader EXCEPT !.pc = IF D = {} THEN "unlock" ELSE "copy", !.v = ver, !.todo = D]
    BY <1>6, <2>1 DEF ReadFile
  <2>3. Loading'
    <3>1. D \in SUBSET Domain /\ \A d \in D : File[ver][d] # Nil
      BY <2>1
    <3>2. PICK l \in {"unlock", "copy"} : loader' = [loader EXCEPT !.pc = l, !.v = ver, !.todo = D]
      BY <2>2
    <3>3. /\ loader'.pc = l /\ loader'.v = ver /\ loader'.todo = D
          /\ loader' \in [pc : {"sleep", "stat", "read", "copy", "unlock"}, held : BOOLEAN,
                         v : 0..Len(File), todo : SUBSET Domain]
      <4>1. ver \in 0..Len(File) /\ l \in {"sleep", "stat", "read", "copy", "unlock"}
        BY <1>0
      <4>2. loader \in [pc : {"sleep", "stat", "read", "copy", "unlock"}, held : BOOLEAN,
                       v : 0..Len(File), todo : SUBSET Domain]
        BY DEF DInv, Loading
      <4>3. QED
        BY <3>1, <3>2, <4>1, <4>2
    <3>4. QED
      BY <1>0, <3>1, <3>3 DEF Loading
  <2>4. UNCHANGED <<q, since, now, lost>>
    BY <1>6 DEF ReadFile, dict
  <2>5. QED
    BY <1>0, <1>2, <1>3, <2>3, <2>4 DEF DInv, Dict, History, InForce, Found
<1>7. CASE \E d \in Domain : Copy(d)
  <2>1. PICK d \in Domain : Copy(d)
    BY <1>7
  <2>2. now' = now /\ loader' = Copied(d) /\ d \in loader.todo /\ loader.pc = "copy"
    BY <2>1 DEF Copy, LoaderAt
  <2>3. loader.v \in Version /\ File[loader.v][d] # Nil /\ File[loader.v][d].len \in Nat
    BY <2>2, FileAssumption DEF DInv, Loading
  <2>4. Loading'
    BY <2>2 DEF DInv, Loading, Copied
  <2>5. CASE Get(d)
    BY <1>0, <1>2, <1>3, <2>2, <2>4, <2>5, GetInForce DEF DInv
  <2>6. CASE Put(store(getQueue(q, now, d), now, "set", d, loader.v, File[loader.v][d].len, 0), d)
    <3>1. Entry(d, loader.v, File[loader.v][d].len, IF 0 > 0 THEN now + 0 ELSE 0) \in Record
      BY <1>0, <2>3 DEF Entry, Record, Key, Stamp
    <3>2. PICK res : res = store(getQueue(q, now, d), now, "set", d, loader.v, File[loader.v][d].len, 0)
      OBVIOUS
    <3>3. Queue(Record, res.q) /\ Used(res.q) <= Capacity
      BY <3>1, <3>2, StoreFits DEF DInv
    <3>4. QED
      BY <1>0, <1>2, <1>3, <2>2, <2>4, <2>6, <3>2, <3>3, PutInForce DEF DInv
  <2>7. QED
    BY <2>1, <2>5, <2>6 DEF Copy
<1>8. CASE Unlock
  <2>1. now' = 0 /\ UNCHANGED <<since, lost>>
    BY <1>8 DEF Unlock
  <2>2. loader' = [pc |-> "sleep", held |-> FALSE, v |-> 0, todo |-> {}]
    BY <1>8 DEF Unlock
  <2>3. Loading'
    BY <1>0, <2>2 DEF Loading
  <2>4. PICK p : p = store(q, now, "delete", "lock", Missing, 0, 0).q
    OBVIOUS
  <2>5. q' = q \/ q' = p
    BY <1>8, <2>4 DEF Unlock
  <2>6. /\ Queue(Record, p)
        /\ \A e \in Entries(q) : e \in Entries(p) \/ Expired(e, now) \/ e.key = "lock"
    BY <2>4, DeleteResult DEF DInv, Dict
  <2>7. Used(p) <= Capacity
    <3>1. Used(Without(getQueue(q, now, "lock"), "lock")) <= Used(getQueue(q, now, "lock"))
      BY RecordsLong, GetResult, UsedWithout DEF DInv, Dict
    <3>2. p = Without(getQueue(q, now, "lock"), "lock")
      BY <2>4 DEF store, getQueue
    <3>3. Used(getQueue(q, now, "lock")) <= Used(q)
      BY RecordsLong, UsedGet DEF DInv, Dict
    <3>4. Used(q) \in Nat /\ Used(p) \in Nat /\ Used(getQueue(q, now, "lock")) \in Nat /\ Capacity \in Nat
      BY <2>6, RecordsLong, GetResult, UsedNat, ShDictAssumption DEF DInv, Dict, Queue
    <3>5. QED
      BY <3>1, <3>2, <3>3, <3>4 DEF DInv, Dict
  <2>8. ASSUME NEW d, d \notin Own, Has(q, d) PROVE Has(p, d)
    <3>1. PICK e \in Entries(q) : e.key = d
      BY <2>8, HasEntry
    <3>2. e \in Record
      BY <3>1, EntriesOf DEF DInv, Dict
    <3>3. ~Expired(e, now) /\ e.key # "lock"
      BY <2>8, <3>1, <3>2 DEF Record, Key, Own, Expired
    <3>4. QED
      BY <2>6, <3>1, <3>3, HasEntry
  <2>9. Dict'
    BY <2>5, <2>6, <2>7 DEF DInv, Dict
  <2>10. InForce'
    BY <1>2, <2>1, <2>5, <2>8, FileAssumption DEF DInv, InForce, Found
  <2>11. QED
    BY <1>0, <1>3, <2>1, <2>3, <2>9, <2>10 DEF DInv, History
<1>9. QED
  BY <1>4, <1>5, <1>6, <1>7, <1>8 DEF Loads

\* INCR and DECR leave numbers, and a counter at 0 is left out.
LEMMA BumpTyped ==
  ASSUME Balanced, NEW k, NEW d \in Int, Bump(k, d)
  PROVE  \A j \in DOMAIN cnt' : cnt'[j] \in Int \ {0}
<1>1. \A j : Counter(j) \in Int
  BY CountersNat
<1>2. PICK f : f = [j \in DOMAIN cnt \cup {k} |-> Counter(j) + (IF j = k THEN d ELSE 0)]
  OBVIOUS
<1>3. \A j \in DOMAIN cnt \cup {k} : f[j] \in Int
  BY <1>1, <1>2
<1>4. cnt' = [j \in {j \in DOMAIN cnt \cup {k} : Counter(j) + (IF j = k THEN d ELSE 0) # 0}
                |-> Counter(j) + (IF j = k THEN d ELSE 0)]
  BY DEF Bump
<1>5. cnt' = [j \in {j \in DOMAIN cnt \cup {k} : f[j] # 0} |-> f[j]]
  BY <1>2, <1>4
<1>6. QED
  BY <1>3, <1>5

\* What the step of a request does to the dictionary: a get of its domain,
\* or nothing.
LEMMA StepsGet ==
  ASSUME Dict, History, NEW r \in Req, Steps(r)
  PROVE  /\ UNCHANGED <<now, ver, loader>>
         /\ Dict' /\ History'
         /\ \A d : d \notin Own /\ Has(q, d) => Has(q', d)
         /\ \A s \in Req : s # r => lost'[s] = lost[s]
<1>1. CASE Arrive(r) \/ Basic(r) \/ ReqLimit(r) \/ ConnLimit(r)
  <2>1. Get(Host[r]) /\ UNCHANGED <<now, ver, loader>>
    BY <1>1 DEF Arrive, Basic, ReqLimit, ConnLimit
  <2>2. QED
    BY <2>1, GetKeeps
<1>2. CASE Black(r) \/ White(r) \/ Reject(r)
  <2>1. UNCHANGED <<q, since, lost, now, ver, loader>>
    BY <1>2 DEF Black, White, Reject, dict
  <2>2. QED
    BY <2>1 DEF Dict, History
<1>3. CASE Log(r)
  <2>1. UNCHANGED <<q, since, now, ver, loader>> /\ lost' = [lost EXCEPT ![r] = FALSE]
    BY <1>3 DEF Log, Forget, dict
  <2>2. QED
    BY <2>1 DEF Dict, History
<1>4. QED
  BY <1>1, <1>2, <1>3 DEF Steps

\* Only a request that has found its domain goes on to read its sections.
LEMMA StepsFound ==
  ASSUME Shape, Dict, History, NEW r \in Req, Steps(r)
  PROVE  Found(r)'
<1>1. CASE Arrive(r)
  <2>1. Goto(r, IF Table(Host[r]) = Nil THEN "serving" ELSE "basic")
    BY <1>1 DEF Arrive
  <2>2. CASE Table(Host[r]) = Nil
    BY <2>1, <2>2 DEF Goto, Shape, Found
  <2>3. CASE Table(Host[r]) # Nil
    <3>1. Has(q, Host[r])
      BY <2>3, TableFound
    <3>2. Has(q', Host[r])
      BY <3>1, StepsGet, FileAssumption
    <3>3. QED
      BY <3>2 DEF Found
  <2>4. QED
    BY <2>2, <2>3
<1>2. CASE Basic(r)
  <2>1. PICK l \in {"failed", "black", "req"} : pc' = [pc EXCEPT ![r] = l]
    BY <1>2, Zenon DEF Basic, Goto
  <2>2. QED
    BY <2>1 DEF Shape, Found
<1>3. CASE Black(r) \/ White(r)
  <2>1. PICK l \in {"white", "req", "denied"} : pc' = [pc EXCEPT ![r] = l]
    BY <1>3 DEF Black, White, Goto
  <2>2. QED
    BY <2>1 DEF Shape, Found
<1>4. CASE ReqLimit(r)
  <2>1. PICK l \in {"conn", "failed", "denied"} : pc' = [pc EXCEPT ![r] = l]
    BY <1>4, Zenon DEF ReqLimit, Goto
  <2>2. QED
    BY <2>1 DEF Shape, Found
<1>5. CASE ConnLimit(r)
  <2>1. PICK l \in {"failed", "serving", "rejecting"} : pc' = [pc EXCEPT ![r] = l]
    BY <1>5, Zenon DEF ConnLimit, Goto
  <2>2. QED
    BY <2>1 DEF Shape, Found
<1>6. CASE Reject(r) \/ Log(r)
  <2>1. PICK l \in {"serving", "denied", "idle"} : pc' = [pc EXCEPT ![r] = l]
    BY <1>6 DEF Reject, Log, Forget, Goto
  <2>2. QED
    BY <2>1 DEF Shape, Found
<1>7. QED
  BY <1>1, <1>2, <1>3, <1>4, <1>5, <1>6 DEF Steps

\* The client of a request is one of its clients, and its history of the
\* lists says how they can stand.
LEMMA StepsKinds ==
  ASSUME Shape, Balanced, Kinds, NEW r \in Req, Steps(r), UNCHANGED <<now, ver>>
  PROVE  Kinds'
<1>0. Alone(r) /\ Shape' /\ black' = black /\ white' = white
  BY StepsAlone
<1>1. client'[r] \in Clients[r]
  <2>1. CASE Arrive(r)
    <3>1. PICK c \in Clients[r] : client' = [client EXCEPT ![r] = c]
      BY <2>1 DEF Arrive
    <3>2. QED
      BY <3>1 DEF Shape
  <2>2. CASE Log(r)
    <3>1. client' = [client EXCEPT ![r] = CHOOSE c \in Clients[r] : TRUE]
      BY <2>2 DEF Log, Forget
    <3>2. QED
      BY <3>1, AccessAssumption DEF Shape
  <2>3. CASE ~Arrive(r) /\ ~Log(r)
    <3>1. client' = client
      BY <2>3 DEF Steps, Basic, Black, White, ReqLimit, ConnLimit, Reject
    <3>2. QED
      BY <3>1 DEF Kinds
  <2>4. QED
    BY <2>1, <2>2, <2>3
<1>2. seen'[r] \subseteq {"banned", "free"}
  <2>1. CASE Basic(r)
    <3>1. \/ seen' = seen
          \/ seen' = [seen EXCEPT ![r] = {Standing(Table(Host[r]).basic.service, client[r], black, white)}]
      BY <2>1, Zenon DEF Basic
    <3>2. \A s, c : Standing(s, c, black, white) \in {"banned", "free"}
      BY DEF Standing
    <3>3. QED
      BY <3>1, <3>2 DEF Shape, Kinds
  <2>2. CASE ReqLimit(r) \/ Log(r)
    <3>1. seen' = [seen EXCEPT ![r] = {}]
      BY <2>2 DEF ReqLimit, Log, Forget
    <3>2. QED
      BY <3>1 DEF Shape
  <2>3. CASE ~Basic(r) /\ ~ReqLimit(r) /\ ~Log(r)
    <3>1. seen' = seen
      BY <2>3 DEF Steps, Arrive, Black, White, ConnLimit, Reject
    <3>2. QED
      BY <3>1 DEF Kinds
  <2>4. QED
    BY <2>1, <2>2, <2>3
<1>3. \A k \in DOMAIN cnt' : cnt'[k] \in Int \ {0}
  <2>1. CASE cnt' = cnt
    BY <2>1 DEF Kinds
  <2>2. CASE \E k : Bump(k, 1) \/ Bump(k, -1)
    BY <2>2, BumpTyped
  <2>3. cnt' = cnt \/ \E k : Bump(k, 1) \/ Bump(k, -1)
    <3>1. CASE ConnLimit(r)
      BY <3>1, Zenon DEF ConnLimit
    <3>2. CASE Reject(r)
      BY <3>2 DEF Reject
    <3>3. CASE Log(r)
      BY <3>3 DEF Log
    <3>4. CASE ~ConnLimit(r) /\ ~Reject(r) /\ ~Log(r)
      BY <3>4 DEF Steps, Arrive, Basic, Black, White, ReqLimit
    <3>5. QED
      BY <3>1, <3>2, <3>3, <3>4
  <2>4. QED
    BY <2>1, <2>2, <2>3
<1>4. \A s \in Req : client'[s] \in Clients[s] /\ seen'[s] \subseteq {"banned", "free"}
  BY <1>0, <1>1, <1>2 DEF Alone, Kinds
<1>5. QED
  BY <1>0, <1>3, <1>4 DEF Kinds

\* The step of a request keeps the dictionary in order.
LEMMA StepsDict ==
  ASSUME IInv, DInv, NEW r \in Req, Steps(r)
  PROVE  DInv'
<1>1. /\ UNCHANGED <<now, ver, loader>> /\ Dict' /\ History'
      /\ \A d : d \notin Own /\ Has(q, d) => Has(q', d)
      /\ \A s \in Req : s # r => lost'[s] = lost[s]
  BY StepsGet DEF DInv
<1>2. Kinds' /\ Found(r)' /\ Alone(r)
  BY <1>1, StepsKinds, StepsFound, StepsAlone DEF IInv, DInv
<1>3. Loading'
  BY <1>1 DEF DInv, Loading
<1>4. ASSUME NEW s \in Req, s # r PROVE Found(s)'
  <2>1. pc'[s] = pc[s] /\ lost'[s] = lost[s] /\ Found(s)
    BY <1>1, <1>2, <1>4 DEF Alone, DInv, InForce
  <2>2. Host[s] \notin Own
    BY FileAssumption
  <2>3. QED
    BY <1>1, <2>1, <2>2 DEF Found
<1>5. QED
  BY <1>1, <1>2, <1>3, <1>4 DEF DInv, InForce

\* So do edits of the file, edits of the lists, and the clock.
LEMMA EnvironmentDict ==
  ASSUME IInv, DInv, Edit \/ Relist \/ Tick \/ UNCHANGED vars
  PROVE  DInv'
<1>1. UNCHANGED <<q, since, loader, lost, pc, client, cnt>>
  BY DEF Edit, Relist, Tick, vars, dict, request
<1>2. Dict' /\ Loading' /\ History' /\ InForce'
  BY <1>1 DEF DInv, Dict, Loading, History, InForce, Found
<1>3. now' \in 0..MaxNow /\ ver' \in Version
  BY AccessAssumption DEF Edit, Relist, Tick, vars, DInv, Kinds
<1>4. black' \subseteq Lists /\ white' \subseteq Lists
  BY DEF Edit, Relist, Tick, vars, lists, DInv, Kinds
<1>5. ASSUME NEW r \in Req PROVE seen'[r] \subseteq {"banned", "free"}
  <2>1. CASE Relist
    <3>1. seen' = [s \in Req |-> IF s \in Asking
                 THEN seen[s] \cup {Standing(service[s], client[s], black', white')} ELSE seen[s]]
      BY <2>1 DEF Relist
    <3>2. Standing(service[r], client[r], black', white') \in {"banned", "free"}
      BY DEF Standing
    <3>3. QED
      BY <3>1, <3>2 DEF DInv, Kinds
  <2>2. CASE ~Relist
    BY <2>2 DEF Edit, Tick, vars, request, DInv, Kinds
  <2>3. QED
    BY <2>1, <2>2
<1>6. Kinds'
  BY <1>1, <1>3, <1>4, <1>5 DEF DInv, Kinds
<1>7. QED
  BY <1>2, <1>6 DEF DInv

\* The dictionary the master leaves to the workers.
LEMMA DInit == Init => DInv
<1> SUFFICES ASSUME Init PROVE DInv
  OBVIOUS
<1>0. MaxNow \in Nat /\ LockTTL \in Nat /\ Version = 1..Len(File) /\ Len(File) \in Nat \ {0}
  BY AccessAssumption, FileAssumption DEF Version
<1>1. PICK e, f : e = Entry("default", 0, 1, 0) /\ f = Entry("healthcheck", 0, 1, 0)
  OBVIOUS
<1>2. e \in Record /\ e.len = 1 /\ f \in Record /\ f.len = 1 /\ e.key # f.key
  BY <1>0, <1>1, FileAssumption DEF Entry, Record, Key, Own, Stamp
<1>3. q = <<e, f>>
  BY <1>1 DEF Init
<1>4. Queue(Record, q)
  BY <1>2, <1>3 DEF Queue, Unique
<1>5. Used(q) <= Capacity
  <2>0. <<f>> \in Seq(Record) /\ <<>> \in Seq(Record)
    BY <1>2
  <2>1. <<f>> = <<f>> \o <<>> /\ q = <<e>> \o <<f>>
    <3>1. <<e>> \in Seq(Record) /\ <<e>> \o <<f>> \in Seq(Record) /\ <<e, f>> \in Seq(Record)
      BY <1>2
    <3>2. Len(<<e>> \o <<f>>) = 2 /\ (<<e>> \o <<f>>)[1] = e /\ (<<e>> \o <<f>>)[2] = f
      BY <2>0, <3>1
    <3>3. <<e>> \o <<f>> = <<e, f>>
      <4> DEFINE s == <<e>> \o <<f>>
                 t == <<e, f>>
      <4>1. Len(s) = 2 /\ s[1] = e /\ s[2] = f /\ Len(t) = 2 /\ t[1] = e /\ t[2] = f
        BY <3>2
      <4>2. s \in Seq(Record) /\ t \in Seq(Record)
        BY <3>1
      <4> HIDE DEF s, t
      <4>3. \A i \in 1..Len(s) : s[i] = t[i]
        BY <4>1
      <4>4. s = t
        BY <4>1, <4>2, <4>3, SeqEqual
      <4>5. QED
        BY <4>4 DEF s, t
    <3>4. <<f>> \o <<>> = <<f>>
      BY <2>0
    <3>5. QED
      BY <1>3, <3>3, <3>4
  <2>2. Used(q) = 1 + Used(<<f>>) /\ Used(<<f>>) = 1 + Used(<<>>)
    BY <1>2, <2>0, <2>1, RecordsLong, UsedFront
  <2>3. Used(<<>>) = 0
    BY EmptyUsed
  <2>4. QED
    BY <2>2, <2>3, FileAssumption, ShDictAssumption
<1>6. Loading
  BY <1>0 DEF Init, Loading
<1>7. Kinds
  BY <1>0, AccessAssumption DEF Init, Kinds
<1>8. History /\ InForce
  BY DEF Init, History, InForce, Found, Key, Own
<1>9. QED
  BY <1>4, <1>5, <1>6, <1>7, <1>8 DEF DInv, Dict

\* Both invariants together, in every behaviour.
LEMMA DictInvariant == Spec => [](IInv /\ DInv)
<1>1. Spec => Init /\ [][Next]_vars
  BY DEF Spec
<1>2. IInv /\ DInv /\ [Next]_vars => DInv'
  BY StepsDict, LoadsDict, EnvironmentDict DEF Next, Steps
<1>3. QED
  BY <1>1, <1>2, DInit, Invariant, PTL

-----------------------------------------------------------------------------

\* Every variable keeps its type; in particular the dictionary never holds a
\* key twice, nor more than its memory, whatever the loader stores.
THEOREM TypeCorrect == Spec => []TypeOK
<1>1. ASSUME IInv, DInv PROVE TypeOK
  <2>1. \A i \in DOMAIN q : q[i] \in Record
    BY <1>1 DEF DInv, Dict, Queue
  <2>2. \A i \in DOMAIN q : q[i].key \in Key /\ q[i].len \in Nat /\ q[i].exp \in 0..(MaxNow + LockTTL)
    BY <2>1 DEF Record, Stamp
  <2>3. \A i, j \in DOMAIN q : q[i].key = q[j].key => i = j
    BY <1>1 DEF DInv, Dict, Queue, Unique
  <2>4. /\ loader.pc \in {"sleep", "stat", "read", "copy", "unlock"}
        /\ loader.held \in BOOLEAN /\ loader.v \in 0..Len(File) /\ loader.todo \subseteq Domain
    BY <1>1 DEF DInv, Loading
  <2>5. QED
    BY <1>1, <2>2, <2>3, <2>4 DEF IInv, DInv, Shape, Dict, Kinds, History, TypeOK
<1>2. QED
  BY <1>1, DictInvariant, PTL

\* What FailsOnlyWithoutConf says of one request in one step.
Excused(r) ==
    \/ lost[r]
    \/ lookup(q, now, Host[r]) = "ok" /\ Table(Host[r])[SectionAt(pc[r])] = Nil

\* A domain whose table is there is alive.
LEMMA TableAlive ==
  ASSUME NEW d, Table(d) # Nil
  PROVE  lookup(q, now, d) = "ok"
<1>1. getValue(q, now, d) # Missing
  BY DEF Table
<1>2. QED
  BY <1>1 DEF getValue

\* Every error of a request is excused.
LEMMA FailureExcused ==
  ASSUME IInv, DInv, NEW r \in Req, Steps(r), pc[r] # "failed", pc'[r] = "failed"
  PROVE  Excused(r)
<1>0. pc \in [Req -> Phase]
  BY DEF IInv, Shape
<1>1. CASE Arrive(r)
  BY <1>0, <1>1 DEF Arrive, Goto
<1>2. CASE Basic(r)
  <2>1. pc[r] = "basic"
    BY <1>2 DEF Basic
  <2>2. AppOf(Table(Host[r]), "basic") = Nil
    <3>1. ~Goto(r, "black") /\ ~Goto(r, "req")
      BY <1>0 DEF Goto
    <3>2. QED
      BY <1>2, <3>1, Zenon DEF Basic
  <2>3. CASE Has(q, Host[r])
    <3>1. lookup(q, now, Host[r]) = "ok" /\ Table(Host[r]) # Nil
      BY <2>3, DomainAlive, FileAssumption DEF DInv
    <3>2. Table(Host[r]).basic = Nil
      BY <2>2, <3>1 DEF AppOf
    <3>3. QED
      BY <2>1, <3>1, <3>2 DEF Excused, SectionAt
  <2>4. CASE ~Has(q, Host[r])
    BY <2>1, <2>4 DEF DInv, InForce, Found, Excused
  <2>5. QED
    BY <2>3, <2>4
<1>3. CASE Black(r) \/ White(r)
  BY <1>0, <1>3 DEF Black, White, Goto
<1>4. CASE ReqLimit(r)
  <2>1. ~Goto(r, "conn") /\ ~Goto(r, "denied")
    BY <1>0 DEF Goto
  <2>2. Table(Host[r]) # Nil /\ Table(Host[r]).reqlimit = Nil
    BY <1>4, <2>1, Zenon DEF ReqLimit
  <2>3. SectionAt(pc[r]) = "reqlimit"
    BY <1>4 DEF ReqLimit, SectionAt
  <2>4. QED
    BY <2>2, <2>3, TableAlive DEF Excused
<1>5. CASE ConnLimit(r)
  <2>1. ~Goto(r, "serving") /\ ~Goto(r, "rejecting")
    BY <1>0 DEF Goto
  <2>2. Table(Host[r]) # Nil /\ Table(Host[r]).connlimit = Nil
    BY <1>5, <2>1, Zenon DEF ConnLimit
  <2>3. SectionAt(pc[r]) = "connlimit"
    BY <1>5 DEF ConnLimit, SectionAt
  <2>4. QED
    BY <2>2, <2>3, TableAlive DEF Excused
<1>6. CASE Reject(r)
  BY <1>0, <1>6 DEF Reject, Goto
<1>7. CASE Log(r)
  BY <1>0, <1>7 DEF Log, Forget, Goto
<1>8. QED
  BY <1>1, <1>2, <1>3, <1>4, <1>5, <1>6, <1>7 DEF Steps

\* get_conf.lua: a request that found its domain fails only if the table
\* lacks the section or the dictionary ran out of memory and dropped the
\* domain; the loader's stores never show it a gap.
THEOREM FailsOnlyWithoutConfCorrect == Spec => FailsOnlyWithoutConf
<1> DEFINE A == \A r \in Req : pc[r] # "failed" /\ pc'[r] = "failed" => Excused(r)
<1>1. IInv /\ DInv /\ [Next]_vars => [A]_vars
  <2> SUFFICES ASSUME IInv, DInv, Next, NEW r \in Req, pc[r] # "failed", pc'[r] = "failed"
               PROVE  Excused(r)
    OBVIOUS
  <2>1. PICK s \in Req : Steps(s)
    <3>1. ~(Loads \/ Edit \/ Tick)
      BY OthersTouchNothing DEF request
    <3>2. ~Relist
      BY DEF Relist
    <3>3. QED
      BY <3>1, <3>2 DEF Next, Steps
  <2>2. s = r
    BY <2>1, StepsAlone DEF IInv, Alone
  <2>3. QED
    BY <2>1, <2>2, FailureExcused
<1>2. Spec => [][Next]_vars
  BY DEF Spec
<1>3. Spec => [][A]_vars
  BY <1>1, <1>2, DictInvariant, PTL
<1>4. QED
  BY <1>3 DEF FailsOnlyWithoutConf, Excused

-----------------------------------------------------------------------------
(***************************************************************************)
(* What the dictionary evicts.                                             *)
(***************************************************************************)

\* The history knows every key that is there and used after another one.
Hot == \A i, j \in DOMAIN q : i < j => q[i].key \in since[q[j].key]

\* A use that puts its key in front, and leaves the order of the others.
LEMMA UsesHot ==
  ASSUME Hot, NEW k, Queue(Record, q'), Follows(q', q, k), Leads(q', k), Uses(k, q')
  PROVE  Hot'
<1> SUFFICES ASSUME NEW i \in DOMAIN q', NEW j \in DOMAIN q', i < j
             PROVE  q'[i].key \in since'[q'[j].key]
  BY DEF Hot
<1>1. i # 0 /\ i \in Nat /\ j \in Nat
  BY DEF Queue
<1>2. q'[j].key # k
  BY <1>1 DEF Leads
<1>3. q'[j].key \in Key /\ Has(q', q'[j].key) /\ q'[i].key \in Keys(q')
  BY KeysOfQueue DEF Keys, Has
<1>4. since'[q'[j].key] = (since[q'[j].key] \cup {k}) \cap Keys(q')
  BY <1>2, <1>3 DEF Uses
<1>5. CASE q'[i].key = k
  BY <1>3, <1>4, <1>5
<1>6. CASE q'[i].key # k
  <2>1. PICK c \in DOMAIN q, d \in DOMAIN q : c < d /\ q[c] = q'[i] /\ q[d] = q'[j]
    BY <1>2, <1>6 DEF Follows
  <2>2. q[c].key \in since[q[d].key]
    BY <2>1 DEF Hot
  <2>3. QED
    BY <1>3, <1>4, <2>1, <2>2
<1>7. QED
  BY <1>5, <1>6

\* A get, of anything but the lock.
LEMMA GetHot ==
  ASSUME Dict, Hot, NEW k, k # "lock", Get(k)
  PROVE  Hot'
<1>1. q' = getQueue(q, now, k) /\ Uses(k, q')
  BY DEF Get
<1>2. Queue(Record, q') /\ Follows(q', q, k)
  BY <1>1, GetResult, FollowsGet DEF Dict
<1>3. lookup(q', now, k) \in {"ok", "declined"}
  <2>1. CASE ~Has(q', k)
    BY <2>1 DEF lookup
  <2>2. CASE Has(q', k)
    <3>1. EntryOf(q', k) \in Record /\ EntryOf(q', k).key = k
      BY <1>2, <2>2, TheEntry, EntriesOf
    <3>2. ~Expired(EntryOf(q', k), now)
      BY <3>1 DEF Record, Expired
    <3>3. QED
      BY <2>2, <3>2 DEF lookup
  <2>3. QED
    BY <2>1, <2>2
<1>4. Leads(q', k)
  BY <1>1, <1>3, FollowsGet DEF Dict
<1>5. QED
  BY <1>1, <1>2, <1>4, UsesHot

\* SizeOf adds up the entries with a key in a set.
LEMMA SizeTaken ==
  ASSUME NEW S
  PROVE  SizeOf(S) = Taken(q, S)
BY DEF SizeOf, FoldFunctionOnSet, MapThenFoldSet, Part, Pick, Less, Total, Taken

\* A store, alone or after a get of the same key, and what it drops.
LEMMA PutHot ==
  ASSUME Dict, Hot, NEW op, op # "delete", NEW k, NEW v, NEW len \in Nat, NEW ttl,
         NEW p, p = q \/ p = getQueue(q, now, k),
         Entry(k, v, len, IF ttl > 0 THEN now + ttl ELSE 0) \in Record,
         Put(store(p, now, op, k, v, len, ttl), k)
  PROVE  /\ Hot'
         /\ \A x : lookup(q, now, x) = "ok" /\ ~Has(q', x) /\ x # k
                   => SizeOf({x} \cup since[x]) + len > Capacity
<1>1. q' = store(p, now, op, k, v, len, ttl).q /\ Uses(k, q')
  BY DEF Put
<1>2. Queue(Record, q)
  BY DEF Dict
<1>3. Queue(Record, p) /\ Follows(p, q, k) /\ \A e \in Entries(q) : e \in Entries(p) \/ Expired(e, now)
  BY <1>2, GetResult, FollowsGet, FollowsSame
<1>4. Queue(Record, q') /\ Follows(q', p, k) /\ Leads(q', k)
  BY <1>1, <1>3, StoreResult, FollowsStore
<1>5. Hot'
  BY <1>1, <1>3, <1>4, FollowsTwice, UsesHot
<1>6. ASSUME NEW x, lookup(q, now, x) = "ok", ~Has(q', x), x # k
      PROVE  SizeOf({x} \cup since[x]) + len > Capacity
  <2>1. Has(q, x) /\ ~Expired(EntryOf(q, x), now)
    BY <1>6 DEF lookup
  <2>2. PICK e : e = EntryOf(q, x)
    OBVIOUS
  <2>3. e \in Entries(q) /\ e.key = x /\ ~Expired(e, now)
    BY <2>1, <2>2, TheEntry
  <2>4. e \in Entries(p) /\ e \notin Entries(q')
    BY <1>3, <1>6, <2>3, HasEntry
  <2>5. PICK w : /\ Queue(Record, w) /\ Follows(w, p, k) /\ ~Has(w, k)
                 /\ \E j : Crowded(w, j, e, len)
    BY <1>1, <1>3, <1>6, <2>3, <2>4, StoreSpares
  <2>6. PICK j : Crowded(w, j, e, len)
    BY <2>5
  <2>7. Follows(w, q, k)
    BY <1>3, <2>5, FollowsTwice
  <2>8. PICK S : S = {x} \cup since[x]
    OBVIOUS
  <2>9. e.key \in S
    BY <2>3, <2>8
  <2>10. ASSUME NEW c \in DOMAIN q, NEW d \in DOMAIN q, c < d, q[d] = e PROVE q[c].key \in S
    BY <2>3, <2>8, <2>10 DEF Hot
  <2>11. Taken(q, S) + len > Capacity
    BY <1>2, <2>5, <2>6, <2>7, <2>9, <2>10, RecordsLong, CrowdedOut
  <2>12. QED
    BY <2>8, <2>11, SizeTaken
<1>7. QED
  BY <1>5, <1>6

\* A get drops no live entry.
LEMMA GetSpares ==
  ASSUME Dict, NEW k, Get(k), NEW x, lookup(q, now, x) = "ok"
  PROVE  Has(q', x)
<1>1. Has(q, x) /\ ~Expired(EntryOf(q, x), now)
  BY DEF lookup
<1>2. EntryOf(q, x) \in Entries(q) /\ EntryOf(q, x).key = x
  BY <1>1, TheEntry
<1>3. EntryOf(q, x) \in Entries(q')
  BY <1>1, <1>2, GetResult DEF Get, Dict
<1>4. QED
  BY <1>2, <1>3, HasEntry

\* What UsedRulesKept says of one key in one step.
Kept(k) == /\ lookup(q, now, k) = "ok" /\ ~Has(q', k)
           /\ ~(k = "lock" /\ LoaderAt("unlock")) /\ k \notin Storing
           => \E len \in Lengths : SizeOf({k} \cup since[k]) + len > Capacity

\* Steps that leave the dictionary alone, or get from it.
LEMMA QuietHot ==
  ASSUME Dict, Hot, UNCHANGED <<q, since>> \/ \E k : k # "lock" /\ Get(k)
  PROVE  Hot' /\ \A x : Kept(x)
<1>1. CASE UNCHANGED <<q, since>>
  <2>1. Hot'
    BY <1>1 DEF Hot
  <2>2. \A x : lookup(q, now, x) = "ok" => Has(q', x)
    BY <1>1 DEF lookup
  <2>3. QED
    BY <2>1, <2>2 DEF Kept
<1>2. CASE \E k : k # "lock" /\ Get(k)
  <2>1. PICK k : k # "lock" /\ Get(k)
    BY <1>2
  <2>2. Hot'
    BY <2>1, GetHot
  <2>3. \A x : lookup(q, now, x) = "ok" => Has(q', x)
    BY <2>1, GetSpares
  <2>4. QED
    BY <2>2, <2>3 DEF Kept
<1>3. QED
  BY <1>1, <1>2

\* The loader's stores.
LEMMA LoadsHot ==
  ASSUME DInv, Hot, Loads
  PROVE  Hot' /\ \A x : Kept(x)
<1>0. /\ now \in 0..MaxNow /\ ver \in Version /\ MaxNow \in Nat /\ LockTTL \in Nat \ {0} /\ Dict
      /\ Version = 1..Len(File) /\ Len(File) \in Nat \ {0} /\ 1 \in Lengths
  BY AccessAssumption, FileAssumption DEF DInv, Kinds, Version, Lengths
<1>1. CASE Lock
  <2>1. Put(store(q, now, "add", "lock", 0, 1, LockTTL), "lock") /\ loader.pc = "sleep"
    BY <1>1 DEF Lock, LoaderAt
  <2>2. Entry("lock", 0, 1, IF LockTTL > 0 THEN now + LockTTL ELSE 0) \in Record
    BY <1>0, FileAssumption DEF Entry, Record, Key, Own, Stamp
  <2>3. /\ Hot'
        /\ \A x : lookup(q, now, x) = "ok" /\ ~Has(q', x) /\ x # "lock"
                  => SizeOf({x} \cup since[x]) + 1 > Capacity
    BY <1>0, <2>1, <2>2, PutHot
  <2>4. Storing = {"lock"}
    BY <2>1 DEF Storing, LoaderAt
  <2>5. QED
    BY <1>0, <2>3, <2>4 DEF Kept
<1>2. CASE Stat
  <2>1. CASE Get("time")
    BY <1>0, <2>1, QuietHot
  <2>2. CASE Put(store(getQueue(q, now, "time"), now, "set", "time", ver, 1, 0), "time")
    <3>1. Entry("time", ver, 1, IF 0 > 0 THEN now + 0 ELSE 0) \in Record
      BY <1>0, FileAssumption DEF Entry, Record, Key, Own, Stamp
    <3>2. /\ Hot'
          /\ \A x : lookup(q, now, x) = "ok" /\ ~Has(q', x) /\ x # "time"
                    => SizeOf({x} \cup since[x]) + 1 > Capacity
      BY <1>0, <2>2, <3>1, PutHot
    <3>3. Storing = {"time"}
      BY <1>2 DEF Stat, Storing, LoaderAt
    <3>4. QED
      BY <1>0, <3>2, <3>3 DEF Kept
  <2>3. QED
    BY <1>2, <2>1, <2>2 DEF Stat
<1>3. CASE ReadFile
  BY <1>0, <1>3, QuietHot DEF ReadFile, dict
<1>4. CASE \E d \in Domain : Copy(d)
  <2>1. PICK d \in Domain : Copy(d)
    BY <1>4
  <2>2. loader' = Copied(d) /\ d \in loader.todo /\ loader.pc = "copy"
    BY <2>1 DEF Copy, LoaderAt
  <2>3. loader.v \in Version /\ File[loader.v][d] # Nil /\ File[loader.v][d].len \in Nat
    BY <2>2, FileAssumption DEF DInv, Loading
  <2>4. CASE Get(d)
    <3>1. d # "lock"
      BY FileAssumption DEF Own
    <3>2. QED
      BY <1>0, <2>4, <3>1, QuietHot
  <2>5. CASE Put(store(getQueue(q, now, d), now, "set", d, loader.v, File[loader.v][d].len, 0), d)
    <3>1. Entry(d, loader.v, File[loader.v][d].len, IF 0 > 0 THEN now + 0 ELSE 0) \in Record
      BY <1>0, <2>3 DEF Entry, Record, Key, Stamp
    <3>2. /\ Hot'
          /\ \A x : lookup(q, now, x) = "ok" /\ ~Has(q', x) /\ x # d
                    => SizeOf({x} \cup since[x]) + File[loader.v][d].len > Capacity
      BY <1>0, <2>3, <2>5, <3>1, PutHot
    <3>3. d \in Storing
      BY <2>2 DEF Storing, LoaderAt, Copied, DInv, Loading
    <3>4. File[loader.v][d].len \in Lengths
      BY <2>3 DEF Lengths
    <3>5. QED
      BY <3>2, <3>3, <3>4 DEF Kept
  <2>6. QED
    BY <2>1, <2>4, <2>5 DEF Copy
<1>5. CASE Unlock
  <2>1. since' = since /\ LoaderAt("unlock")
    BY <1>5 DEF Unlock
  <2>2. PICK p : p = store(q, now, "delete", "lock", Missing, 0, 0).q
    OBVIOUS
  <2>3. q' = q \/ q' = p
    BY <1>5, <2>2 DEF Unlock
  <2>4. CASE q' = q
    BY <1>0, <2>1, <2>4, QuietHot
  <2>5. CASE q' = p
    <3>1. Follows(p, q, "lock") /\ ~Has(p, "lock")
      BY <1>0, <2>2, FollowsDelete DEF Dict
    <3>2. \A e \in Entries(q) : e \in Entries(p) \/ Expired(e, now) \/ e.key = "lock"
      BY <1>0, <2>2, DeleteResult DEF Dict
    <3>3. \A i, j \in DOMAIN p : i < j => \E c, d \in DOMAIN q : c < d /\ q[c] = p[i] /\ q[d] = p[j]
      BY <3>1 DEF Follows, Has
    <3>4. \A i, j \in DOMAIN p : i < j => p[i].key \in since[p[j].key]
      BY <3>3 DEF Hot
    <3>5. Hot'
      BY <2>1, <2>5, <3>4 DEF Hot
    <3>6. ASSUME NEW x, x # "lock", lookup(q, now, x) = "ok" PROVE Has(p, x)
      <4>1. Has(q, x) /\ ~Expired(EntryOf(q, x), now)
        BY <3>6 DEF lookup
      <4>2. EntryOf(q, x) \in Entries(q) /\ EntryOf(q, x).key = x
        BY <4>1, TheEntry
      <4>3. EntryOf(q, x) \in Entries(p)
        BY <3>2, <3>6, <4>1, <4>2
      <4>4. QED
        BY <4>2, <4>3, HasEntry
    <3>7. QED
      BY <2>1, <2>5, <3>5, <3>6 DEF Kept
  <2>6. QED
    BY <2>3, <2>4, <2>5
<1>6. QED
  BY <1>1, <1>2, <1>3, <1>4, <1>5 DEF Loads

\* All steps.
LEMMA NextHot ==
  ASSUME DInv, Hot, [Next]_vars
  PROVE  Hot' /\ \A x : Kept(x)
<1>1. ASSUME NEW r \in Req, Steps(r) PROVE Hot' /\ \A x : Kept(x)
  <2>1. UNCHANGED <<q, since>> \/ Get(Host[r])
    <3>1. CASE Arrive(r) \/ Basic(r) \/ ReqLimit(r) \/ ConnLimit(r)
      BY <3>1 DEF Arrive, Basic, ReqLimit, ConnLimit
    <3>2. CASE Black(r) \/ White(r) \/ Reject(r) \/ Log(r)
      BY <3>2 DEF Black, White, Reject, Log, dict
    <3>3. QED
      BY <1>1, <3>1, <3>2 DEF Steps
  <2>2. Host[r] # "lock"
    BY FileAssumption DEF Own
  <2>3. QED
    BY <2>1, <2>2, QuietHot DEF DInv
<1>2. CASE Edit \/ Relist \/ Tick \/ UNCHANGED vars
  <2>1. UNCHANGED <<q, since>>
    BY <1>2 DEF Edit, Relist, Tick, vars, dict
  <2>2. QED
    BY <2>1, QuietHot DEF DInv
<1>3. QED
  BY <1>1, <1>2, LoadsHot DEF Next, Steps

\* ngx_http_lua_shdict.c as the loader and get_conf.lua use it: an entry is
\* evicted only if it and what was used since its last use leave no room for
\* one more entry of the file.
THEOREM UsedRulesKeptCorrect == Spec => UsedRulesKept
<1> DEFINE A == \A k \in Key : Kept(k)
<1>1. Init => Hot
  <2> SUFFICES ASSUME Init, NEW i \in DOMAIN q, NEW j \in DOMAIN q, i < j
               PROVE  q[i].key \in since[q[j].key]
    BY DEF Hot
  <2>1. i = 1 /\ j = 2 /\ q[1].key = "default" /\ q[2].key = "healthcheck"
    BY DEF Init, Entry
  <2>2. since["healthcheck"] = {"default"}
    BY DEF Init, Key, Own
  <2>3. QED
    BY <2>1, <2>2
<1>2. DInv /\ Hot /\ [Next]_vars => Hot' /\ [A]_vars
  BY NextHot
<1>3. Spec => Init /\ [][Next]_vars
  BY DEF Spec
<1>4. Spec => [][A]_vars
  BY <1>1, <1>2, <1>3, DictInvariant, PTL
<1>5. QED
  BY <1>4 DEF UsedRulesKept, Kept

-----------------------------------------------------------------------------
(***************************************************************************)
(* The rule a request is counted by.  The rule file may change while the   *)
(* request runs; the rule stays the one that the version it was taken from *)
(* means for the client.                                                   *)
(***************************************************************************)

\* Only a request that has been counted has a rule, and it is the right one.
Chosen(r) == rule[r] # Nil =>
               /\ pc[r] \in {"rejecting", "serving"}
               /\ IsRuleFor(File[basis[r]][Host[r]].connlimit, Located(client[r], ""), rule[r])
RInv == DOMAIN basis = Req /\ \A r \in Req : Chosen(r)

\* The section conn_limit_logic reads from the dictionary gives the rule
\* that its version of the file means.
LEMMA SectionRule ==
  ASSUME DInv, NEW r \in Req, AppOf(Table(Host[r]), "connlimit") # Nil
  PROVE  IsRuleFor(File[getValue(q, now, Host[r])][Host[r]].connlimit, Located(client[r], ""),
                   RuleFor(Table(Host[r]).connlimit, Located(client[r], "")))
<1> DEFINE d == Host[r]
           v == getValue(q, now, d)
<1>1. Table(d) # Nil /\ Table(d).connlimit # Nil
  BY DEF AppOf
<1>2. d \notin Own /\ Has(q, d)
  BY <1>1, TableFound, FileAssumption
<1>3. d \in Domain /\ v \in Version
  BY <1>2, DomainAlive DEF DInv
<1>4. Table(d) = File[v][d]
  BY <1>3, FileAssumption DEF Table
<1>5. IsSection(Table(d).connlimit)
  <2> HIDE DEF d, v
  <2>1. "connlimit" \in {"reqlimit", "connlimit"}
    OBVIOUS
  <2>2. File[v][d]["connlimit"] # Nil => IsSection(File[v][d]["connlimit"])
    BY <1>1, <1>3, <1>4, <2>1, SectionAssumption, Zenon
  <2>3. QED
    BY <1>1, <1>4, <2>2
<1>6. Located(client[r], "").ip \in Address
  BY SectionAssumption DEF DInv, Kinds, Located
<1>7. IsRuleFor(Table(d).connlimit, Located(client[r], ""),
                RuleFor(Table(d).connlimit, Located(client[r], "")))
  BY <1>5, <1>6, RuleForCorrect
<1>8. QED
  BY <1>4, <1>7

\* Another request's rule is left alone.
LEMMA BasisAlone ==
  ASSUME Shape, RInv, NEW r \in Req, Steps(r)
  PROVE  DOMAIN basis' = Req /\ \A s \in Req : s # r => basis'[s] = basis[s]
<1>1. basis' = basis \/ \E x : basis' = [basis EXCEPT ![r] = x]
  <2>1. CASE ConnLimit(r)
    BY <2>1, Zenon DEF ConnLimit
  <2>2. CASE Reject(r)
    BY <2>2 DEF Reject
  <2>3. CASE Log(r)
    BY <2>3 DEF Log, Forget
  <2>4. CASE ~ConnLimit(r) /\ ~Reject(r) /\ ~Log(r)
    BY <2>4 DEF Steps, Arrive, Basic, Black, White, ReqLimit
  <2>5. QED
    BY <2>1, <2>2, <2>3, <2>4
<1>2. QED
  BY <1>1 DEF RInv

\* A request is given the right rule, keeps it with the client it is for,
\* and has none before and after.
LEMMA StepsChosen ==
  ASSUME IInv, DInv, RInv, NEW r \in Req, Steps(r)
  PROVE  Chosen(r)'
<1>0. Shape /\ Chosen(r) /\ DOMAIN basis = Req
  BY DEF IInv, RInv
<1>1. CASE pc[r] \in {"idle", "basic", "black", "white", "req"}
  <2>1. rule[r] = Nil
    BY <1>0, <1>1 DEF Chosen
  <2>2. rule' = rule
    BY <1>1 DEF Steps, Arrive, Basic, Black, White, ReqLimit, ConnLimit, Reject, Log, Ended
  <2>3. QED
    BY <2>1, <2>2 DEF Chosen
<1>2. CASE ConnLimit(r)
  <2> DEFINE t == Table(Host[r])
             v == IF AppOf(t, "connlimit") = Nil THEN Nil ELSE RuleFor(t.connlimit, Located(client[r], ""))
  <2>1. pc[r] = "conn" /\ rule[r] = Nil /\ client' = client
    BY <1>0, <1>2 DEF Chosen, ConnLimit
  <2>2. \/ rule' = rule
        \/ /\ v # Nil /\ rule' = [rule EXCEPT ![r] = v]
           /\ basis' = [basis EXCEPT ![r] = getValue(q, now, Host[r])]
           /\ Goto(r, "rejecting") \/ Goto(r, "serving")
    BY <1>2, Zenon DEF ConnLimit
  <2>3. CASE rule' = rule
    BY <2>1, <2>3 DEF Chosen
  <2>4. CASE /\ v # Nil /\ rule' = [rule EXCEPT ![r] = v]
             /\ basis' = [basis EXCEPT ![r] = getValue(q, now, Host[r])]
             /\ Goto(r, "rejecting") \/ Goto(r, "serving")
    <3>1. AppOf(t, "connlimit") # Nil /\ v = RuleFor(t.connlimit, Located(client[r], ""))
      BY <2>4
    <3>2. IsRuleFor(File[getValue(q, now, Host[r])][Host[r]].connlimit, Located(client[r], ""), v)
      BY <3>1, SectionRule
    <3> HIDE DEF v
    <3>3. rule'[r] = v /\ basis'[r] = getValue(q, now, Host[r])
      BY <1>0, <2>4 DEF Shape
    <3>4. pc'[r] \in {"rejecting", "serving"}
      BY <1>0, <2>4 DEF Shape, Goto
    <3>5. QED
      BY <2>1, <3>2, <3>3, <3>4 DEF Chosen
  <2>5. QED
    BY <2>2, <2>3, <2>4
<1>3. CASE Reject(r) \/ Log(r)
  <2>1. rule' = [rule EXCEPT ![r] = Nil]
    BY <1>3 DEF Reject, Log, Forget
  <2>2. QED
    BY <1>0, <2>1 DEF Shape, Chosen
<1>4. QED
  BY <1>1, <1>2, <1>3 DEF Steps, Arrive, Basic, Black, White, ReqLimit

\* Every step keeps it.
LEMMA NextChosen ==
  ASSUME IInv, DInv, RInv, [Next]_vars
  PROVE  RInv'
<1>1. ASSUME NEW r \in Req, Steps(r) PROVE RInv'
  <2>1. Alone(r) /\ Chosen(r)'
    BY <1>1, StepsAlone, StepsChosen DEF IInv
  <2>2. DOMAIN basis' = Req /\ \A s \in Req : s # r => basis'[s] = basis[s]
    BY <1>1, BasisAlone DEF IInv
  <2>3. ASSUME NEW s \in Req, s # r PROVE Chosen(s)'
    <3>1. pc'[s] = pc[s] /\ client'[s] = client[s] /\ rule'[s] = rule[s] /\ basis'[s] = basis[s]
      BY <2>1, <2>2, <2>3 DEF Alone
    <3>2. Chosen(s)
      BY DEF RInv
    <3>3. QED
      BY <3>1, <3>2 DEF Chosen
  <2>4. QED
    BY <2>1, <2>2, <2>3 DEF RInv
<1>2. ASSUME UNCHANGED <<pc, client, rule, basis>> PROVE RInv'
  BY <1>2 DEF RInv, Chosen
<1>3. CASE Loads \/ Edit \/ Tick
  BY <1>2, <1>3, OthersTouchNothing DEF request
<1>4. CASE Relist \/ UNCHANGED vars
  BY <1>2, <1>4 DEF Relist, vars, request
<1>5. QED
  BY <1>1, <1>3, <1>4 DEF Next, Steps

\* connlimit_logic.lua: every request is counted by the rule that the
\* section, in the version it was taken from, means for its client, whatever
\* version of the file has been loaded since.
THEOREM RightRuleCorrect == Spec => []RightRule
<1>1. Spec => Init /\ [][Next]_vars
  BY DEF Spec
<1>2. Init => RInv
  BY DEF Init, RInv, Chosen
<1>3. IInv /\ DInv /\ RInv /\ [Next]_vars => RInv'
  BY NextChosen
<1>4. RInv => RightRule
  BY DEF RInv, Chosen, RightRule
<1>5. QED
  BY <1>1, <1>2, <1>3, <1>4, DictInvariant, PTL

-----------------------------------------------------------------------------
(***************************************************************************)
(* What the recorded time says about the dictionary.  In terms of entries: *)
(* every condition is on all entries that are there, so that an eviction,  *)
(* an expiry or a get cannot break it.                                     *)
(***************************************************************************)

\* The time in the dictionary is that of no later version than the file's,
\* nor, while texts are copied, than the one they are copied from.
Recorded == /\ \A e \in Entries(q) : e.key = "time" => e.val \in Version /\ e.val <= ver
            /\ loader.pc = "copy" => /\ loader.v <= ver
                                     /\ \A e \in Entries(q) : e.key = "time" => e.val <= loader.v

\* Domains whose texts the loader has still to look at.
Ahead == IF loader.pc = "copy" THEN loader.todo ELSE {}

\* e is the text the file has for a domain.
Current(e) == File[ver][e.key] # Nil => File[e.val][e.key] = File[ver][e.key]

\* If the recorded time is the file's, the texts behind the loader are the file's.
Loaded == \A t \in Entries(q) : t.key = "time" /\ t.val = ver /\ loader.pc # "read" =>
            \A e \in Entries(q) : e.key \in Domain \ Ahead => Current(e)

SInv == Recorded /\ Loaded

\* A step that takes entries away and leaves loader and file alone, or only
\* brings the loader from one rest to another, breaks nothing.
LEMMA FewerEntries ==
  ASSUME SInv, Entries(q') \subseteq Entries(q), ver' = ver,
         loader' = loader \/ (/\ loader.pc \in {"sleep", "stat", "unlock"}
                              /\ loader'.pc \in {"sleep", "stat", "unlock"})
  PROVE  SInv'
<1>1. Recorded'
  BY DEF SInv, Recorded
<1>2. (loader.pc # "read") = (loader.pc # "read")' /\ Ahead' = Ahead
  BY DEF Ahead
<1>3. Loaded'
  BY <1>2 DEF SInv, Loaded, Current
<1>4. QED
  BY <1>1, <1>3 DEF SInv

\* A get takes entries away.
LEMMA GetFewer ==
  ASSUME Dict, NEW k, Get(k)
  PROVE  Entries(q') \subseteq Entries(q)
BY GetResult DEF Dict, Get

\* The value of a key other than the lock is the one of its entry.
LEMMA ValueOf ==
  ASSUME Dict, NEW k, k # "lock", getValue(q, now, k) # Missing
  PROVE  \E e \in Entries(q) : e.key = k /\ e.val = getValue(q, now, k)
<1>1. Has(q, k) /\ getValue(q, now, k) = EntryOf(q, k).val
  BY DEF getValue, lookup
<1>2. EntryOf(q, k) \in Entries(q) /\ EntryOf(q, k).key = k
  BY <1>1, TheEntry
<1>3. QED
  BY <1>1, <1>2

\* And the table of a domain with an entry is the text of that entry.
LEMMA TableOf ==
  ASSUME Dict, NEW e \in Entries(q), e.key \in Domain
  PROVE  Table(e.key) = File[e.val][e.key]
<1>1. Has(q, e.key) /\ e.key \notin Own
  BY HasEntry, FileAssumption
<1>2. lookup(q, now, e.key) = "ok" /\ getValue(q, now, e.key) \in Version
  BY <1>1, DomainAlive
<1>3. EntryOf(q, e.key) = e
  BY <1>1, TheEntry DEF Dict, Queue
<1>4. getValue(q, now, e.key) = e.val
  BY <1>2, <1>3 DEF getValue
<1>5. QED
  BY <1>2, <1>4, FileAssumption DEF Table

\* Recording the time: the loader is about to read the file.
LEMMA StatRecords ==
  ASSUME DInv, SInv, Stat
  PROVE  SInv'
<1>0. loader.pc = "stat" /\ ver' = ver /\ ver \in Version /\ Version = 1..Len(File) /\ Len(File) \in Nat
  BY FileAssumption DEF Stat, LoaderAt, DInv, Kinds, Version
<1>1. CASE Get("time") /\ loader' = [loader EXCEPT !.pc = "unlock"]
  <2>1. Entries(q') \subseteq Entries(q)
    BY <1>1, GetFewer DEF DInv
  <2>2. loader'.pc = "unlock"
    BY <1>1 DEF DInv, Loading
  <2>3. QED
    BY <1>0, <2>1, <2>2, FewerEntries
<1>2. CASE /\ Put(store(getQueue(q, now, "time"), now, "set", "time", ver, 1, 0), "time")
           /\ loader' = [loader EXCEPT !.pc = "read"]
  <2>1. loader'.pc = "read"
    BY <1>2 DEF DInv, Loading
  <2> DEFINE p == getQueue(q, now, "time")
             new == Entry("time", ver, 1, IF 0 > 0 THEN now + 0 ELSE 0)
  <2>2. Queue(Record, p) /\ Entries(p) \subseteq Entries(q)
    BY GetResult DEF DInv, Dict
  <2>3. new \in Record /\ new.key = "time" /\ new.val = ver
    BY <1>0, AccessAssumption, FileAssumption DEF Entry, Record, Key, Own, Stamp
  <2>4. q' = store(p, now, "set", "time", ver, 1, 0).q
    BY <1>2 DEF Put
  <2> HIDE DEF p
  <2>5. Entries(q') \subseteq Entries(p) \cup {new}
    BY <2>2, <2>3, <2>4, StoreResult
  <2> HIDE DEF new
  <2>6. Recorded'
    BY <1>0, <2>1, <2>2, <2>3, <2>5 DEF SInv, Recorded
  <2>7. Loaded'
    BY <2>1 DEF Loaded
  <2>8. QED
    BY <2>6, <2>7 DEF SInv
<1>3. QED
  BY <1>1, <1>2 DEF Stat

\* Reading the file: nothing has been copied of it, or it has no domain.
LEMMA ReadRecords ==
  ASSUME DInv, SInv, ReadFile
  PROVE  SInv'
<1>0. loader.pc = "read" /\ UNCHANGED <<q, ver>> /\ ver \in Version /\ Version = 1..Len(File) /\ Len(File) \in Nat
  BY FileAssumption DEF ReadFile, LoaderAt, DInv, Kinds, Version, dict
<1>1. PICK D : D = {d \in Domain : File[ver][d] # Nil}
  OBVIOUS
<1>2. loader' = [loader EXCEPT !.pc = IF D = {} THEN "unlock" ELSE "copy", !.v = ver, !.todo = D]
  BY <1>1 DEF ReadFile
<1>3. loader'.pc = (IF D = {} THEN "unlock" ELSE "copy") /\ loader'.v = ver /\ loader'.todo = D
  BY <1>2 DEF DInv, Loading
<1>4. Recorded'
  BY <1>0, <1>3 DEF SInv, Recorded
<1>5. Ahead' = D
  BY <1>3 DEF Ahead
<1>6. Loaded'
  <2>1. ASSUME NEW e \in Entries(q'), e.key \in Domain \ D PROVE Current(e)'
    BY <1>0, <1>1, <2>1 DEF Current
  <2>2. QED
    BY <1>5, <2>1 DEF Loaded
<1>7. QED
  BY <1>4, <1>6 DEF SInv

\* Copying: the text of domain d is that of the version being copied, or
\* gone; all others stay as they are.
LEMMA CopyRecords ==
  ASSUME DInv, SInv, NEW d \in Domain, Copy(d)
  PROVE  SInv'
<1>0. /\ loader.pc = "copy" /\ d \in loader.todo /\ ver' = ver /\ ver \in Version
      /\ Version = 1..Len(File) /\ Len(File) \in Nat
      /\ loader.v \in Version /\ File[loader.v][d] # Nil /\ File[loader.v][d].len \in Nat
  BY FileAssumption DEF Copy, LoaderAt, DInv, Kinds, Loading, Version
<1>1. /\ loader'.v = loader.v /\ loader'.todo = loader.todo \ {d}
      /\ loader'.pc = IF loader.todo = {d} THEN "unlock" ELSE "copy"
  BY DEF Copy, Copied, DInv, Loading
<1>2. Ahead = loader.todo /\ Ahead' = loader.todo \ {d}
  BY <1>0, <1>1 DEF Ahead
<1>3. /\ \A e \in Entries(q') : e.key # d => e \in Entries(q)
      /\ \A e \in Entries(q') : e.key = d => File[e.val][d] = File[loader.v][d]
  <2>1. CASE Table(d) = File[loader.v][d] /\ Get(d)
    <3>1. Entries(q') \subseteq Entries(q)
      BY <2>1, GetFewer DEF DInv
    <3>2. ASSUME NEW e \in Entries(q'), e.key = d PROVE File[e.val][d] = File[loader.v][d]
      BY <2>1, <3>1, <3>2, TableOf DEF DInv
    <3>3. QED
      BY <3>1, <3>2
  <2>2. CASE Put(store(getQueue(q, now, d), now, "set", d, loader.v, File[loader.v][d].len, 0), d)
    <3> DEFINE p == getQueue(q, now, d)
               len == File[loader.v][d].len
               new == Entry(d, loader.v, len, IF 0 > 0 THEN now + 0 ELSE 0)
    <3>1. Queue(Record, p) /\ Entries(p) \subseteq Entries(q)
      BY GetResult DEF DInv, Dict
    <3>2. new \in Record /\ new.key = d /\ new.val = loader.v
      BY <1>0, AccessAssumption DEF Entry, Record, Key, Stamp
    <3>3. q' = store(p, now, "set", d, loader.v, len, 0).q
      BY <2>2 DEF Put
    <3> HIDE DEF p, len
    <3>4. Entries(q') \subseteq Entries(p) \cup {new}
      BY <3>1, <3>2, <3>3, StoreResult
    <3>5. \A e \in Entries(q') : e.key = d => e = new
      BY <3>1, <3>2, <3>3, StoreReplaces
    <3> HIDE DEF new
    <3>6. QED
      BY <3>1, <3>2, <3>4, <3>5
  <2>3. QED
    BY <2>1, <2>2 DEF Copy
<1>4. "time" # d
  BY FileAssumption DEF Own
<1>5. \A e \in Entries(q') : e.key = "time" => e \in Entries(q)
  BY <1>3, <1>4
<1>6. Recorded'
  BY <1>0, <1>1, <1>5 DEF SInv, Recorded
<1>7. Loaded'
  <2> SUFFICES ASSUME NEW t \in Entries(q'), t.key = "time", t.val = ver,
                      NEW e \in Entries(q'), e.key \in Domain \ (loader.todo \ {d})
               PROVE  File[ver][e.key] # Nil => File[e.val][e.key] = File[ver][e.key]
    BY <1>0, <1>2 DEF Loaded, Current
  <2>1. t \in Entries(q)
    BY <1>5
  <2>2. loader.v = ver
    <3>1. t.val <= loader.v /\ loader.v <= ver
      BY <1>0, <2>1 DEF SInv, Recorded
    <3>2. loader.v \in Nat /\ ver \in Nat
      BY <1>0
    <3>3. QED
      BY <3>1, <3>2
  <2>3. CASE e.key = d
    BY <1>3, <2>2, <2>3
  <2>4. CASE e.key # d
    <3>1. e \in Entries(q) /\ e.key \in Domain \ Ahead
      BY <1>2, <1>3, <2>4
    <3>2. Current(e)
      BY <1>0, <2>1, <3>1 DEF SInv, Loaded
    <3>3. QED
      BY <3>2 DEF Current
  <2>5. QED
    BY <2>3, <2>4
<1>8. QED
  BY <1>6, <1>7 DEF SInv

\* Taking the lock adds an entry that is neither the time nor a domain.
LEMMA LockRecords ==
  ASSUME DInv, SInv, Lock
  PROVE  SInv'
<1>0. loader.pc = "sleep" /\ ver' = ver /\ now \in 0..MaxNow /\ MaxNow \in Nat /\ LockTTL \in Nat \ {0}
  BY AccessAssumption DEF Lock, LoaderAt, DInv, Kinds
<1> DEFINE new == Entry("lock", 0, 1, IF LockTTL > 0 THEN now + LockTTL ELSE 0)
           res == store(q, now, "add", "lock", 0, 1, LockTTL)
<1>1. q' = res.q /\ loader' = [loader EXCEPT !.pc = "stat", !.held = (res.rc = "ok")]
  BY DEF Lock, Put
<1>2. new \in Record /\ new.key = "lock"
  BY <1>0, FileAssumption DEF Entry, Record, Key, Own, Stamp
<1>3. Entries(q') \subseteq Entries(q) \cup {new}
  BY <1>1, <1>2, StoreResult DEF DInv, Dict
<1> HIDE DEF res, new
<1>4. loader'.pc = "stat"
  BY <1>1 DEF DInv, Loading
<1>5. "lock" \notin Domain /\ "lock" # "time"
  BY FileAssumption DEF Own
<1>6. \A e \in Entries(q') : e.key \in Domain \/ e.key = "time" => e \in Entries(q)
  BY <1>2, <1>3, <1>5
<1>7. Ahead' = Ahead
  BY <1>0, <1>4 DEF Ahead
<1>8. Recorded'
  BY <1>0, <1>4, <1>6 DEF SInv, Recorded
<1>9. Loaded'
  BY <1>0, <1>6, <1>7 DEF SInv, Loaded, Current
<1>10. QED
  BY <1>8, <1>9 DEF SInv

\* Every step keeps it.  An edit makes the recorded time an old one.
LEMMA NextRecords ==
  ASSUME IInv, DInv, SInv, [Next]_vars
  PROVE  SInv'
<1>1. ASSUME NEW r \in Req, Steps(r) PROVE SInv'
  <2>1. UNCHANGED <<ver, loader>>
    BY <1>1, StepsGet DEF DInv
  <2>2. q' = q \/ Get(Host[r])
    BY <1>1 DEF Steps, Arrive, Basic, Black, White, ReqLimit, ConnLimit, Reject, Log, dict
  <2>3. Entries(q') \subseteq Entries(q)
    BY <2>2, GetFewer DEF DInv
  <2>4. QED
    BY <2>1, <2>3, FewerEntries
<1>2. CASE Unlock
  <2>1. loader.pc = "unlock" /\ loader'.pc = "sleep" /\ ver' = ver
    BY <1>2 DEF Unlock, LoaderAt
  <2>2. q' = q \/ q' = store(q, now, "delete", "lock", Missing, 0, 0).q
    BY <1>2 DEF Unlock
  <2>3. Entries(q') \subseteq Entries(q)
    BY <2>2, DeleteResult DEF DInv, Dict
  <2>4. QED
    BY <2>1, <2>3, FewerEntries
<1>3. CASE Edit
  <2>1. ver' = ver + 1 /\ UNCHANGED <<q, loader>> /\ ver \in Version /\ ver' \in Version
    BY <1>3 DEF Edit, dict, DInv, Kinds
  <2>2. Version \subseteq Nat
    BY FileAssumption DEF Version
  <2>3. \A e \in Entries(q) : e.key = "time" => e.val \in Nat /\ e.val <= ver
    BY <2>2 DEF SInv, Recorded
  <2>4. ver \in Nat /\ ver' # ver
    BY <2>1, <2>2
  <2>5. loader.pc = "copy" => loader.v \in Nat
    BY <2>2 DEF DInv, Loading
  <2>6. Recorded'
    BY <2>1, <2>3, <2>4, <2>5 DEF SInv, Recorded
  <2>7. \A e \in Entries(q) : e.key = "time" => e.val # ver'
    BY <2>1, <2>3, <2>4
  <2>8. Loaded'
    BY <2>1, <2>7 DEF Loaded
  <2>9. QED
    BY <2>6, <2>8 DEF SInv
<1>4. CASE Relist \/ Tick \/ UNCHANGED vars
  <2>1. UNCHANGED <<q, ver, loader>>
    BY <1>4 DEF Relist, Tick, vars, dict
  <2>2. QED
    BY <2>1, FewerEntries
<1>5. QED
  BY <1>1, <1>2, <1>3, <1>4, StatRecords, ReadRecords, CopyRecords, LockRecords DEF Next, Steps, Loads

\* init_worker_phase_entrance.lua: whenever the recorded time is the file's
\* and no load is under way, the dictionary has no other text of a domain
\* than the file, whatever it dropped and whenever the file was saved.
THEOREM RecordedMeansCurrentCorrect == Spec => []RecordedMeansCurrent
<1>1. Spec => Init /\ [][Next]_vars
  BY DEF Spec
<1>2. Init => SInv
  <2> SUFFICES ASSUME Init PROVE SInv
    OBVIOUS
  <2>1. loader.pc = "sleep" /\ q = <<Entry("default", 0, 1, 0), Entry("healthcheck", 0, 1, 0)>>
    BY DEF Init
  <2>2. \A e \in Entries(q) : e.key \in {"default", "healthcheck"}
    BY <2>1 DEF Entries, Entry
  <2>3. QED
    BY <2>1, <2>2 DEF SInv, Recorded, Loaded
<1>3. IInv /\ DInv /\ SInv /\ [Next]_vars => SInv'
  BY NextRecords
<1>4. ASSUME IInv, DInv, SInv PROVE RecordedMeansCurrent
  <2> SUFFICES ASSUME getValue(q, now, "time") = ver, loader.pc \notin {"read", "copy"},
                      NEW d \in Domain, File[ver][d] # Nil, Table(d) # Nil
               PROVE  Table(d) = File[ver][d]
    BY DEF RecordedMeansCurrent
  <2>1. ver # Missing
    BY <1>4, FileAssumption DEF DInv, Kinds
  <2>2. PICK t \in Entries(q) : t.key = "time" /\ t.val = ver
    BY <1>4, <2>1, ValueOf DEF DInv
  <2>3. PICK e \in Entries(q) : e.key = d
    BY TableFound, HasEntry
  <2>4. Ahead = {}
    BY DEF Ahead
  <2>5. Current(e)
    BY <1>4, <2>2, <2>3, <2>4 DEF SInv, Loaded
  <2>6. Table(d) = File[e.val][d]
    BY <1>4, <2>3, TableOf DEF DInv
  <2>7. QED
    BY <2>3, <2>5, <2>6 DEF Current
<1>5. QED
  BY <1>1, <1>2, <1>3, <1>4, DictInvariant, PTL
=============================================================================
