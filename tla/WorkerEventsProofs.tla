------------------------- MODULE WorkerEventsProofs -------------------------
(***************************************************************************)
(* Proofs about WorkerEvents for any number of workers, events and faults. *)
(* Everything the bus promises rests on the locals of poll, which the      *)
(* properties do not mention: where a walk stands between _last_event and  *)
(* the number it started from, who may move _last_event meanwhile, and     *)
(* that what a worker has met is exactly what lies behind its walk.        *)
(***************************************************************************)
EXTENDS WorkerEvents, FiniteSetTheorems, TLAPS

\* Labels inside the loop of poll, and those of them at which the flag
\* _busy_polling must be up.
InLoop == {"item", "wait", "handle", "nested"}
Asleep == {"wait", "handle", "nested"}

\* Numbers only grow: a worker starts at base and has walked up to last.
Ordered(w) == base[w] <= last[w] /\ last[w] <= lastId

\* A process that is not there has no timer and no coroutine.
Silent(w) == state[w] = "down" =>
               /\ timer[w] = FALSE
               /\ \A t \in Thread : pc[w][t] = "out" /\ loc[w][t] = Fresh

\* At most one coroutine of a worker is between two yields.
Exclusive(w) == \A t, u \in Thread :
                  t # u => pc[w][t] \in Yielded \/ pc[w][u] \in Yielded

\* The flag is up while a coroutine sleeps inside the loop.
Flagged(w) == \A t \in Thread : pc[w][t] \in Asleep => busy[w] = TRUE

\* OnePoller, coroutine by coroutine.
Single(w) == \A t, u \in Thread :
               pc[w][t] \in InLoop /\ pc[w][u] \in InLoop => t = u

\* A walk stays between the number it started from and _last_event.
InRange(w) == \A t \in Thread : pc[w][t] \in InLoop =>
                /\ base[w] + loc[w][t].count <= last[w]
                /\ loc[w][t].idx <= loc[w][t].count + 1
                /\ pc[w][t] \in Asleep => loc[w][t].idx <= loc[w][t].count

\* The events w has met are the ones after base and up to n.
Met(w, n) == \A i \in Id : fate[w][i] # "none" <=> base[w] < i /\ i <= n

\* What a worker has met is what lies behind its walk, or behind
\* _last_event when it is not walking.
Frontier(w) ==
    /\ \A t \in Thread :
         /\ pc[w][t] \in {"item", "wait"} => Met(w, Current(w, t) - 1)
         /\ pc[w][t] \in {"handle", "nested"} => Met(w, Current(w, t))
    /\ state[w] # "down" /\ (\A t \in Thread : pc[w][t] \notin InLoop)
         => Met(w, last[w])
    /\ \A i \in Id : fate[w][i] # "none" => i <= last[w]

\* A cache belongs to a walk, and a walk never sleeps for what it has cached.
Cached(w) == \A t \in Thread :
               /\ pc[w][t] \notin InLoop => loc[w][t].cache = {}
               /\ pc[w][t] = "wait" => Current(w, t) \notin loc[w][t].cache

\* A post that has taken its number remembers it.
Numbered(w) == \A t \in Thread : pc[w][t] \in {"add", "nested"} => loc[w][t].id > 0

WorkerInv(w) == /\ Ordered(w) /\ Silent(w) /\ Exclusive(w) /\ Flagged(w)
                /\ Single(w) /\ InRange(w) /\ Frontier(w) /\ Cached(w)
                /\ Numbered(w)

\* UniqueUpToExpiry with the key accounted for.
Accounted(u) == /\ IsFiniteSet(Runs(u))
                /\ Cardinality(Runs(u)) <= expiries + (IF u \in one THEN 1 ELSE 0)

\* The inductive invariant.
IInv == /\ TypeOK
        /\ \A w \in Worker : WorkerInv(w)
        /\ \A u \in Unique : Accounted(u)

-----------------------------------------------------------------------------

\* The locals of poll.
Local == [count : 0..MaxEvents, idx : 1..MaxEvents + 1, cache : SUBSET Id,
          id : 0..MaxEvents, late : BOOLEAN]

\* A walk that has not begun.
LEMMA FreshType ==
  /\ Fresh \in Local
  /\ Fresh.count = 0 /\ Fresh.idx = 1 /\ Fresh.cache = {} /\ Fresh.id = 0
<1>1. 0 \in 0..MaxEvents /\ 1 \in 1..MaxEvents + 1
  BY BoundAssumption
<1>2. Fresh \in Local
  BY <1>1, Zenon DEF Fresh, Local
<1>3. QED
  BY <1>2 DEF Fresh

\* What the jump of one coroutine changes.
LEMMA Jump ==
  ASSUME TypeOK, NEW w \in Worker, NEW t \in Thread, NEW l \in Label, Goto(w, t, l)
  PROVE  /\ pc' \in [Worker -> [Thread -> Label]]
         /\ pc'[w][t] = l
         /\ \A u \in Thread : u # t => pc'[w][u] = pc[w][u]
         /\ \A v \in Worker : v # w => pc'[v] = pc[v]
BY DEF TypeOK, Goto

\* What new locals of one coroutine change.
LEMMA SetLocal ==
  ASSUME TypeOK, NEW w \in Worker, NEW t \in Thread, NEW x \in Local,
         loc' = [loc EXCEPT ![w][t] = x]
  PROVE  /\ loc' \in [Worker -> [Thread -> Local]]
         /\ loc'[w][t] = x
         /\ \A u \in Thread : u # t => loc'[w][u] = loc[w][u]
         /\ \A v \in Worker : v # w => loc'[v] = loc[v]
<1>1. loc \in [Worker -> [Thread -> Local]]
  BY DEF TypeOK, Local
<1>2. QED
  BY <1>1

\* The next number of a walk.
LEMMA NextNumber ==
  ASSUME TypeOK, NEW w \in Worker, NEW t \in Thread, NEW late \in BOOLEAN,
         loc[w][t].idx <= MaxEvents,
         loc' = [loc EXCEPT ![w][t] = Onward(@, late)]
  PROVE  /\ loc' \in [Worker -> [Thread -> Local]]
         /\ loc'[w][t].idx = loc[w][t].idx + 1
         /\ loc'[w][t].count = loc[w][t].count
         /\ loc'[w][t].cache = loc[w][t].cache
         /\ loc'[w][t].id = loc[w][t].id
         /\ \A u \in Thread : u # t => loc'[w][u] = loc[w][u]
         /\ \A v \in Worker : v # w => loc'[v] = loc[v]
<1> DEFINE x == Onward(loc[w][t], late)
<1>1. loc \in [Worker -> [Thread -> Local]]
  BY DEF TypeOK, Local
<1>2. loc[w][t] \in Local
  BY <1>1
<1>3. loc[w][t].idx + 1 \in 1..MaxEvents + 1
  BY <1>2, BoundAssumption DEF Local
<1>4. /\ x \in Local
      /\ x.idx = loc[w][t].idx + 1 /\ x.count = loc[w][t].count
      /\ x.cache = loc[w][t].cache /\ x.id = loc[w][t].id
  BY <1>2, <1>3 DEF Local, Onward
<1>5. loc' = [loc EXCEPT ![w][t] = x]
  OBVIOUS
<1> HIDE DEF x
<1>6. /\ loc' \in [Worker -> [Thread -> Local]]
      /\ loc'[w][t] = x
      /\ \A u \in Thread : u # t => loc'[w][u] = loc[w][u]
      /\ \A v \in Worker : v # w => loc'[v] = loc[v]
  BY <1>1, <1>4, <1>5
<1>7. QED
  BY <1>4, <1>6, Zenon

-----------------------------------------------------------------------------

\* What the invariant of a worker looks at is as it was.
Same(v) == /\ state'[v] = state[v] /\ pc'[v] = pc[v] /\ loc'[v] = loc[v]
           /\ last'[v] = last[v] /\ base'[v] = base[v] /\ busy'[v] = busy[v]
           /\ fate'[v] = fate[v] /\ timer'[v] = timer[v]

\* The types that arithmetic needs.
LEMMA Numbers ==
  ASSUME TypeOK, NEW w \in Worker
  PROVE  /\ lastId \in Nat /\ last[w] \in Nat /\ base[w] \in Nat
         /\ lastId <= MaxEvents /\ MaxEvents \in Nat
         /\ \A t \in Thread : /\ loc[w][t].count \in Nat /\ loc[w][t].idx \in Nat
                              /\ loc[w][t].id \in Nat /\ loc[w][t].cache \in SUBSET Id
                              /\ Current(w, t) \in Int /\ loc[w][t].idx >= 1
<1>1. \A t \in Thread : loc[w][t] \in Local
  BY DEF TypeOK, Local
<1>2. last[w] \in 0..MaxEvents /\ base[w] \in 0..MaxEvents /\ lastId \in 0..MaxEvents
  BY DEF TypeOK
<1>3. QED
  BY <1>1, <1>2, BoundAssumption DEF Local, Current

\* A worker that takes no step keeps its invariant while numbers grow.
LEMMA Others ==
  ASSUME TypeOK, TypeOK', NEW v \in Worker, WorkerInv(v), Same(v), lastId <= lastId'
  PROVE  WorkerInv(v)'
<1>1. Ordered(v)'
  <2>1. lastId \in Int /\ lastId' \in Int /\ last[v] \in Int
    BY BoundAssumption DEF TypeOK
  <2>2. QED
    BY <2>1 DEF WorkerInv, Same, Ordered
<1>2. \A t \in Thread : Current(v, t)' = Current(v, t)
  BY DEF Same, Current
<1>3. Silent(v)' /\ Exclusive(v)' /\ Flagged(v)' /\ Single(v)'
  BY Zenon DEF WorkerInv, Same, Silent, Exclusive, Flagged, Single
<1>4. InRange(v)' /\ Numbered(v)'
  BY Zenon DEF WorkerInv, Same, InRange, Numbered
<1>5. Frontier(v)'
  <2>1. ASSUME NEW n, Met(v, n)
        PROVE  \A i \in Id : fate'[v][i] # "none" <=> base'[v] < i /\ i <= n
    BY <2>1, Zenon DEF Same, Met
  <2>2. QED
    BY <1>2, <2>1, Zenon DEF WorkerInv, Same, Frontier, Met
<1>6. Cached(v)'
  BY <1>2, Zenon DEF WorkerInv, Same, Cached
<1>7. QED
  BY <1>1, <1>3, <1>4, <1>5, <1>6, Zenon DEF WorkerInv

\* Coroutine t of w goes to l; its locals, its worker's numbers, flag and
\* history may change; the other coroutine stays where it is.
Moves(w, t, l) == /\ pc'[w][t] = l
                  /\ \A u \in Thread : u # t => pc'[w][u] = pc[w][u]
                  /\ \A u \in Thread : u # t => loc'[w][u] = loc[w][u]
                  /\ base'[w] = base[w]
                  /\ state[w] # "down" /\ state'[w] # "down"

\* A step outside the loop of poll.
LEMMA Outside ==
  ASSUME TypeOK, TypeOK', NEW w \in Worker, WorkerInv(w), NEW t \in Thread,
         NEW l \in Label \ InLoop, Moves(w, t, l),
         pc[w][t] \notin InLoop, l \in Yielded \/ Turn(w, t),
         loc'[w][t].cache = loc[w][t].cache,
         l = "add" => loc'[w][t].id > 0,
         last'[w] = last[w], busy'[w] = busy[w], fate'[w] = fate[w],
         lastId <= lastId'
  PROVE  WorkerInv(w)'
<1> USE DEF Moves
<1>1. Ordered(w)'
  <2>1. lastId \in Int /\ lastId' \in Int /\ last[w] \in Int
    BY BoundAssumption DEF TypeOK
  <2>2. QED
    BY <2>1 DEF WorkerInv, Ordered
<1>2. Silent(w)'
  BY DEF Silent
<1>3. Exclusive(w)'
  BY DEF WorkerInv, Exclusive, Turn
<1>4. Flagged(w)' /\ Single(w)' /\ InRange(w)'
  <2>1. \A u \in Thread : pc'[w][u] \in InLoop => u # t /\ pc'[w][u] = pc[w][u]
                                                  /\ loc'[w][u] = loc[w][u]
    OBVIOUS
  <2>2. \A u \in Thread : pc'[w][u] \in Asleep => u # t /\ pc'[w][u] = pc[w][u]
    BY DEF InLoop, Asleep
  <2>3. QED
    BY <2>1, <2>2 DEF WorkerInv, Flagged, Single, InRange
<1>5. Frontier(w)'
  <2>1. \A u \in Thread : u # t => Current(w, u)' = Current(w, u)
    BY DEF Current
  <2>2. \A u \in Thread : pc'[w][u] \in InLoop <=> pc[w][u] \in InLoop
    OBVIOUS
  <2>3. \A u \in Thread :
          pc'[w][u] \in {"item", "wait", "handle", "nested"} => u # t
    BY DEF InLoop
  <2>4. /\ \A u \in Thread :
             /\ pc'[w][u] \in {"item", "wait"} => Met(w, Current(w, u) - 1)
             /\ pc'[w][u] \in {"handle", "nested"} => Met(w, Current(w, u))
        /\ (\A u \in Thread : pc'[w][u] \notin InLoop) => Met(w, last[w])
        /\ \A i \in Id : fate[w][i] # "none" => i <= last[w]
    BY <2>2, <2>3 DEF WorkerInv, Frontier
  <2>5. \A u \in Thread : pc'[w][u] \in {"item", "wait", "handle", "nested"}
                             => Current(w, u)' = Current(w, u)
    BY <2>1, <2>3, Zenon
  <2>6. /\ \A u \in Thread :
             /\ pc'[w][u] \in {"item", "wait"} => Met(w, Current(w, u) - 1)'
             /\ pc'[w][u] \in {"handle", "nested"} => Met(w, Current(w, u))'
    BY <2>4, <2>5 DEF Met
  <2>7. (\A u \in Thread : pc'[w][u] \notin InLoop) => Met(w, last[w])'
    BY <2>4 DEF Met
  <2>8. QED
    BY <2>4, <2>6, <2>7, Zenon DEF Frontier
<1>6. Cached(w)'
  <2>1. \A u \in Thread : u # t => Current(w, u)' = Current(w, u)
    BY DEF Current
  <2>2. l # "wait"
    BY DEF InLoop
  <2>3. QED
    BY <2>1, <2>2 DEF WorkerInv, Cached
<1>7. Numbered(w)'
  <2>1. l # "nested"
    BY DEF InLoop
  <2>2. QED
    BY <2>1 DEF WorkerInv, Numbered
<1>8. QED
  BY <1>1, <1>2, <1>3, <1>4, <1>5, <1>6, <1>7, Zenon DEF WorkerInv

\* A step that ends inside the loop of poll, taken by the only coroutine in
\* it: it owes the range of its walk, what has been met, the flag where it
\* yields, and that it does not sleep for what it has cached.
LEMMA Inside ==
  ASSUME TypeOK, TypeOK', NEW w \in Worker, WorkerInv(w), NEW t \in Thread,
         NEW l \in InLoop, Moves(w, t, l),
         \A u \in Thread : u # t => pc[w][u] \notin InLoop,
         l \in Yielded \/ Turn(w, t),
         l \in Asleep => busy'[w] = TRUE,
         last'[w] <= lastId',
         base[w] + loc'[w][t].count <= last'[w],
         loc'[w][t].idx <= loc'[w][t].count + 1,
         l \in Asleep => loc'[w][t].idx <= loc'[w][t].count,
         l \in {"item", "wait"} => Met(w, Current(w, t) - 1)',
         l \in {"handle", "nested"} => Met(w, Current(w, t))',
         l = "wait" => Current(w, t)' \notin loc'[w][t].cache,
         l = "nested" => loc'[w][t].id > 0
  PROVE  WorkerInv(w)'
<1> USE DEF Moves
<1>1. /\ lastId' \in Nat /\ last'[w] \in Nat /\ base[w] \in Nat
      /\ loc'[w][t].count \in Nat /\ loc'[w][t].idx \in Nat
  <2>1. loc'[w][t] \in Local
    BY DEF TypeOK, Local
  <2>2. QED
    BY <2>1, BoundAssumption DEF TypeOK, Local
<1>2. Ordered(w)'
  BY <1>1 DEF Ordered
<1>3. Silent(w)'
  BY DEF Silent
<1>4. Exclusive(w)'
  BY DEF WorkerInv, Exclusive, Turn
<1>5. \A u \in Thread : u # t => pc'[w][u] \notin InLoop
  OBVIOUS
<1>6. Flagged(w)' /\ Single(w)' /\ InRange(w)'
  <2>1. \A u \in Thread : pc'[w][u] \in Asleep => u = t
    BY <1>5 DEF InLoop, Asleep
  <2>2. QED
    BY <1>5, <2>1 DEF Flagged, Single, InRange
<1>7. Frontier(w)'
  <2>1. \A u \in Thread :
          pc'[w][u] \in {"item", "wait", "handle", "nested"} => u = t
    BY <1>5 DEF InLoop
  <2>2. /\ \A u \in Thread :
             /\ pc'[w][u] \in {"item", "wait"} => Met(w, Current(w, u) - 1)'
             /\ pc'[w][u] \in {"handle", "nested"} => Met(w, Current(w, u))'
    BY <2>1
  <2>3. ~(\A u \in Thread : pc'[w][u] \notin InLoop)
    OBVIOUS
  <2>4. \A i \in Id : fate'[w][i] # "none" => i <= last'[w]
    <3>1. Id \subseteq Int
      BY DEF Id
    <3>2. Current(w, t)' = last'[w] - loc'[w][t].count + loc'[w][t].idx
      BY DEF Current
    <3>3. CASE l \in {"item", "wait"}
      BY <1>1, <3>1, <3>2, <3>3 DEF Met
    <3>4. CASE l \in {"handle", "nested"}
      <4>1. l \in Asleep
        BY <3>4 DEF Asleep
      <4>2. QED
        BY <1>1, <3>1, <3>2, <3>4, <4>1 DEF Met
    <3>5. QED
      BY <3>3, <3>4 DEF InLoop
  <2>5. QED
    BY <2>2, <2>3, <2>4, Zenon DEF Frontier
<1>8. Cached(w)'
  <2>1. \A u \in Thread : u # t => loc'[w][u].cache = {}
    BY DEF WorkerInv, Cached
  <2>2. QED
    BY <2>1 DEF Cached
<1>9. Numbered(w)'
  <2>1. l # "add"
    BY DEF InLoop
  <2>2. QED
    BY <2>1 DEF WorkerInv, Numbered
<1>10. QED
  BY <1>2, <1>3, <1>4, <1>6, <1>7, <1>8, <1>9, Zenon DEF WorkerInv

\* The for loop of poll is over (events.lua:350-353): all of the walk is met.
LEMMA LoopOver ==
  ASSUME TypeOK, TypeOK', NEW w \in Worker, WorkerInv(w), NEW t \in Thread,
         Turn(w, t), pc[w][t] = "item", loc[w][t].idx > loc[w][t].count,
         Moves(w, t, "poll"), loc'[w][t] = Fresh, lastId' = lastId,
         last'[w] = last[w], busy'[w] = busy[w], fate'[w] = fate[w]
  PROVE  WorkerInv(w)'
<1> USE DEF Moves
<1>1. \A u \in Thread : pc'[w][u] \notin InLoop
  BY DEF WorkerInv, Single, InLoop
<1>2. Met(w, last[w])
  <2>1. loc[w][t].idx = loc[w][t].count + 1
    BY Numbers DEF WorkerInv, InRange, InLoop
  <2>2. Current(w, t) - 1 = last[w]
    BY <2>1, Numbers DEF Current
  <2>3. QED
    BY <2>2 DEF WorkerInv, Frontier
<1>3. Ordered(w)' /\ Silent(w)'
  BY DEF WorkerInv, Ordered, Silent
<1>4. Exclusive(w)'
  BY DEF Exclusive, Turn
<1>5. Flagged(w)' /\ Single(w)' /\ InRange(w)'
  BY <1>1 DEF Flagged, Single, InRange, InLoop, Asleep
<1>6. Frontier(w)'
  <2>1. \A u \in Thread : pc'[w][u] \notin {"item", "wait", "handle", "nested"}
    BY <1>1 DEF InLoop
  <2>2. Met(w, last[w])'
    BY <1>2 DEF Met
  <2>3. \A i \in Id : fate'[w][i] # "none" => i <= last'[w]
    BY <2>2 DEF Met
  <2>4. QED
    BY <2>1, <2>2, <2>3 DEF Frontier
<1>7. Cached(w)' /\ Numbered(w)'
  <2>1. \A u \in Thread : loc'[w][u].cache = {}
    <3>1. \A u \in Thread : u # t => pc[w][u] \notin InLoop
      BY <1>1
    <3>2. QED
      BY <3>1, FreshType DEF WorkerInv, Cached
  <2>2. QED
    BY <1>1, <2>1 DEF WorkerInv, Cached, Numbered, InLoop
<1>8. QED
  BY <1>3, <1>4, <1>5, <1>6, <1>7, Zenon DEF WorkerInv

\* A process that ends takes its coroutines with it; what it met is history.
LEMMA Ended ==
  ASSUME TypeOK, TypeOK', NEW w \in Worker, WorkerInv(w), Reset(w)
  PROVE  WorkerInv(w)'
<1>1. /\ state'[w] = "down" /\ busy'[w] = FALSE /\ timer'[w] = FALSE
      /\ \A t \in Thread : pc'[w][t] = "out" /\ loc'[w][t] = Fresh
      /\ last' = last /\ base' = base /\ fate' = fate /\ lastId' = lastId
  BY DEF TypeOK, Reset, shm
<1>2. Ordered(w)' /\ Silent(w)'
  BY <1>1 DEF WorkerInv, Ordered, Silent
<1>3. Exclusive(w)' /\ Flagged(w)' /\ Single(w)' /\ InRange(w)'
  BY <1>1 DEF Exclusive, Yielded, Flagged, Asleep, Single, InLoop, InRange
<1>4. Frontier(w)'
  BY <1>1 DEF WorkerInv, Frontier
<1>5. Cached(w)' /\ Numbered(w)'
  BY <1>1, FreshType DEF Cached, Numbered
<1>6. QED
  BY <1>2, <1>3, <1>4, <1>5, Zenon DEF WorkerInv

\* configure (events.lua:555-600): the worker starts at the current number
\* and has met nothing.
LEMMA Configured ==
  ASSUME TypeOK, TypeOK', NEW w \in Worker, WorkerInv(w), configure(w)
  PROVE  WorkerInv(w)'
<1>1. /\ state[w] = "down" /\ state'[w] = "up"
      /\ last'[w] = lastId /\ base'[w] = lastId /\ lastId' = lastId
      /\ fate'[w] = [i \in Id |-> "none"] /\ loc' = loc /\ busy' = busy
  BY DEF TypeOK, configure, shm
<1>2. pc'[w]["timer"] = "post" /\ pc'[w]["other"] = "out"
  <2>1. "timer" \in Thread /\ "other" \in Thread /\ "post" \in Label
    BY DEF Thread, Label
  <2>2. Goto(w, "timer", "post") /\ pc[w]["other"] = "out"
    BY <1>1, <2>1 DEF configure, WorkerInv, Silent
  <2>3. QED
    BY <2>1, <2>2, Jump
<1>3. \A t \in Thread : pc'[w][t] \in {"post", "out"}
  BY <1>2 DEF Thread
<1>4. Ordered(w)' /\ Silent(w)'
  <2>1. lastId \in Int
    BY DEF TypeOK
  <2>2. QED
    BY <1>1, <2>1 DEF Ordered, Silent
<1>5. Exclusive(w)'
  BY <1>2 DEF Exclusive, Yielded, Thread
<1>6. Flagged(w)' /\ Single(w)' /\ InRange(w)'
  BY <1>3 DEF Flagged, Asleep, Single, InLoop, InRange
<1>7. Frontier(w)'
  <2>1. \A t \in Thread : pc'[w][t] \notin {"item", "wait", "handle", "nested"}
    BY <1>3
  <2>2. \A i \in Id : fate'[w][i] = "none"
    BY <1>1
  <2>3. \A i \in Id : i \in Int /\ lastId \in Int
    BY DEF Id, TypeOK
  <2>4. Met(w, last[w])'
    BY <1>1, <2>2, <2>3 DEF Met
  <2>5. QED
    BY <2>1, <2>2, <2>4 DEF Frontier
<1>8. Cached(w)' /\ Numbered(w)'
  <2>1. \A t \in Thread : loc'[w][t].cache = {}
    BY <1>1, FreshType DEF WorkerInv, Silent
  <2>2. QED
    BY <1>3, <2>1 DEF Cached, Numbered
<1>9. QED
  BY <1>4, <1>5, <1>6, <1>7, <1>8, Zenon DEF WorkerInv

-----------------------------------------------------------------------------

\* What a step of worker w owes.
Keeps(w) == /\ TypeOK' /\ WorkerInv(w)'
            /\ \A v \in Worker : v # w => Same(v)
            /\ lastId <= lastId'

\* Labels by name.
LEMMA Labels ==
  /\ "timer" \in Thread /\ "other" \in Thread
  /\ {"out", "post", "add", "poll", "rearm"} \subseteq Label \ InLoop
  /\ InLoop \subseteq Label /\ Asleep \subseteq InLoop
  /\ {"out", "wait", "handle"} = Yielded
BY DEF Thread, Label, Yielded, InLoop, Asleep

\* A counted fault stays within its bound.
LEMMA FaultType ==
  ASSUME TypeOK, NEW bad \in BOOLEAN, Fault(bad)
  PROVE  faults' \in 0..MaxFaults
<1>1. faults \in 0..MaxFaults /\ MaxFaults \in Nat
  BY BoundAssumption DEF TypeOK
<1>2. CASE bad = TRUE
  BY <1>1, <1>2 DEF Fault
<1>3. CASE bad = FALSE
  BY <1>1, <1>3 DEF Fault
<1>4. QED
  BY <1>2, <1>3

\* The first half of a post takes the next number and remembers it.
LEMMA IncrFacts ==
  ASSUME TypeOK, NEW w \in Worker, NEW t \in Thread, NEW u \in Unique \cup {None},
         NEW l \in Label, Incr(w, t, u, l)
  PROVE  /\ lastId' \in 0..MaxEvents /\ lastId' = lastId + 1 /\ lastId <= lastId'
         /\ data' \subseteq Id /\ one' \subseteq Unique
         /\ uniq' \in [Id -> Unique \cup {None}]
         /\ \A i \in Id : i <= lastId => uniq'[i] = uniq[i]
         /\ pc' \in [Worker -> [Thread -> Label]] /\ pc'[w][t] = l
         /\ loc' \in [Worker -> [Thread -> Local]]
         /\ loc'[w][t].id > 0 /\ loc'[w][t].cache = loc[w][t].cache
         /\ loc'[w][t].count = loc[w][t].count /\ loc'[w][t].idx = loc[w][t].idx
         /\ \A x \in Thread : x # t => pc'[w][x] = pc[w][x] /\ loc'[w][x] = loc[w][x]
         /\ \A v \in Worker : v # w => pc'[v] = pc[v] /\ loc'[v] = loc[v]
<1>1. lastId + 1 \in 0..MaxEvents /\ lastId + 1 > 0 /\ lastId <= lastId + 1
  BY BoundAssumption DEF TypeOK, Incr
<1>2. lastId' = lastId + 1 /\ data' = data /\ one' = one
  BY DEF Incr
<1>3. uniq' \in [Id -> Unique \cup {None}]
  BY DEF Incr, TypeOK
<1>4. \A i \in Id : i <= lastId => uniq'[i] = uniq[i]
  <2>1. \A i \in Id : i <= lastId => i # lastId + 1
    BY DEF Id, TypeOK
  <2>2. QED
    BY <2>1 DEF Incr, TypeOK
<1>5. /\ loc' \in [Worker -> [Thread -> Local]]
      /\ loc'[w][t].id = lastId + 1 /\ loc'[w][t].cache = loc[w][t].cache
      /\ loc'[w][t].count = loc[w][t].count /\ loc'[w][t].idx = loc[w][t].idx
      /\ \A x \in Thread : x # t => loc'[w][x] = loc[w][x]
      /\ \A v \in Worker : v # w => loc'[v] = loc[v]
  <2> DEFINE x == [loc[w][t] EXCEPT !.id = lastId + 1]
  <2>1. loc \in [Worker -> [Thread -> Local]]
    BY DEF TypeOK, Local
  <2>2. loc[w][t] \in Local
    BY <2>1
  <2>3. /\ x \in Local
        /\ x.id = lastId + 1 /\ x.idx = loc[w][t].idx /\ x.count = loc[w][t].count
        /\ x.cache = loc[w][t].cache
    BY <1>1, <2>2 DEF Local
  <2>4. loc' = [loc EXCEPT ![w][t] = x]
    BY <2>1, <2>2 DEF Incr
  <2> HIDE DEF x
  <2>5. /\ loc' \in [Worker -> [Thread -> Local]]
        /\ loc'[w][t] = x
        /\ \A y \in Thread : y # t => loc'[w][y] = loc[w][y]
        /\ \A v \in Worker : v # w => loc'[v] = loc[v]
    BY <2>1, <2>3, <2>4, SMT
  <2>6. QED
    BY <2>3, <2>5, Zenon
<1>6. /\ pc' \in [Worker -> [Thread -> Label]] /\ pc'[w][t] = l
      /\ \A x \in Thread : x # t => pc'[w][x] = pc[w][x]
      /\ \A v \in Worker : v # w => pc'[v] = pc[v]
  BY Jump, Zenon DEF Incr
<1>7. loc'[w][t].id > 0
  BY <1>1, <1>5, Zenon
<1>8. data' \subseteq Id /\ one' \subseteq Unique
  BY <1>2, Zenon DEF TypeOK
<1>9. lastId' \in 0..MaxEvents /\ lastId <= lastId'
  BY <1>1, <1>2, Zenon
<1>10. QED
  BY <1>2, <1>3, <1>4, <1>5, <1>6, <1>7, <1>8, <1>9, Zenon

\* A coroutine outside the loop that is not posting, or a handler, posts.
LEMMA IncrKeeps ==
  ASSUME TypeOK, NEW w \in Worker, WorkerInv(w), NEW t \in Thread,
         NEW u \in Unique \cup {None}, NEW l \in {"add", "nested"},
         Turn(w, t), state[w] # "down", Incr(w, t, u, l),
         l = "add" => pc[w][t] \notin InLoop,
         l = "nested" => pc[w][t] = "handle",
         UNCHANGED <<state, timer, last, busy, fate, base, expiries, faults>>
  PROVE  Keeps(w)
<1>1. l \in Label
  BY DEF Label
<1>2. TypeOK'
  BY <1>1, IncrFacts, Zenon DEF TypeOK, Local
<1>3. \A v \in Worker : v # w => Same(v)
  BY <1>1, IncrFacts, Zenon DEF Same
<1>4. lastId <= lastId'
  BY <1>1, IncrFacts, Zenon
<1>5. Moves(w, t, l)
  BY <1>1, IncrFacts, Zenon DEF Moves
<1>6. /\ loc'[w][t].id > 0 /\ loc'[w][t].cache = loc[w][t].cache
      /\ loc'[w][t].count = loc[w][t].count /\ loc'[w][t].idx = loc[w][t].idx
  BY <1>1, IncrFacts, Zenon
<1>7. CASE l = "add"
  <2>1. l \in Label \ InLoop
    BY <1>7, Labels
  <2>2. WorkerInv(w)'
    BY <1>2, <1>4, <1>5, <1>6, <1>7, <2>1, Outside
  <2>3. QED
    BY <1>2, <1>3, <1>4, <2>2, Zenon DEF Keeps
<1>8. CASE l = "nested"
  <2>1. pc[w][t] \in InLoop /\ l \in InLoop /\ pc[w][t] \in Asleep
    BY <1>8 DEF InLoop, Asleep
  <2>2. \A x \in Thread : x # t => pc[w][x] \notin InLoop
    BY <2>1 DEF WorkerInv, Single
  <2>3. Current(w, t)' = Current(w, t)
    BY <1>6 DEF Current
  <2>4. Met(w, Current(w, t))
    BY <1>8 DEF WorkerInv, Frontier
  <2>5. Met(w, Current(w, t))'
    BY <2>3, <2>4 DEF Met
  <2>6. /\ busy'[w] = TRUE /\ last'[w] <= lastId'
        /\ base[w] + loc'[w][t].count <= last'[w]
        /\ loc'[w][t].idx <= loc'[w][t].count + 1
        /\ loc'[w][t].idx <= loc'[w][t].count
    <3>1. last[w] <= lastId /\ last' = last
      BY DEF WorkerInv, Ordered
    <3>2. lastId' \in Int /\ lastId \in Int
      BY <1>2 DEF TypeOK
    <3>3. last'[w] <= lastId'
      BY <1>4, <3>1, <3>2, Numbers
    <3>4. busy'[w] = TRUE
      BY <2>1 DEF WorkerInv, Flagged
    <3>5. QED
      BY <1>6, <2>1, <3>3, <3>4 DEF WorkerInv, InRange
  <2>7. WorkerInv(w)'
    BY <1>2, <1>5, <1>6, <1>8, <2>1, <2>2, <2>5, <2>6, Inside
  <2>8. QED
    BY <1>2, <1>3, <1>4, <2>7, Zenon DEF Keeps
<1>9. QED
  BY <1>7, <1>8

\* post by a request or by a handler that is running.
LEMMA postKeeps ==
  ASSUME TypeOK, NEW w \in Worker, WorkerInv(w), NEW t \in Thread, post(w, t)
  PROVE  Keeps(w)
<1>1. PICK u \in Unique \cup {None} :
        \/ pc[w][t] = "out" /\ t = "other" /\ Incr(w, t, u, "add")
        \/ pc[w][t] = "handle" /\ Incr(w, t, u, "nested")
  BY Zenon DEF post
<1>2. /\ Turn(w, t) /\ state[w] # "down"
      /\ UNCHANGED <<state, timer, last, busy, fate, base, expiries, faults>>
  BY DEF post
<1>3. CASE pc[w][t] = "out" /\ Incr(w, t, u, "add")
  <2>1. pc[w][t] \notin InLoop
    BY <1>3 DEF InLoop
  <2>2. QED
    BY <1>2, <1>3, <2>1, IncrKeeps
<1>4. CASE pc[w][t] = "handle" /\ Incr(w, t, u, "nested")
  BY <1>2, <1>4, IncrKeeps
<1>5. QED
  BY <1>1, <1>3, <1>4

\* The worker's own events, started and stopping.
LEMMA postOwnKeeps ==
  ASSUME TypeOK, NEW w \in Worker, WorkerInv(w), NEW t \in Thread, postOwn(w, t)
  PROVE  Keeps(w)
<1>1. pc[w][t] \notin InLoop /\ state[w] # "down"
  BY DEF postOwn, InLoop, WorkerInv, Silent
<1>2. QED
  BY <1>1, IncrKeeps DEF postOwn

\* The second half of a post (events.lua:137-147).
LEMMA addDataKeeps ==
  ASSUME TypeOK, NEW w \in Worker, WorkerInv(w), NEW t \in Thread, addData(w, t)
  PROVE  Keeps(w)
<1> DEFINE l(stored) == IF pc[w][t] = "nested" THEN "handle"
                        ELSE IF stored THEN "poll" ELSE AfterFailure(w, t)
<1>1. PICK stored \in BOOLEAN :
        /\ Fault(~stored)
        /\ data' = IF stored THEN data \cup {loc[w][t].id} ELSE data
        /\ Goto(w, t, l(stored))
  BY Zenon DEF addData
<1>2. /\ pc[w][t] \in {"add", "nested"}
      /\ UNCHANGED <<lastId, uniq, one, state, timer, last, busy, loc, fate, base, expiries>>
  BY DEF addData
<1>3. /\ pc[w][t] = "nested" => l(stored) = "handle"
      /\ pc[w][t] = "add" => l(stored) \in {"out", "poll"}
  BY DEF AfterFailure
<1>4. l(stored) \in {"out", "poll", "handle"} /\ l(stored) \in Label
  BY <1>2, <1>3 DEF Label, Yielded
<1> HIDE DEF l
<1>5. /\ pc' \in [Worker -> [Thread -> Label]] /\ pc'[w][t] = l(stored)
      /\ \A x \in Thread : x # t => pc'[w][x] = pc[w][x]
      /\ \A v \in Worker : v # w => pc'[v] = pc[v]
  BY <1>1, <1>4, Jump
<1>6. TypeOK'
  <2>1. data' \subseteq Id
    <3>1. loc[w][t].id \in 0..MaxEvents /\ loc[w][t].id > 0
      BY <1>2 DEF TypeOK, WorkerInv, Numbered
    <3>2. loc[w][t].id \in Id
      BY <3>1, BoundAssumption DEF Id
    <3>3. QED
      BY <1>1, <3>2, Zenon DEF TypeOK
  <2>2. faults' \in 0..MaxFaults
    BY <1>1, FaultType, Zenon
  <2>3. QED
    BY <1>2, <1>5, <2>1, <2>2, Zenon DEF TypeOK
<1>7. (\A v \in Worker : v # w => Same(v)) /\ lastId <= lastId'
  <2>1. lastId \in Int
    BY DEF TypeOK
  <2>2. QED
    BY <1>2, <1>5, <2>1 DEF Same
<1>8. state[w] # "down"
  BY <1>2 DEF WorkerInv, Silent
<1>9. Moves(w, t, l(stored))
  BY <1>2, <1>5, <1>8 DEF Moves
<1>10. CASE pc[w][t] = "add"
  <2>1. l(stored) \in Label \ InLoop /\ pc[w][t] \notin InLoop /\ l(stored) # "add"
    BY <1>3, <1>4, <1>10 DEF InLoop
  <2>2. Turn(w, t)
    BY <1>10 DEF WorkerInv, Exclusive, Turn, Yielded
  <2>3. WorkerInv(w)'
    BY <1>2, <1>6, <1>7, <1>9, <2>1, <2>2, Outside
  <2>4. QED
    BY <1>6, <1>7, <2>3, Zenon DEF Keeps
<1>11. CASE pc[w][t] = "nested"
  <2>1. /\ l(stored) = "handle" /\ "handle" \in Yielded
        /\ l(stored) \in InLoop /\ l(stored) \in Asleep
        /\ pc[w][t] \in InLoop /\ pc[w][t] \in Asleep
    BY <1>3, <1>11 DEF InLoop, Asleep, Yielded
  <2>2. \A x \in Thread : x # t => pc[w][x] \notin InLoop
    BY <2>1 DEF WorkerInv, Single
  <2>3. Met(w, Current(w, t))'
    BY <1>2, <1>11 DEF WorkerInv, Frontier, Met, Current
  <2>4. /\ busy'[w] = TRUE /\ last'[w] <= lastId'
        /\ base[w] + loc'[w][t].count <= last'[w]
        /\ loc'[w][t].idx <= loc'[w][t].count + 1
        /\ loc'[w][t].idx <= loc'[w][t].count
    BY <1>2, <2>1 DEF WorkerInv, Ordered, InRange, Flagged
  <2>5. WorkerInv(w)'
    BY <1>6, <1>9, <2>1, <2>2, <2>3, <2>4, Inside
  <2>6. QED
    BY <1>6, <1>7, <2>5, Zenon DEF Keeps
<1>12. QED
  BY <1>2, <1>10, <1>11

\* From the top of poll to the end of its caching loop (events.lua:284-313):
\* the flag and the turn show that nobody else is in the loop, so all numbers
\* up to _last_event are met and the walk begins right behind them.
LEMMA pollKeeps ==
  ASSUME TypeOK, NEW w \in Worker, WorkerInv(w), NEW t \in Thread, poll(w, t)
  PROVE  Keeps(w)
<1>1. /\ Turn(w, t) /\ pc[w][t] = "poll"
      /\ UNCHANGED <<shm, state, timer, busy, fate, base, expiries, faults>>
  BY DEF poll
<1>2. pc[w][t] \notin InLoop /\ state[w] # "down" /\ lastId' = lastId
  BY <1>1 DEF InLoop, WorkerInv, Silent, shm
<1>3. CASE Goto(w, t, After(t)) /\ UNCHANGED <<last, loc>>
  <2>1. After(t) \in Label \ InLoop /\ After(t) # "add"
    BY DEF After, Label, Yielded, InLoop
  <2>2. /\ pc' \in [Worker -> [Thread -> Label]] /\ pc'[w][t] = After(t)
        /\ \A x \in Thread : x # t => pc'[w][x] = pc[w][x]
        /\ \A v \in Worker : v # w => pc'[v] = pc[v]
    BY <1>3, <2>1, Jump
  <2>3. TypeOK'
    BY <1>1, <1>3, <2>2, Zenon DEF TypeOK, shm
  <2>4. (\A v \in Worker : v # w => Same(v)) /\ lastId <= lastId'
    <3>1. lastId \in Int
      BY DEF TypeOK
    <3>2. QED
      BY <1>1, <1>2, <1>3, <2>2, <3>1 DEF Same
  <2>5. Moves(w, t, After(t))
    BY <1>1, <1>2, <1>3, <2>2 DEF Moves
  <2>6. WorkerInv(w)'
    BY <1>1, <1>2, <1>3, <2>1, <2>3, <2>4, <2>5, Outside
  <2>7. QED
    BY <2>3, <2>4, <2>6, Zenon DEF Keeps
<1>4. CASE /\ ~busy[w] /\ lastId # last[w]
           /\ loc' = [loc EXCEPT ![w][t] =
                 [Fresh EXCEPT !.count = lastId - last[w],
                               !.cache = data \cap (last[w] + 1 .. lastId)]]
           /\ last' = [last EXCEPT ![w] = lastId]
           /\ Goto(w, t, "item")
  <2>1. last[w] <= lastId /\ base[w] <= last[w]
    BY DEF WorkerInv, Ordered
  <2>2. lastId - last[w] \in 0..MaxEvents
    BY <2>1, Numbers
  <2>3. PICK x \in Local : /\ x = [Fresh EXCEPT !.count = lastId - last[w],
                                    !.cache = data \cap (last[w] + 1 .. lastId)]
                           /\ x.count = lastId - last[w] /\ x.idx = 1
                           /\ x.id = 0
    <3> DEFINE y == [Fresh EXCEPT !.count = lastId - last[w],
                                  !.cache = data \cap (last[w] + 1 .. lastId)]
    <3>1. data \cap (last[w] + 1 .. lastId) \in SUBSET Id
      BY DEF TypeOK
    <3>2. y \in Local /\ y.count = lastId - last[w] /\ y.idx = 1 /\ y.id = 0
      BY <2>2, <3>1, FreshType DEF Local
    <3>3. QED
      BY <3>2, Zenon
  <2>4. /\ loc' \in [Worker -> [Thread -> Local]]
        /\ loc'[w][t] = x
        /\ \A u \in Thread : u # t => loc'[w][u] = loc[w][u]
        /\ \A v \in Worker : v # w => loc'[v] = loc[v]
    <3>1. loc' = [loc EXCEPT ![w][t] = x]
      BY <1>4, <2>3, Zenon
    <3>2. QED
      BY <3>1, SetLocal
  <2>5. /\ pc' \in [Worker -> [Thread -> Label]] /\ pc'[w][t] = "item"
        /\ \A u \in Thread : u # t => pc'[w][u] = pc[w][u]
        /\ \A v \in Worker : v # w => pc'[v] = pc[v]
    BY <1>4, Jump, Labels DEF InLoop
  <2>6. /\ last' \in [Worker -> 0..MaxEvents] /\ last'[w] = lastId
        /\ \A v \in Worker : v # w => last'[v] = last[v]
    BY <1>4 DEF TypeOK
  <2>7. TypeOK'
    BY <1>1, <2>4, <2>5, <2>6, Zenon DEF TypeOK, shm, Local
  <2>8. (\A v \in Worker : v # w => Same(v)) /\ lastId <= lastId'
    <3>1. lastId \in Int
      BY DEF TypeOK
    <3>2. QED
      BY <1>1, <1>2, <2>4, <2>5, <2>6, <3>1 DEF Same
  <2>9. Moves(w, t, "item")
    BY <1>1, <1>2, <2>4, <2>5 DEF Moves
  <2>10. \A u \in Thread : pc[w][u] \notin InLoop
    <3>1. \A u \in Thread : pc[w][u] \notin Asleep
      BY <1>4 DEF WorkerInv, Flagged
    <3>2. \A u \in Thread : pc[w][u] # "item"
      BY <1>1 DEF Turn, Yielded
    <3>3. QED
      BY <3>1, <3>2 DEF InLoop, Asleep
  <2>11. Met(w, last[w])
    BY <1>2, <2>10 DEF WorkerInv, Frontier
  <2>12. Current(w, t)' - 1 = last[w]
    BY <1>2, <2>3, <2>4, <2>6, Numbers DEF Current
  <2>13. Met(w, Current(w, t) - 1)'
    BY <1>1, <2>11, <2>12 DEF Met
  <2>14. /\ base[w] + loc'[w][t].count <= last'[w]
         /\ loc'[w][t].idx <= loc'[w][t].count + 1
    BY <2>1, <2>2, <2>3, <2>4, <2>6, Numbers
  <2>15. "item" \in InLoop /\ "item" \notin Asleep /\ last'[w] <= lastId'
    BY <1>2, <2>6, Numbers DEF InLoop, Asleep
  <2>16. WorkerInv(w)'
    BY <1>1, <2>7, <2>9, <2>10, <2>13, <2>14, <2>15, Inside
  <2>17. QED
    BY <2>7, <2>8, <2>16, Zenon DEF Keeps
<1>5. QED
  BY <1>3, <1>4, Zenon DEF poll

\* The walk is over and poll calls itself.
LEMMA againKeeps ==
  ASSUME TypeOK, NEW w \in Worker, WorkerInv(w), NEW t \in Thread, again(w, t)
  PROVE  Keeps(w)
<1>1. /\ Turn(w, t) /\ pc[w][t] = "item" /\ loc[w][t].idx > loc[w][t].count
      /\ loc' = [loc EXCEPT ![w][t] = Fresh] /\ Goto(w, t, "poll")
      /\ UNCHANGED <<shm, state, timer, last, busy, fate, base, expiries, faults>>
  BY DEF again
<1>2. /\ loc' \in [Worker -> [Thread -> Local]] /\ loc'[w][t] = Fresh
      /\ \A u \in Thread : u # t => loc'[w][u] = loc[w][u]
      /\ \A v \in Worker : v # w => loc'[v] = loc[v]
  BY <1>1, FreshType, SetLocal
<1>3. /\ pc' \in [Worker -> [Thread -> Label]] /\ pc'[w][t] = "poll"
      /\ \A u \in Thread : u # t => pc'[w][u] = pc[w][u]
      /\ \A v \in Worker : v # w => pc'[v] = pc[v]
  BY <1>1, Jump, Labels
<1>4. TypeOK'
  BY <1>1, <1>2, <1>3, Zenon DEF TypeOK, shm, Local
<1>5. (\A v \in Worker : v # w => Same(v)) /\ lastId' = lastId
  BY <1>1, <1>2, <1>3 DEF Same, shm
<1>6. Moves(w, t, "poll")
  BY <1>1, <1>2, <1>3 DEF Moves, WorkerInv, Silent
<1>7. WorkerInv(w)'
  BY <1>1, <1>2, <1>4, <1>5, <1>6, LoopOver
<1>8. lastId <= lastId'
  BY <1>5 DEF TypeOK
<1>9. QED
  BY <1>4, <1>5, <1>7, <1>8, Zenon DEF Keeps

\* A walk that is not over stands at an event the worker has not met, and
\* behind it lies all the worker has met.
LEMMA AtNumber ==
  ASSUME TypeOK, NEW w \in Worker, WorkerInv(w), NEW t \in Thread,
         pc[w][t] \in {"item", "wait", "handle"}, loc[w][t].idx <= loc[w][t].count
  PROVE  /\ Current(w, t) \in Id /\ base[w] < Current(w, t) /\ Current(w, t) <= last[w]
         /\ pc[w][t] # "handle" => Met(w, Current(w, t) - 1)
         /\ pc[w][t] # "handle" => fate[w][Current(w, t)] = "none"
         /\ \A u \in Thread : u # t => pc[w][u] \notin InLoop
         /\ last[w] <= lastId /\ base[w] + loc[w][t].count <= last[w]
         /\ state[w] # "down"
<1>1. pc[w][t] \in InLoop
  BY DEF InLoop
<1>2. /\ base[w] + loc[w][t].count <= last[w] /\ last[w] <= lastId
  BY <1>1 DEF WorkerInv, InRange, Ordered
<1>3. base[w] < Current(w, t) /\ Current(w, t) <= last[w]
  BY <1>2, Numbers DEF Current
<1>4. Current(w, t) \in Id
  BY <1>2, <1>3, Numbers DEF Id
<1>5. pc[w][t] # "handle" => Met(w, Current(w, t) - 1)
  BY DEF WorkerInv, Frontier
<1>6. pc[w][t] # "handle" => fate[w][Current(w, t)] = "none"
  BY <1>4, <1>5, Numbers DEF Met
<1>7. (\A u \in Thread : u # t => pc[w][u] \notin InLoop) /\ state[w] # "down"
  BY <1>1 DEF WorkerInv, Single, Silent
<1>8. QED
  BY <1>2, <1>3, <1>4, <1>5, <1>6, <1>7

\* One event is met.
LEMMA DecideFacts ==
  ASSUME TypeOK, NEW w \in Worker, NEW i \in Id,
         NEW f \in {"ran", "skipped", "dropped"}, Decide(w, i, f),
         base[w] < i, Met(w, i - 1)
  PROVE  /\ fate' \in [Worker -> [Id -> {"none", "ran", "skipped", "dropped"}]]
         /\ \A v \in Worker : v # w => fate'[v] = fate[v]
         /\ fate'[w][i] = f /\ \A j \in Id : j # i => fate'[w][j] = fate[w][j]
         /\ \A j \in Id : fate'[w][j] # "none" <=> base[w] < j /\ j <= i
<1>1. /\ fate' \in [Worker -> [Id -> {"none", "ran", "skipped", "dropped"}]]
      /\ \A v \in Worker : v # w => fate'[v] = fate[v]
      /\ fate'[w][i] = f /\ \A j \in Id : j # i => fate'[w][j] = fate[w][j]
  BY DEF TypeOK, Decide
<1>2. \A j \in Id : fate'[w][j] # "none" <=> base[w] < j /\ j <= i
  <2>1. ASSUME NEW j \in Id, j # i
        PROVE  j <= i <=> j <= i - 1
    BY <2>1 DEF Id
  <2>2. i <= i
    BY DEF Id
  <2>3. QED
    BY <1>1, <2>1, <2>2 DEF Met
<1>3. QED
  BY <1>1, <1>2

\* The handlers run: the flag is up, the walk stays where it is.
LEMMA RunKeeps ==
  ASSUME TypeOK, NEW w \in Worker, WorkerInv(w), NEW t \in Thread,
         pc[w][t] \in {"item", "wait"}, loc[w][t].idx <= loc[w][t].count,
         Decide(w, Current(w, t), "ran"), busy' = [busy EXCEPT ![w] = TRUE],
         Goto(w, t, "handle"), one' \subseteq Unique,
         UNCHANGED <<loc, lastId, data, uniq, state, timer, last, base, expiries, faults>>
  PROVE  Keeps(w)
<1>1. PICK i \in Id : i = Current(w, t)
  BY AtNumber
<1>2. /\ base[w] < i /\ i <= last[w] /\ Met(w, i - 1) /\ Decide(w, i, "ran")
      /\ \A u \in Thread : u # t => pc[w][u] \notin InLoop
      /\ last[w] <= lastId /\ base[w] + loc[w][t].count <= last[w]
      /\ state[w] # "down"
  BY <1>1, AtNumber
<1>3. /\ fate' \in [Worker -> [Id -> {"none", "ran", "skipped", "dropped"}]]
      /\ \A v \in Worker : v # w => fate'[v] = fate[v]
      /\ \A j \in Id : fate'[w][j] # "none" <=> base[w] < j /\ j <= i
  BY <1>2, DecideFacts
<1>4. /\ pc' \in [Worker -> [Thread -> Label]] /\ pc'[w][t] = "handle"
      /\ \A u \in Thread : u # t => pc'[w][u] = pc[w][u]
      /\ \A v \in Worker : v # w => pc'[v] = pc[v]
  BY Jump, Labels DEF InLoop
<1>5. /\ busy' \in [Worker -> BOOLEAN] /\ busy'[w] = TRUE
      /\ \A v \in Worker : v # w => busy'[v] = busy[v]
  BY Zenon DEF TypeOK
<1>6. TypeOK'
  BY <1>3, <1>4, <1>5, Zenon DEF TypeOK
<1>7. (\A v \in Worker : v # w => Same(v)) /\ lastId <= lastId'
  <2>1. lastId \in Int
    BY DEF TypeOK
  <2>2. QED
    BY <1>3, <1>4, <1>5, <2>1 DEF Same
<1>8. Moves(w, t, "handle")
  BY <1>2, <1>4 DEF Moves
<1>9. Met(w, Current(w, t))'
  <2>1. Current(w, t)' = i
    BY <1>1 DEF Current
  <2>2. QED
    BY <1>3, <2>1 DEF Met
<1>10. /\ last'[w] <= lastId' /\ base[w] + loc'[w][t].count <= last'[w]
       /\ loc'[w][t].idx <= loc'[w][t].count + 1
       /\ loc'[w][t].idx <= loc'[w][t].count
       /\ "handle" \in InLoop /\ "handle" \in Yielded
  BY <1>2, Numbers DEF InLoop, Yielded
<1>11. WorkerInv(w)'
  BY <1>2, <1>5, <1>6, <1>8, <1>9, <1>10, Inside
<1>12. QED
  BY <1>6, <1>7, <1>11, Zenon DEF Keeps

\* The walk goes on to the next number.
LEMMA ForwardKeeps ==
  ASSUME TypeOK, NEW w \in Worker, WorkerInv(w), NEW t \in Thread, Turn(w, t),
         pc[w][t] \in {"item", "wait", "handle"}, loc[w][t].idx <= loc[w][t].count,
         NEW late \in BOOLEAN, loc' = [loc EXCEPT ![w][t] = Onward(@, late)],
         busy' = [busy EXCEPT ![w] = FALSE], Goto(w, t, "item"),
         fate' \in [Worker -> [Id -> {"none", "ran", "skipped", "dropped"}]],
         \A v \in Worker : v # w => fate'[v] = fate[v],
         \A j \in Id : fate'[w][j] # "none" <=> base[w] < j /\ j <= Current(w, t),
         one' \subseteq Unique, faults' \in 0..MaxFaults,
         UNCHANGED <<lastId, data, uniq, state, timer, last, base, expiries>>
  PROVE  Keeps(w)
<1>1. /\ Current(w, t) <= last[w]
      /\ \A u \in Thread : u # t => pc[w][u] \notin InLoop
      /\ last[w] <= lastId /\ base[w] + loc[w][t].count <= last[w]
      /\ state[w] # "down"
  BY AtNumber
<1>2. loc[w][t].idx <= MaxEvents
  <2>1. loc[w][t].count \in 0..MaxEvents
    BY DEF TypeOK
  <2>2. QED
    BY <2>1, Numbers
<1>3. /\ loc' \in [Worker -> [Thread -> Local]]
      /\ loc'[w][t].idx = loc[w][t].idx + 1
      /\ loc'[w][t].count = loc[w][t].count
      /\ \A u \in Thread : u # t => loc'[w][u] = loc[w][u]
      /\ \A v \in Worker : v # w => loc'[v] = loc[v]
  BY <1>2, NextNumber
<1>4. /\ pc' \in [Worker -> [Thread -> Label]] /\ pc'[w][t] = "item"
      /\ \A u \in Thread : u # t => pc'[w][u] = pc[w][u]
      /\ \A v \in Worker : v # w => pc'[v] = pc[v]
  BY Jump, Labels DEF InLoop
<1>5. /\ busy' \in [Worker -> BOOLEAN]
      /\ \A v \in Worker : v # w => busy'[v] = busy[v]
  BY Zenon DEF TypeOK
<1>6. TypeOK'
  BY <1>3, <1>4, <1>5, Zenon DEF TypeOK, Local
<1>7. (\A v \in Worker : v # w => Same(v)) /\ lastId <= lastId'
  <2>1. lastId \in Int
    BY DEF TypeOK
  <2>2. QED
    BY <1>3, <1>4, <1>5, <2>1 DEF Same
<1>8. Moves(w, t, "item")
  BY <1>1, <1>3, <1>4 DEF Moves
<1>9. Met(w, Current(w, t) - 1)'
  <2>1. Current(w, t)' - 1 = Current(w, t)
    BY <1>3, Numbers DEF Current
  <2>2. QED
    BY <2>1 DEF Met
<1>10. /\ last'[w] <= lastId' /\ base[w] + loc'[w][t].count <= last'[w]
       /\ loc'[w][t].idx <= loc'[w][t].count + 1
       /\ "item" \in InLoop /\ "item" \notin Asleep
  BY <1>1, <1>3, Numbers DEF InLoop, Asleep
<1>11. WorkerInv(w)'
  BY <1>1, <1>6, <1>8, <1>9, <1>10, Inside
<1>12. QED
  BY <1>6, <1>7, <1>11, Zenon DEF Keeps

\* mine_to_have leaves only values of unique among the keys.
LEMMA mine_to_haveType ==
  ASSUME TypeOK, NEW w \in Worker, NEW i \in Id, mine_to_have(w, i)
  PROVE  one' \subseteq Unique
<1>1. uniq[i] \in Unique \cup {None} /\ one \subseteq Unique
  BY DEF TypeOK
<1>2. one' = one \cup ({uniq[i]} \ {None})
  BY DEF mine_to_have
<1>3. QED
  BY <1>1, <1>2

\* do_event_json at the number of the walk, from the cache or after a wait.
LEMMA do_event_jsonKeeps ==
  ASSUME TypeOK, NEW w \in Worker, WorkerInv(w), NEW t \in Thread, Turn(w, t),
         pc[w][t] \in {"item", "wait"}, loc[w][t].idx <= loc[w][t].count,
         do_event_json(w, t, Current(w, t)),
         UNCHANGED <<lastId, data, uniq, state, timer, last, base, expiries>>
  PROVE  Keeps(w)
<1>1. PICK i \in Id : i = Current(w, t)
  BY AtNumber
<1>2. /\ do_event_json(w, t, i) /\ base[w] < i /\ Met(w, i - 1)
  BY <1>1, AtNumber
<1>3. CASE /\ mine_to_have(w, i)
           /\ Decide(w, i, "ran")
           /\ busy' = [busy EXCEPT ![w] = TRUE]
           /\ Goto(w, t, "handle")
           /\ UNCHANGED <<loc, faults>>
  BY <1>1, <1>3, mine_to_haveType, RunKeeps
<1>4. CASE /\ Fault(uniq[i] \notin one) /\ Decide(w, i, "skipped")
           /\ Advance(w, t) /\ UNCHANGED one
  <2>1. PICK late \in BOOLEAN : loc' = [loc EXCEPT ![w][t] = Onward(@, late)]
    <3>1. loc[w][t].late \in BOOLEAN
      BY DEF TypeOK
    <3>2. PICK late \in {loc[w][t].late, TRUE} :
             loc' = [loc EXCEPT ![w][t] = Onward(@, late)]
      BY <1>4, Zenon DEF Advance
    <3>3. late \in BOOLEAN
      BY <3>1, <3>2, Zenon
    <3>4. QED
      BY <3>2, <3>3, Zenon
  <2>2. /\ fate' \in [Worker -> [Id -> {"none", "ran", "skipped", "dropped"}]]
        /\ \A v \in Worker : v # w => fate'[v] = fate[v]
        /\ \A j \in Id : fate'[w][j] # "none" <=> base[w] < j /\ j <= Current(w, t)
    BY <1>1, <1>2, <1>4, DecideFacts
  <2>3. one' \subseteq Unique /\ busy' = [busy EXCEPT ![w] = FALSE] /\ Goto(w, t, "item")
    BY <1>4, Zenon DEF Advance, TypeOK
  <2>4. faults' \in 0..MaxFaults
    <3>1. (uniq[i] \notin one) \in BOOLEAN
      OBVIOUS
    <3>2. QED
      BY <1>4, <3>1, FaultType
  <2>5. QED
    BY <2>1, <2>2, <2>3, <2>4, ForwardKeeps, Zenon
<1>5. QED
  BY <1>2, <1>3, <1>4, Zenon DEF do_event_json

\* The event at the number of the walk is dropped.
LEMMA DropKeeps ==
  ASSUME TypeOK, NEW w \in Worker, WorkerInv(w), NEW t \in Thread, Turn(w, t),
         pc[w][t] \in {"item", "wait"}, loc[w][t].idx <= loc[w][t].count,
         Drop(w, t, Current(w, t)),
         UNCHANGED <<lastId, data, uniq, state, timer, last, base, expiries>>
  PROVE  Keeps(w)
<1>1. PICK i \in Id : i = Current(w, t)
  BY AtNumber
<1>2. /\ Drop(w, t, i) /\ base[w] < i /\ Met(w, i - 1)
  BY <1>1, AtNumber
<1>3. /\ fate' \in [Worker -> [Id -> {"none", "ran", "skipped", "dropped"}]]
      /\ \A v \in Worker : v # w => fate'[v] = fate[v]
      /\ \A j \in Id : fate'[w][j] # "none" <=> base[w] < j /\ j <= Current(w, t)
  BY <1>1, <1>2, DecideFacts DEF Drop
<1>4. /\ one' \subseteq Unique /\ faults' \in 0..MaxFaults /\ busy' = [busy EXCEPT ![w] = FALSE]
      /\ Goto(w, t, "item") /\ loc' = [loc EXCEPT ![w][t] = Onward(@, TRUE)]
  BY <1>2, Zenon DEF Drop, TypeOK
<1>5. QED
  BY <1>3, <1>4, ForwardKeeps, Zenon

\* One turn of the for loop of poll (events.lua:316-348).
LEMMA itemKeeps ==
  ASSUME TypeOK, NEW w \in Worker, WorkerInv(w), NEW t \in Thread, item(w, t)
  PROVE  Keeps(w)
<1>1. /\ Turn(w, t) /\ pc[w][t] = "item" /\ loc[w][t].idx <= loc[w][t].count
      /\ UNCHANGED <<lastId, data, uniq, state, timer, last, base, expiries>>
  BY DEF item
<1>2. CASE do_event_json(w, t, Current(w, t))
  BY <1>1, <1>2, do_event_jsonKeeps
<1>3. CASE Drop(w, t, Current(w, t))
  BY <1>1, <1>3, DropKeeps
<1>4. CASE /\ Current(w, t) \notin loc[w][t].cache
           /\ busy' = [busy EXCEPT ![w] = TRUE]
           /\ Goto(w, t, "wait")
           /\ UNCHANGED <<loc, fate, one, faults>>
  <2>1. /\ \A u \in Thread : u # t => pc[w][u] \notin InLoop
        /\ last[w] <= lastId /\ base[w] + loc[w][t].count <= last[w]
        /\ state[w] # "down" /\ Met(w, Current(w, t) - 1)
    BY <1>1, AtNumber
  <2>2. /\ pc' \in [Worker -> [Thread -> Label]] /\ pc'[w][t] = "wait"
        /\ \A u \in Thread : u # t => pc'[w][u] = pc[w][u]
        /\ \A v \in Worker : v # w => pc'[v] = pc[v]
    BY <1>4, Jump, Labels DEF InLoop
  <2>3. /\ busy' \in [Worker -> BOOLEAN] /\ busy'[w] = TRUE
        /\ \A v \in Worker : v # w => busy'[v] = busy[v]
    BY <1>4, Zenon DEF TypeOK
  <2>4. TypeOK'
    BY <1>1, <1>4, <2>2, <2>3, Zenon DEF TypeOK
  <2>5. (\A v \in Worker : v # w => Same(v)) /\ lastId <= lastId'
    <3>1. lastId \in Int
      BY DEF TypeOK
    <3>2. QED
      BY <1>1, <1>4, <2>2, <2>3, <3>1 DEF Same
  <2>6. Moves(w, t, "wait")
    BY <1>1, <1>4, <2>1, <2>2 DEF Moves
  <2>7. Current(w, t)' = Current(w, t)
    BY <1>1, <1>4 DEF Current
  <2>8. Met(w, Current(w, t) - 1)'
    BY <1>1, <1>4, <2>1, <2>7 DEF Met
  <2>9. /\ last'[w] <= lastId' /\ base[w] + loc'[w][t].count <= last'[w]
        /\ loc'[w][t].idx <= loc'[w][t].count + 1
        /\ loc'[w][t].idx <= loc'[w][t].count
        /\ "wait" \in InLoop /\ "wait" \in Yielded
    BY <1>1, <1>4, <2>1, Numbers DEF InLoop, Yielded
  <2>10. WorkerInv(w)'
    BY <1>4, <2>1, <2>3, <2>4, <2>6, <2>7, <2>8, <2>9, Inside
  <2>11. QED
    BY <2>4, <2>5, <2>10, Zenon DEF Keeps
<1>5. QED
  BY <1>2, <1>3, <1>4, Zenon DEF item

\* The sleep ends (events.lua:336).
LEMMA wakeKeeps ==
  ASSUME TypeOK, NEW w \in Worker, WorkerInv(w), NEW t \in Thread, wake(w, t)
  PROVE  Keeps(w)
<1>1. /\ Turn(w, t) /\ pc[w][t] = "wait"
      /\ UNCHANGED <<lastId, data, uniq, state, timer, last, base, expiries>>
  BY DEF wake
<1>2. loc[w][t].idx <= loc[w][t].count
  BY <1>1 DEF WorkerInv, InRange, InLoop, Asleep
<1>3. CASE do_event_json(w, t, Current(w, t))
  BY <1>1, <1>2, <1>3, do_event_jsonKeeps
<1>4. CASE Drop(w, t, Current(w, t))
  BY <1>1, <1>2, <1>4, DropKeeps
<1>5. QED
  BY <1>3, <1>4, Zenon DEF wake

\* The handlers return (events.lua:342-343).
LEMMA handledKeeps ==
  ASSUME TypeOK, NEW w \in Worker, WorkerInv(w), NEW t \in Thread, handled(w, t)
  PROVE  Keeps(w)
<1>1. /\ Turn(w, t) /\ pc[w][t] = "handle" /\ Advance(w, t)
      /\ UNCHANGED <<shm, state, timer, last, fate, base, expiries, faults>>
  BY DEF handled
<1>2. loc[w][t].idx <= loc[w][t].count
  BY <1>1 DEF WorkerInv, InRange, InLoop, Asleep
<1>3. PICK late \in BOOLEAN : loc' = [loc EXCEPT ![w][t] = Onward(@, late)]
  <2>1. loc[w][t].late \in BOOLEAN
    BY DEF TypeOK
  <2>2. PICK late \in {loc[w][t].late, TRUE} :
           loc' = [loc EXCEPT ![w][t] = Onward(@, late)]
    BY <1>1, Zenon DEF Advance
  <2>3. late \in BOOLEAN
    BY <2>1, <2>2, Zenon
  <2>4. QED
    BY <2>2, <2>3, Zenon
<1>4. /\ fate' \in [Worker -> [Id -> {"none", "ran", "skipped", "dropped"}]]
      /\ \A v \in Worker : v # w => fate'[v] = fate[v]
      /\ \A j \in Id : fate'[w][j] # "none" <=> base[w] < j /\ j <= Current(w, t)
  <2>1. Met(w, Current(w, t))
    BY <1>1 DEF WorkerInv, Frontier
  <2>2. QED
    BY <1>1, <2>1, Zenon DEF Met, TypeOK
<1>5. /\ one' \subseteq Unique /\ faults' \in 0..MaxFaults /\ busy' = [busy EXCEPT ![w] = FALSE]
      /\ Goto(w, t, "item") /\ lastId' = lastId /\ data' = data /\ uniq' = uniq
  BY <1>1, Zenon DEF Advance, shm, TypeOK
<1>6. QED
  BY <1>1, <1>2, <1>3, <1>4, <1>5, ForwardKeeps, Zenon

\* A coroutine of the timer outside the loop goes on; its worker may change
\* its state and its timer.
LEMMA TimerKeeps ==
  ASSUME TypeOK, NEW w \in Worker, WorkerInv(w),
         NEW l \in {"out", "post", "poll"}, Goto(w, "timer", l),
         pc[w]["timer"] \notin InLoop, l = "out" \/ Turn(w, "timer"),
         state[w] # "down",
         state' \in [Worker -> {"down", "up", "exiting", "stopping", "stopped"}],
         state'[w] # "down", \A v \in Worker : v # w => state'[v] = state[v],
         timer' \in [Worker -> BOOLEAN], faults' \in 0..MaxFaults,
         \A v \in Worker : v # w => timer'[v] = timer[v],
         UNCHANGED <<shm, last, busy, loc, fate, base, expiries>>
  PROVE  Keeps(w)
<1>1. l \in Label \ InLoop /\ l # "add" /\ "timer" \in Thread
  BY DEF Label, Yielded, InLoop, Thread
<1>2. /\ pc' \in [Worker -> [Thread -> Label]] /\ pc'[w]["timer"] = l
      /\ \A u \in Thread : u # "timer" => pc'[w][u] = pc[w][u]
      /\ \A v \in Worker : v # w => pc'[v] = pc[v]
  BY <1>1, Jump
<1>3. TypeOK'
  BY <1>2, Zenon DEF TypeOK, shm
<1>4. (\A v \in Worker : v # w => Same(v)) /\ lastId <= lastId'
  <2>1. lastId \in Int
    BY DEF TypeOK
  <2>2. QED
    BY <1>2, <2>1 DEF Same, shm
<1>5. Moves(w, "timer", l)
  BY <1>2 DEF Moves
<1>6. l \in Yielded \/ Turn(w, "timer")
  BY DEF Yielded
<1>7. WorkerInv(w)'
  BY <1>1, <1>3, <1>4, <1>5, <1>6, Outside
<1>8. QED
  BY <1>3, <1>4, <1>7, Zenon DEF Keeps

\* The timer fires (events.lua:355-362).
LEMMA do_timerKeeps ==
  ASSUME TypeOK, NEW w \in Worker, WorkerInv(w), do_timer(w)
  PROVE  Keeps(w)
<1> DEFINE l == IF state[w] = "exiting" THEN "post" ELSE "poll"
<1>1. /\ timer[w] /\ pc[w]["timer"] = "out" /\ Turn(w, "timer")
      /\ timer' = [timer EXCEPT ![w] = FALSE]
      /\ Goto(w, "timer", l)
      /\ state' = [state EXCEPT ![w] = IF @ = "exiting" THEN "stopping" ELSE @]
      /\ UNCHANGED <<shm, last, busy, loc, fate, base, expiries, faults>>
  BY Zenon DEF do_timer
<1>2. state[w] # "down"
  BY <1>1, Zenon DEF WorkerInv, Silent
<1>3. /\ state' \in [Worker -> {"down", "up", "exiting", "stopping", "stopped"}]
      /\ state'[w] # "down" /\ \A v \in Worker : v # w => state'[v] = state[v]
  BY <1>1, <1>2 DEF TypeOK
<1>4. /\ timer' \in [Worker -> BOOLEAN] /\ faults' \in 0..MaxFaults
      /\ \A v \in Worker : v # w => timer'[v] = timer[v]
  BY <1>1, Zenon DEF TypeOK
<1>5. l \in {"out", "post", "poll"}
  OBVIOUS
<1>6. pc[w]["timer"] \notin InLoop
  BY <1>1 DEF InLoop
<1> HIDE DEF l
<1>7. QED
  BY <1>1, <1>2, <1>3, <1>4, <1>5, <1>6, TimerKeeps

\* The end of do_timer (events.lua:364-375).
LEMMA rearmKeeps ==
  ASSUME TypeOK, NEW w \in Worker, WorkerInv(w), rearm(w)
  PROVE  Keeps(w)
<1>1. /\ pc[w]["timer"] = "rearm" /\ "timer" \in Thread
      /\ UNCHANGED <<shm, last, busy, loc, fate, base, expiries>>
  BY DEF rearm, Thread
<1>2. /\ pc[w]["timer"] \notin InLoop /\ state[w] # "down" /\ Turn(w, "timer")
  BY <1>1 DEF InLoop, WorkerInv, Silent, Exclusive, Turn, Yielded
<1>3. CASE /\ state[w] = "up"
           /\ \E created \in BOOLEAN :
                Fault(~created) /\ timer' = [timer EXCEPT ![w] = created]
           /\ Goto(w, "timer", "out")
           /\ UNCHANGED state
  <2>1. PICK created \in BOOLEAN :
           Fault(~created) /\ timer' = [timer EXCEPT ![w] = created]
    BY <1>3, Zenon
  <2>2. /\ timer' \in [Worker -> BOOLEAN]
        /\ \A v \in Worker : v # w => timer'[v] = timer[v]
    BY <2>1, Zenon DEF TypeOK
  <2>3. faults' \in 0..MaxFaults
    BY <2>1, FaultType, Zenon
  <2>4. state' \in [Worker -> {"down", "up", "exiting", "stopping", "stopped"}]
    BY <1>3, Zenon DEF TypeOK
  <2>5. QED
    BY <1>1, <1>2, <1>3, <2>2, <2>3, <2>4, TimerKeeps, Zenon
<1>4. CASE /\ state[w] = "exiting"
           /\ state' = [state EXCEPT ![w] = "stopped"]
           /\ Goto(w, "timer", "post")
           /\ UNCHANGED <<timer, faults>>
  <2>1. /\ state' \in [Worker -> {"down", "up", "exiting", "stopping", "stopped"}]
        /\ state'[w] # "down" /\ \A v \in Worker : v # w => state'[v] = state[v]
    BY <1>4 DEF TypeOK
  <2>2. timer' \in [Worker -> BOOLEAN] /\ faults' \in 0..MaxFaults
    BY <1>4, Zenon DEF TypeOK
  <2>3. QED
    BY <1>1, <1>2, <1>4, <2>1, <2>2, TimerKeeps, Zenon
<1>5. CASE /\ state[w] \in {"stopping", "stopped"}
           /\ Goto(w, "timer", "out")
           /\ UNCHANGED <<state, timer, faults>>
  <2>1. /\ state' \in [Worker -> {"down", "up", "exiting", "stopping", "stopped"}]
        /\ timer' \in [Worker -> BOOLEAN] /\ faults' \in 0..MaxFaults
    BY <1>5, Zenon DEF TypeOK
  <2>2. QED
    BY <1>1, <1>2, <1>5, <2>1, TimerKeeps, Zenon
<1>6. QED
  BY <1>3, <1>4, <1>5, Zenon DEF rearm

\* A new process.
LEMMA configureKeeps ==
  ASSUME TypeOK, NEW w \in Worker, WorkerInv(w), configure(w)
  PROVE  Keeps(w)
<1>1. /\ state' \in [Worker -> {"down", "up", "exiting", "stopping", "stopped"}]
      /\ last' \in [Worker -> 0..MaxEvents] /\ base' \in [Worker -> 0..MaxEvents]
      /\ fate' \in [Worker -> [Id -> {"none", "ran", "skipped", "dropped"}]]
  BY DEF TypeOK, configure
<1>2. /\ pc' \in [Worker -> [Thread -> Label]]
      /\ \A v \in Worker : v # w => pc'[v] = pc[v]
  BY Jump, Labels DEF configure
<1>3. TypeOK'
  BY <1>1, <1>2, Zenon DEF TypeOK, configure, shm
<1>4. (\A v \in Worker : v # w => Same(v)) /\ lastId <= lastId'
  <2>1. lastId \in Int
    BY DEF TypeOK
  <2>2. QED
    BY <1>2, <2>1 DEF Same, configure, shm, TypeOK
<1>5. QED
  BY <1>3, <1>4, Configured, Zenon DEF Keeps

\* A process is told to exit.
LEMMA QuitKeeps ==
  ASSUME TypeOK, NEW w \in Worker, WorkerInv(w), Quit(w)
  PROVE  Keeps(w)
<1>1. /\ state' \in [Worker -> {"down", "up", "exiting", "stopping", "stopped"}]
      /\ state[w] = "up" /\ state'[w] = "exiting"
      /\ \A v \in Worker : v # w => state'[v] = state[v]
  BY DEF TypeOK, Quit
<1>2. UNCHANGED <<shm, timer, last, busy, pc, loc, fate, base, expiries, faults>>
  BY DEF Quit
<1>3. TypeOK'
  BY <1>1, <1>2, Zenon DEF TypeOK, shm
<1>4. (\A v \in Worker : v # w => Same(v)) /\ lastId <= lastId'
  <2>1. lastId \in Int
    BY DEF TypeOK
  <2>2. QED
    BY <1>1, <1>2, <2>1 DEF Same, shm
<1>5. WorkerInv(w)'
  <2>1. Ordered(w)' /\ Silent(w)' /\ Exclusive(w)' /\ Flagged(w)' /\ Single(w)'
    BY <1>1, <1>2
    DEF WorkerInv, Ordered, Silent, Exclusive, Flagged, Single, shm
  <2>2. \A t \in Thread : Current(w, t)' = Current(w, t)
    BY <1>2 DEF Current
  <2>3. InRange(w)' /\ Numbered(w)' /\ Cached(w)'
    BY <1>2, <2>2 DEF WorkerInv, InRange, Numbered, Cached
  <2>4. Frontier(w)'
    BY <1>1, <1>2, <2>2 DEF WorkerInv, Frontier, Met
  <2>5. QED
    BY <2>1, <2>3, <2>4, Zenon DEF WorkerInv
<1>6. QED
  BY <1>3, <1>4, <1>5, Zenon DEF Keeps

\* The end of a process, by Exit or by Crash.
LEMMA ResetKeeps ==
  ASSUME TypeOK, NEW w \in Worker, WorkerInv(w), Reset(w), faults' \in 0..MaxFaults
  PROVE  Keeps(w)
<1>1. /\ state' \in [Worker -> {"down", "up", "exiting", "stopping", "stopped"}]
      /\ pc' \in [Worker -> [Thread -> Label]]
  BY Labels DEF TypeOK, Reset
<1>2. timer' \in [Worker -> BOOLEAN] /\ busy' \in [Worker -> BOOLEAN]
  BY Zenon DEF TypeOK, Reset
<1>3. loc' \in [Worker -> [Thread -> Local]]
  <2>1. [t \in Thread |-> Fresh] \in [Thread -> Local]
    BY FreshType
  <2>2. QED
    BY <2>1, Zenon DEF TypeOK, Reset, Local
<1>4. TypeOK'
  BY <1>1, <1>2, <1>3, Zenon DEF TypeOK, Reset, shm, Local
<1>5. (\A v \in Worker : v # w => Same(v)) /\ lastId <= lastId'
  <2>1. lastId \in Int
    BY DEF TypeOK
  <2>2. QED
    BY <2>1 DEF Same, Reset, shm, TypeOK
<1>6. QED
  BY <1>4, <1>5, Ended, Zenon DEF Keeps

\* It ends when its work is done.
LEMMA ExitKeeps ==
  ASSUME TypeOK, NEW w \in Worker, WorkerInv(w), Exit(w)
  PROVE  Keeps(w)
<1>1. faults' \in 0..MaxFaults
  BY Zenon DEF Exit, TypeOK
<1>2. QED
  BY <1>1, ResetKeeps DEF Exit

\* It ends at any time.
LEMMA CrashKeeps ==
  ASSUME TypeOK, NEW w \in Worker, WorkerInv(w), Crash(w)
  PROVE  Keeps(w)
<1>1. faults' \in 0..MaxFaults
  BY FaultType DEF Crash
<1>2. QED
  BY <1>1, ResetKeeps DEF Crash

\* Whatever one worker does, its own part of the invariant and everybody
\* else's survive.
LEMMA KeepsIsEnough ==
  ASSUME TypeOK, \A v \in Worker : WorkerInv(v), NEW w \in Worker, Keeps(w)
  PROVE  TypeOK' /\ \A v \in Worker : WorkerInv(v)'
BY Others DEF Keeps

\* Every step keeps the types and the invariant of every worker.
LEMMA WorkersPreserved ==
  ASSUME TypeOK, \A v \in Worker : WorkerInv(v), [Next]_vars
  PROVE  TypeOK' /\ \A v \in Worker : WorkerInv(v)'
<1>1. ASSUME NEW w \in Worker, NEW t \in Thread, Step(w, t) \/ post(w, t)
      PROVE  Keeps(w)
  <2>1. WorkerInv(w)
    OBVIOUS
  <2>2. QED
    BY <1>1, <2>1, postOwnKeeps, addDataKeeps, pollKeeps, itemKeeps, againKeeps,
       wakeKeeps, handledKeeps, postKeeps DEF Step
<1>2. ASSUME NEW w \in Worker,
             do_timer(w) \/ rearm(w) \/ configure(w) \/ Quit(w) \/ Exit(w) \/ Crash(w)
      PROVE  Keeps(w)
  <2>1. WorkerInv(w)
    OBVIOUS
  <2>2. QED
    BY <1>2, <2>1, do_timerKeeps, rearmKeeps, configureKeeps, QuitKeeps, ExitKeeps,
       CrashKeeps
<1>3. ASSUME NEW u \in Unique, OneExpires(u)
      PROVE  TypeOK' /\ \A v \in Worker : WorkerInv(v)'
  <2>1. expiries' \in 0..MaxExpiries /\ one' \subseteq Unique
    BY <1>3, BoundAssumption DEF OneExpires, TypeOK
  <2>2. TypeOK'
    BY <1>3, <2>1, Zenon DEF OneExpires, TypeOK, worker
  <2>3. (\A v \in Worker : Same(v)) /\ lastId <= lastId'
    <3>1. lastId \in Int
      BY DEF TypeOK
    <3>2. QED
      BY <1>3, <3>1 DEF OneExpires, Same, worker
  <2>4. QED
    BY <2>2, <2>3, Others
<1>4. ASSUME UNCHANGED vars
      PROVE  TypeOK' /\ \A v \in Worker : WorkerInv(v)'
  <2>1. TypeOK'
    BY <1>4, Zenon DEF vars, shm, worker, TypeOK
  <2>2. (\A v \in Worker : Same(v)) /\ lastId <= lastId'
    <3>1. lastId \in Int
      BY DEF TypeOK
    <3>2. QED
      BY <1>4, <3>1 DEF vars, shm, worker, Same
  <2>3. QED
    BY <2>1, <2>2, Others
<1>5. CASE Next
  <2>1. CASE \E w \in Worker : Keeps(w)
    BY <2>1, KeepsIsEnough
  <2>2. CASE \E u \in Unique : OneExpires(u)
    BY <1>3, <2>2
  <2>3. QED
    BY <1>1, <1>2, <1>5, <2>1, <2>2, Zenon DEF Next
<1>6. QED
  BY <1>4, <1>5

-----------------------------------------------------------------------------

\* The book of executions.

\* A step that runs nothing and gives no executed event another value.
NothingRuns == /\ one' = one /\ expiries' = expiries
               /\ \A v \in Worker, i \in Id :
                    fate'[v][i] = "ran" => fate[v][i] = "ran" /\ uniq'[i] = uniq[i]

\* Such a step leaves the book balanced.
LEMMA QuietAccounted ==
  ASSUME NEW u \in Unique, Accounted(u), NothingRuns, expiries \in Nat
  PROVE  Accounted(u)'
<1>1. Runs(u)' \subseteq Runs(u)
  BY DEF Runs, NothingRuns
<1>2. /\ IsFiniteSet(Runs(u)')
      /\ Cardinality(Runs(u)') <= Cardinality(Runs(u))
  BY <1>1, FS_Subset DEF Accounted
<1>3. Cardinality(Runs(u)') \in Nat /\ Cardinality(Runs(u)) \in Nat
  BY <1>2, FS_CardinalityType DEF Accounted
<1>4. QED
  BY <1>2, <1>3 DEF Accounted, NothingRuns

\* mine_to_have (events.lua:171-183): the key did not exist, so what was
\* executed before is paid for by expiries, and the new key pays for this one.
LEMMA RunAccounted ==
  ASSUME TypeOK, NEW u \in Unique, Accounted(u), NEW w \in Worker, NEW i \in Id,
         mine_to_have(w, i), uniq' = uniq, expiries' = expiries,
         \A v \in Worker, j \in Id :
           fate'[v][j] = "ran" => fate[v][j] = "ran" \/ (v = w /\ j = i)
  PROVE  Accounted(u)'
<1>1. expiries \in Nat
  BY BoundAssumption DEF TypeOK
<1>2. Runs(u)' \subseteq Runs(u) \cup (IF uniq[i] = u THEN {<<w, i>>} ELSE {})
  <2>1. ASSUME NEW r \in Worker \X Id, uniq[r[2]] = u, fate'[r[1]][r[2]] = "ran"
        PROVE  r \in Runs(u) \/ (uniq[i] = u /\ r = <<w, i>>)
    <3>1. r[1] \in Worker /\ r[2] \in Id /\ r = <<r[1], r[2]>>
      OBVIOUS
    <3>2. fate[r[1]][r[2]] = "ran" \/ (r[1] = w /\ r[2] = i)
      BY <2>1, <3>1
    <3>3. QED
      BY <2>1, <3>1, <3>2 DEF Runs
  <2>2. QED
    BY <2>1 DEF Runs
<1>3. IsFiniteSet(Runs(u)) /\ Cardinality(Runs(u)) \in Nat
  BY FS_CardinalityType DEF Accounted
<1>4. CASE uniq[i] # u
  <2>1. Runs(u)' \subseteq Runs(u)
    BY <1>2, <1>4
  <2>2. /\ IsFiniteSet(Runs(u)') /\ Cardinality(Runs(u)') <= Cardinality(Runs(u))
    BY <1>3, <2>1, FS_Subset
  <2>3. Cardinality(Runs(u)') \in Nat
    BY <2>2, FS_CardinalityType
  <2>4. u \in one => u \in one'
    BY DEF mine_to_have
  <2>5. QED
    BY <1>1, <1>3, <2>2, <2>3, <2>4 DEF Accounted
<1>5. CASE uniq[i] = u
  <2>1. Runs(u)' \subseteq Runs(u) \cup {<<w, i>>}
    BY <1>2, <1>5
  <2>2. /\ IsFiniteSet(Runs(u) \cup {<<w, i>>})
        /\ Cardinality(Runs(u) \cup {<<w, i>>}) <= Cardinality(Runs(u)) + 1
    <3>1. PICK x : x = <<w, i>>
      OBVIOUS
    <3>2. /\ IsFiniteSet(Runs(u) \cup {x})
          /\ Cardinality(Runs(u) \cup {x}) =
               IF x \in Runs(u) THEN Cardinality(Runs(u)) ELSE Cardinality(Runs(u)) + 1
      BY <1>3, FS_AddElement, Zenon
    <3>3. Cardinality(Runs(u) \cup {x}) <= Cardinality(Runs(u)) + 1
      BY <1>3, <3>2
    <3>4. QED
      BY <3>1, <3>2, <3>3, Zenon
  <2>3. /\ IsFiniteSet(Runs(u)')
        /\ Cardinality(Runs(u)') <= Cardinality(Runs(u) \cup {<<w, i>>})
    BY <2>1, <2>2, FS_Subset
  <2>4. Cardinality(Runs(u)') \in Nat /\ Cardinality(Runs(u) \cup {<<w, i>>}) \in Nat
    BY <2>2, <2>3, FS_CardinalityType
  <2>5. u \notin one /\ u \in one'
    BY <1>5, NoneAssumption DEF mine_to_have
  <2>6. QED
    BY <1>1, <1>3, <2>2, <2>3, <2>4, <2>5 DEF Accounted
<1>6. QED
  BY <1>4, <1>5

\* The two steps that decide about an event.
LEMMA DecidingAccounted ==
  ASSUME TypeOK, NEW w \in Worker, WorkerInv(w), NEW t \in Thread,
         item(w, t) \/ wake(w, t), \A u \in Unique : Accounted(u)
  PROVE  \A u \in Unique : Accounted(u)'
<1>1. /\ pc[w][t] \in {"item", "wait"} /\ loc[w][t].idx <= loc[w][t].count
      /\ uniq' = uniq /\ expiries' = expiries /\ expiries \in Nat
  BY BoundAssumption DEF item, wake, WorkerInv, InRange, InLoop, Asleep, TypeOK
<1>2. PICK i \in Id : i = Current(w, t)
  BY <1>1, AtNumber
<1>3. base[w] < i /\ Met(w, i - 1)
  BY <1>1, <1>2, AtNumber
<1>4. \/ mine_to_have(w, i) /\ Decide(w, i, "ran")
      \/ one' = one /\ (Decide(w, i, "skipped") \/ Decide(w, i, "dropped"))
      \/ one' = one /\ fate' = fate
  BY <1>2 DEF item, wake, do_event_json, Drop
<1>5. CASE mine_to_have(w, i) /\ Decide(w, i, "ran")
  <2>1. \A v \in Worker, j \in Id :
          fate'[v][j] = "ran" => fate[v][j] = "ran" \/ (v = w /\ j = i)
    BY <1>3, <1>5, DecideFacts
  <2>2. QED
    BY <1>1, <1>5, <2>1, RunAccounted
<1>6. CASE one' = one /\ (Decide(w, i, "skipped") \/ Decide(w, i, "dropped"))
  <2>1. PICK f \in {"skipped", "dropped"} : Decide(w, i, f)
    BY <1>6
  <2>2. \A v \in Worker, j \in Id : fate'[v][j] = "ran" => fate[v][j] = "ran"
    BY <1>3, <2>1, DecideFacts
  <2>3. NothingRuns
    BY <1>1, <1>6, <2>2 DEF NothingRuns
  <2>4. QED
    BY <1>1, <2>3, QuietAccounted
<1>7. CASE one' = one /\ fate' = fate
  <2>1. NothingRuns
    BY <1>1, <1>7 DEF NothingRuns
  <2>2. QED
    BY <1>1, <2>1, QuietAccounted
<1>8. QED
  BY <1>4, <1>5, <1>6, <1>7

\* A post gives a value to a number no worker has met.
LEMMA IncrQuiet ==
  ASSUME TypeOK, \A v \in Worker : WorkerInv(v), NEW w \in Worker, NEW t \in Thread,
         post(w, t) \/ postOwn(w, t)
  PROVE  NothingRuns
<1>1. fate' = fate /\ one' = one /\ expiries' = expiries
  BY DEF post, postOwn, Incr
<1>2. \E u \in Unique \cup {None} : uniq' = [uniq EXCEPT ![lastId + 1] = u]
  BY DEF post, postOwn, Incr
<1>3. \A v \in Worker, i \in Id : fate[v][i] # "none" => i # lastId + 1
  <2>1. ASSUME NEW v \in Worker, NEW i \in Id, fate[v][i] # "none"
        PROVE  i <= lastId
    <3>1. i <= last[v] /\ last[v] <= lastId
      BY <2>1 DEF WorkerInv, Frontier, Ordered
    <3>2. i \in Int
      BY DEF Id
    <3>3. QED
      BY <3>1, <3>2, Numbers
  <2>2. \A i \in Id : i <= lastId => i # lastId + 1
    BY DEF Id, TypeOK
  <2>3. QED
    BY <2>1, <2>2
<1>4. QED
  BY <1>1, <1>2, <1>3 DEF NothingRuns, TypeOK

\* No step breaks the book.
LEMMA BookPreserved ==
  ASSUME IInv, [Next]_vars
  PROVE  \A u \in Unique : Accounted(u)'
<1>1. TypeOK /\ (\A v \in Worker : WorkerInv(v)) /\ (\A u \in Unique : Accounted(u))
  BY DEF IInv
<1>2. expiries \in Nat
  BY <1>1, BoundAssumption DEF TypeOK
<1>3. ASSUME NEW w \in Worker, NEW t \in Thread, item(w, t) \/ wake(w, t)
      PROVE  \A u \in Unique : Accounted(u)'
  BY <1>1, <1>3, DecidingAccounted
<1>4. ASSUME NEW w \in Worker, NEW t \in Thread,
             \/ postOwn(w, t) \/ post(w, t)
             \/ addData(w, t) \/ poll(w, t) \/ again(w, t) \/ handled(w, t)
      PROVE  NothingRuns
  <2>1. CASE postOwn(w, t) \/ post(w, t)
    BY <1>1, <2>1, IncrQuiet
  <2>2. CASE addData(w, t) \/ poll(w, t) \/ again(w, t) \/ handled(w, t)
    BY <2>2 DEF addData, poll, again, handled, shm, NothingRuns
  <2>3. QED
    BY <1>4, <2>1, <2>2
<1>5. ASSUME NEW w \in Worker,
             do_timer(w) \/ rearm(w) \/ Quit(w) \/ Exit(w) \/ Crash(w)
      PROVE  NothingRuns
  BY <1>5 DEF do_timer, rearm, Quit, Exit, Crash, Reset, shm, NothingRuns
<1>6. ASSUME NEW w \in Worker, configure(w)
      PROVE  NothingRuns
  <2>1. \A v \in Worker, i \in Id : fate'[v][i] = "ran" => fate[v][i] = "ran"
    BY <1>1, <1>6 DEF configure, TypeOK
  <2>2. QED
    BY <1>6, <2>1 DEF configure, shm, NothingRuns
<1>7. ASSUME UNCHANGED vars
      PROVE  NothingRuns
  BY <1>7 DEF vars, shm, NothingRuns
<1>8. ASSUME NEW x \in Unique, OneExpires(x), NEW u \in Unique
      PROVE  Accounted(u)'
  <2>1. Runs(u)' = Runs(u)
    BY <1>8 DEF OneExpires, Runs
  <2>2. /\ expiries' = expiries + 1
        /\ u # x => (u \in one' <=> u \in one)
    BY <1>8 DEF OneExpires
  <2>3. IsFiniteSet(Runs(u)) /\ Cardinality(Runs(u)) \in Nat
    BY <1>1, FS_CardinalityType DEF Accounted
  <2>4. Cardinality(Runs(u)) <= expiries + 1
    BY <1>1, <1>2, <2>3 DEF Accounted
  <2>5. QED
    BY <1>2, <2>1, <2>2, <2>3, <2>4 DEF Accounted
<1>9. CASE NothingRuns
  BY <1>1, <1>2, <1>9, QuietAccounted
<1>10. QED
  BY <1>3, <1>4, <1>5, <1>6, <1>7, <1>8, <1>9, Zenon DEF Next, Step

\* Initially nothing has been posted.
LEMMA InitEstablishes == Init => IInv
<1> SUFFICES ASSUME Init PROVE IInv
  OBVIOUS
<1>1. 0 \in 0..MaxEvents /\ 0 \in 0..MaxExpiries /\ 0 \in 0..MaxFaults
  BY BoundAssumption
<1>2. TypeOK
  <2>1. /\ lastId \in 0..MaxEvents /\ data \subseteq Id /\ one \subseteq Unique
        /\ expiries \in 0..MaxExpiries /\ faults \in 0..MaxFaults
    BY <1>1 DEF Init
  <2>2. /\ uniq \in [Id -> Unique \cup {None}]
        /\ state \in [Worker -> {"down", "up", "exiting", "stopping", "stopped"}]
        /\ last \in [Worker -> 0..MaxEvents] /\ base \in [Worker -> 0..MaxEvents]
        /\ pc \in [Worker -> [Thread -> Label]]
        /\ fate \in [Worker -> [Id -> {"none", "ran", "skipped", "dropped"}]]
    BY <1>1, Labels DEF Init
  <2>3. timer \in [Worker -> BOOLEAN] /\ busy \in [Worker -> BOOLEAN]
    BY Zenon DEF Init
  <2>4. loc \in [Worker -> [Thread -> Local]]
    BY FreshType, Zenon DEF Init
  <2>5. QED
    BY <2>1, <2>2, <2>3, <2>4, Zenon DEF TypeOK, Local
<1>3. ASSUME NEW w \in Worker
      PROVE  WorkerInv(w)
  <2>1. /\ state[w] = "down" /\ timer[w] = FALSE /\ last[w] = 0 /\ base[w] = 0
        /\ lastId = 0 /\ \A i \in Id : fate[w][i] = "none"
        /\ \A t \in Thread : pc[w][t] = "out" /\ loc[w][t] = Fresh
    BY DEF Init
  <2>2. Ordered(w) /\ Silent(w)
    BY <2>1 DEF Ordered, Silent
  <2>3. Exclusive(w) /\ Flagged(w) /\ Single(w) /\ InRange(w)
    BY <2>1 DEF Exclusive, Yielded, Flagged, Asleep, Single, InLoop, InRange
  <2>4. Frontier(w)
    BY <2>1 DEF Frontier
  <2>5. Cached(w) /\ Numbered(w)
    BY <2>1, FreshType DEF Cached, Numbered
  <2>6. QED
    BY <2>2, <2>3, <2>4, <2>5, Zenon DEF WorkerInv
<1>4. ASSUME NEW u \in Unique
      PROVE  Accounted(u)
  <2>1. Runs(u) = {}
    BY DEF Init, Runs
  <2>2. QED
    BY <2>1, FS_EmptySet DEF Accounted, Init
<1>5. QED
  BY <1>2, <1>3, <1>4 DEF IInv

\* The invariant is inductive.
LEMMA NextPreserves ==
  ASSUME IInv, [Next]_vars
  PROVE  IInv'
<1>1. TypeOK' /\ \A v \in Worker : WorkerInv(v)'
  BY WorkersPreserved DEF IInv
<1>2. QED
  BY <1>1, BookPreserved DEF IInv

\* It holds in every reachable state.
LEMMA InvariantHolds == Spec => []IInv
BY InitEstablishes, NextPreserves, PTL DEF Spec

\* The types of the state of events.lua: no counter of poll leaves its range.
THEOREM TypeCorrect == Spec => []TypeOK
<1>1. IInv => TypeOK
  BY DEF IInv
<1>2. QED
  BY <1>1, InvariantHolds, PTL

\* _busy_polling (events.lua:285-287, 334-343) keeps a second coroutine of a
\* worker out of the loop of poll.
THEOREM OnePollerCorrect == Spec => []OnePoller
<1>1. ASSUME IInv PROVE OnePoller
  <2>1. SUFFICES ASSUME NEW w \in Worker
                 PROVE  Cardinality(Polling(w)) <= 1
    BY DEF OnePoller
  <2>2. \A t, u \in Polling(w) : t = u
    BY <1>1 DEF IInv, WorkerInv, Single, Polling, InLoop
  <2>3. CASE Polling(w) = {}
    BY <2>3, FS_EmptySet
  <2>4. CASE \E t \in Polling(w) : Polling(w) = {t}
    BY <2>4, FS_Singleton
  <2>5. QED
    BY <2>2, <2>3, <2>4
<1>2. QED
  BY <1>1, InvariantHolds, PTL

\* mine_to_have (events.lua:171-183): the executions of the events with one
\* value of unique exceed one only by the expiries of its key, in any number
\* of workers, whatever crashes.
THEOREM UniqueUpToExpiryCorrect == Spec => []UniqueUpToExpiry
<1>1. ASSUME IInv PROVE UniqueUpToExpiry
  <2>1. SUFFICES ASSUME NEW u \in Unique
                 PROVE  Cardinality(Runs(u)) <= 1 + expiries
    BY DEF UniqueUpToExpiry
  <2>2. Accounted(u) /\ expiries \in Nat
    BY <1>1, BoundAssumption DEF IInv, TypeOK
  <2>3. Cardinality(Runs(u)) \in Nat
    BY <2>2, FS_CardinalityType DEF Accounted
  <2>4. QED
    BY <2>2, <2>3 DEF Accounted
<1>2. QED
  BY <1>1, InvariantHolds, PTL

\* The steps that change what a running worker has met are the two that
\* decide about the event its walk stands at.
LEMMA OnlyWalksDecide ==
  ASSUME IInv, Next, NEW w \in Worker, NEW i \in Id, fate'[w][i] # fate[w][i]
  PROVE  \/ configure(w)
         \/ \E t \in Thread : /\ item(w, t) \/ wake(w, t)
                              /\ i = Current(w, t)
                              /\ loc[w][t].idx <= loc[w][t].count
                              /\ pc[w][t] \in {"item", "wait"}
<1>1. TypeOK /\ \A v \in Worker : WorkerInv(v)
  BY DEF IInv
<1>2. fate' # fate
  OBVIOUS
<1>3. \/ \E v \in Worker : configure(v)
      \/ \E v \in Worker, t \in Thread : item(v, t) \/ wake(v, t)
  <2>1. ASSUME NEW v \in Worker, NEW t \in Thread,
               \/ post(v, t) \/ postOwn(v, t) \/ addData(v, t) \/ poll(v, t)
               \/ again(v, t) \/ handled(v, t)
        PROVE  fate' = fate
    BY <2>1 DEF post, postOwn, addData, poll, again, handled
  <2>2. ASSUME NEW v \in Worker,
               do_timer(v) \/ rearm(v) \/ Quit(v) \/ Exit(v) \/ Crash(v)
        PROVE  fate' = fate
    BY <2>2 DEF do_timer, rearm, Quit, Exit, Crash, Reset
  <2>3. ASSUME NEW u \in Unique, OneExpires(u)
        PROVE  fate' = fate
    BY <2>3 DEF OneExpires
  <2>4. QED
    BY <1>2, <2>1, <2>2, <2>3, Zenon DEF Next, Step
<1>4. ASSUME NEW v \in Worker, configure(v)
      PROVE  v = w
  BY <1>1, <1>4 DEF configure, TypeOK
<1>5. ASSUME NEW v \in Worker, NEW t \in Thread, item(v, t) \/ wake(v, t)
      PROVE  /\ v = w /\ i = Current(v, t)
             /\ loc[v][t].idx <= loc[v][t].count /\ pc[v][t] \in {"item", "wait"}
  <2>1. pc[v][t] \in {"item", "wait"} /\ loc[v][t].idx <= loc[v][t].count
    BY <1>1, <1>5 DEF item, wake, WorkerInv, InRange, InLoop, Asleep
  <2>2. PICK j \in Id : j = Current(v, t) /\ base[v] < j /\ Met(v, j - 1)
    BY <1>1, <2>1, AtNumber
  <2>3. fate' = fate \/ \E f \in {"ran", "skipped", "dropped"} : Decide(v, j, f)
    BY <1>5, <2>2 DEF item, wake, do_event_json, Drop
  <2>4. v = w /\ j = i
    BY <1>1, <1>2, <2>2, <2>3, DecideFacts
  <2>5. QED
    BY <2>1, <2>2, <2>4
<1>6. QED
  BY <1>3, <1>4, <1>5

\* poll (events.lua:316-348): every running worker meets every event once and
\* in the order of the numbers, from the first one after it was configured.
THEOREM InOrderOnceCorrect == Spec => InOrderOnce
<1>1. ASSUME IInv, [Next]_vars
      PROVE  [\A w \in Worker, i \in Id :
                state[w] # "down" /\ fate'[w][i] # fate[w][i]
                  => /\ fate[w][i] = "none"
                     /\ \A j \in Id : j < i <=> (j <= base[w] \/ fate[w][j] # "none")]_vars
  <2>1. SUFFICES ASSUME Next, NEW w \in Worker, NEW i \in Id,
                        state[w] # "down", fate'[w][i] # fate[w][i]
                 PROVE  /\ fate[w][i] = "none"
                        /\ \A j \in Id : j < i <=> (j <= base[w] \/ fate[w][j] # "none")
    BY <1>1
  <2>2. TypeOK /\ WorkerInv(w)
    BY <1>1 DEF IInv
  <2>3. ~configure(w)
    BY <2>1 DEF configure
  <2>4. PICK t \in Thread : /\ i = Current(w, t) /\ loc[w][t].idx <= loc[w][t].count
                            /\ pc[w][t] \in {"item", "wait"}
    BY <1>1, <2>1, <2>3, OnlyWalksDecide
  <2>5. base[w] < i /\ Met(w, i - 1) /\ fate[w][i] = "none"
    BY <2>2, <2>4, AtNumber
  <2>6. \A j \in Id : j < i <=> (j <= base[w] \/ fate[w][j] # "none")
    <3>1. \A j \in Id : j \in Int
      BY DEF Id
    <3>2. base[w] \in Int
      BY <2>2, Numbers
    <3>3. QED
      BY <2>5, <3>1, <3>2 DEF Met
  <2>7. QED
    BY <2>5, <2>6
<1>2. QED
  BY <1>1, InvariantHolds, PTL DEF InOrderOnce, Spec

\* poll's cache ("to minimize lost data", events.lua:302-313): what was there
\* when a walk began is not dropped by it.
THEOREM CachedNotDroppedCorrect == Spec => CachedNotDropped
<1>1. ASSUME IInv, [Next]_vars
      PROVE  [\A w \in Worker, t \in Thread, i \in Id :
                i \in loc[w][t].cache
                  => ~(fate[w][i] = "none" /\ fate'[w][i] = "dropped")]_vars
  <2>1. SUFFICES ASSUME Next, NEW w \in Worker, NEW t \in Thread, NEW i \in Id,
                        i \in loc[w][t].cache, fate[w][i] = "none",
                        fate'[w][i] = "dropped"
                 PROVE  FALSE
    BY <1>1
  <2>2. TypeOK /\ WorkerInv(w)
    BY <1>1 DEF IInv
  <2>3. ~configure(w)
    BY <2>1, <2>2 DEF configure, TypeOK
  <2>4. PICK u \in Thread : /\ item(w, u) \/ wake(w, u)
                            /\ i = Current(w, u) /\ loc[w][u].idx <= loc[w][u].count
                            /\ pc[w][u] \in {"item", "wait"}
    BY <1>1, <2>1, <2>3, OnlyWalksDecide
  <2>5. u = t
    <3>1. pc[w][t] \in InLoop
      BY <2>1, <2>2 DEF WorkerInv, Cached
    <3>2. pc[w][u] \in InLoop
      BY <2>4 DEF InLoop
    <3>3. QED
      BY <2>2, <3>1, <3>2 DEF WorkerInv, Single
  <2>6. pc[w][u] # "wait"
    BY <2>1, <2>2, <2>4, <2>5 DEF WorkerInv, Cached
  <2>7. item(w, u)
    BY <2>4, <2>6 DEF wake
  <2>8. do_event_json(w, u, i)
    BY <2>1, <2>4, <2>5, <2>7 DEF item
  <2>9. PICK f \in {"ran", "skipped"} : Decide(w, i, f)
    BY <2>8 DEF do_event_json
  <2>10. fate'[w][i] = f
    BY <2>2, <2>9 DEF Decide, TypeOK
  <2>11. QED
    BY <2>1, <2>9, <2>10
<1>2. QED
  BY <1>1, InvariantHolds, PTL DEF CachedNotDropped, Spec
=============================================================================
