---------------------------- MODULE WorkerEvents ----------------------------
(***************************************************************************)
(* The event bus of lualib/resty/worker/events.lua, over which the health  *)
(* checkers of the workers tell each other what they found.                *)
(*                                                                         *)
(* A post takes the next number from the shared dictionary (incr) and then *)
(* stores the data under that number (add): two operations, between which  *)
(* other processes run and the poster may die.  Every worker polls: it     *)
(* walks from the last number it has seen to the current one, caches the   *)
(* data that is there, waits for data that is not, gives up after          *)
(* _wait_max, and runs the handlers.  Waiting and handlers yield to other  *)
(* coroutines of the same worker, which may call poll and post too; the    *)
(* flag _busy_polling sends them away.                                     *)
(***************************************************************************)
EXTENDS Integers, FiniteSets

CONSTANTS Worker,      \* worker processes
          Unique,      \* values of the parameter unique
          None,        \* no such value
          MaxEvents,   \* bound: events posted
          MaxExpiries, \* bound: expiries of "events-one:" keys
          MaxFaults    \* bound: crashes, adds without room and failed timers

ASSUME NoneAssumption  == None \notin Unique
ASSUME BoundAssumption == MaxEvents \in Nat /\ MaxExpiries \in Nat /\ MaxFaults \in Nat

VARIABLES lastId,   \* "events-last"
          data,     \* numbers with data in the dictionary
          uniq,     \* the parameter unique of each event
          one,      \* the "events-one:" keys that exist
          state,    \* life of each worker
          timer,    \* its polling timer is pending
          last,     \* its _last_event
          busy,     \* its _busy_polling
          pc,       \* where each coroutine of it is
          loc,      \* locals of poll in that coroutine
          fate,     \* history: what became of each event in each worker
          base,     \* history: _last_event when the worker was configured
          expiries, \* history: expiries of "events-one:" keys
          faults

shm    == <<lastId, data, uniq, one>>
worker == <<state, timer, last, busy, pc, loc>>
vars   == <<shm, worker, fate, base, expiries, faults>>

\* The coroutine of the timer and one of a request or another timer.
Thread == {"timer", "other"}

Id == 1..MaxEvents

\* Labels at which a coroutine has yielded; at any other one it has the
\* worker for itself.
Yielded == {"out", "wait", "handle"}
Label   == Yielded \cup {"post", "add", "nested", "poll", "item", "rearm"}

Fresh == [count |-> 0, idx |-> 1, cache |-> {}, id |-> 0, late |-> FALSE]

Init == /\ lastId = 0 /\ data = {} /\ one = {}
        /\ uniq = [i \in Id |-> None]
        /\ state = [w \in Worker |-> "down"]
        /\ timer = [w \in Worker |-> FALSE]
        /\ last = [w \in Worker |-> 0]
        /\ busy = [w \in Worker |-> FALSE]
        /\ pc = [w \in Worker |-> [t \in Thread |-> "out"]]
        /\ loc = [w \in Worker |-> [t \in Thread |-> Fresh]]
        /\ fate = [w \in Worker |-> [i \in Id |-> "none"]]
        /\ base = [w \in Worker |-> 0]
        /\ expiries = 0 /\ faults = 0

Goto(w, t, l) == pc' = [pc EXCEPT ![w][t] = l]

\* A coroutine runs only while no other one of its worker is between yields.
Turn(w, t) == \A u \in Thread \ {t} : pc[w][u] \in Yielded

Fault(bad) == /\ bad => faults < MaxFaults
              /\ faults' = faults + (IF bad THEN 1 ELSE 0)

(***************************************************************************)
(* post: a number, then the data.                                          *)
(***************************************************************************)

\* post_event, incr.  loc.id remembers the number.
Incr(w, t, u, next) ==
    /\ lastId < MaxEvents
    /\ lastId' = lastId + 1
    /\ uniq' = [uniq EXCEPT ![lastId + 1] = u]
    /\ loc' = [loc EXCEPT ![w][t].id = lastId + 1]
    /\ Goto(w, t, next)
    /\ UNCHANGED <<data, one>>

\* A request, or a handler that is running, posts an event.
post(w, t) ==
    /\ Turn(w, t) /\ state[w] = "up"
    /\ \E u \in Unique \cup {None} :
         \/ pc[w][t] = "out" /\ t = "other" /\ Incr(w, t, u, "add")
         \/ pc[w][t] = "handle" /\ Incr(w, t, u, "nested")
    /\ UNCHANGED <<state, timer, last, busy, fate, base, expiries, faults>>

\* The worker's own events: started from configure, stopping from do_timer.
postOwn(w, t) ==
    /\ Turn(w, t) /\ pc[w][t] = "post"
    /\ Incr(w, t, None, "add")
    /\ UNCHANGED <<state, timer, last, busy, fate, base, expiries, faults>>

\* Where a failed post leaves the timer's coroutine: configure gives up and
\* never arms the timer, a premature do_timer polls all the same, the post
\* at the end of do_timer was its last act.
AfterFailure(w, t) == IF t = "timer" /\ state[w] = "stopping" THEN "poll" ELSE "out"

\* post_event, add.  It fails when the dictionary has no room; then post
\* returns without polling.  From a handler poll answers false at once.
addData(w, t) ==
    /\ pc[w][t] \in {"add", "nested"}
    /\ \E stored \in BOOLEAN :
         /\ Fault(~stored)
         /\ data' = IF stored THEN data \cup {loc[w][t].id} ELSE data
         /\ Goto(w, t, IF pc[w][t] = "nested" THEN "handle"
                       ELSE IF stored THEN "poll" ELSE AfterFailure(w, t))
    /\ UNCHANGED <<lastId, uniq, one, state, timer, last, busy, loc, fate, base, expiries>>

(***************************************************************************)
(* poll.                                                                   *)
(***************************************************************************)

\* Where a coroutine goes when poll returns.
After(t) == IF t = "timer" THEN "rearm" ELSE "out"

\* Seeded faults: the walk leaves out the last number, or remembers one
\* number too many.
pollWith(w, t, count, seen) ==
    /\ Turn(w, t) /\ pc[w][t] = "poll"
    /\ \/ (busy[w] \/ lastId = last[w]) /\ Goto(w, t, After(t)) /\ UNCHANGED <<last, loc>>
       \/ /\ ~busy[w] /\ lastId # last[w]
          /\ loc' = [loc EXCEPT ![w][t] =
                [Fresh EXCEPT !.count = count,
                              !.cache = data \cap (last[w] + 1 .. lastId)]]
          /\ last' = [last EXCEPT ![w] = seen]
          /\ Goto(w, t, "item")
    /\ UNCHANGED <<shm, state, timer, busy, fate, base, expiries, faults>>
pollCountsShort(w, t) == pollWith(w, t, lastId - last[w] - 1, lastId)
pollOvershoots(w, t)  == pollWith(w, t, lastId - last[w], lastId + 1)

\* From the top to the end of the caching loop.  The reads of one walk are
\* one step: data that appears during the walk is found by a later read of
\* the same number.
poll(w, t) ==
    /\ Turn(w, t) /\ pc[w][t] = "poll"
    /\ \/ (busy[w] \/ lastId = last[w]) /\ Goto(w, t, After(t)) /\ UNCHANGED <<last, loc>>
       \/ /\ ~busy[w] /\ lastId # last[w]
          /\ loc' = [loc EXCEPT ![w][t] =
                [Fresh EXCEPT !.count = lastId - last[w],
                              !.cache = data \cap (last[w] + 1 .. lastId)]]
          /\ last' = [last EXCEPT ![w] = lastId]
          /\ Goto(w, t, "item")
    /\ UNCHANGED <<shm, state, timer, busy, fate, base, expiries, faults>>

\* Seeded fault: the walk starts one number too early.
CurrentOffByOne(w, t) == last[w] - loc[w][t].count + loc[w][t].idx - 1

\* The number poll is at, recomputed from _last_event at every use.
Current(w, t) == last[w] - loc[w][t].count + loc[w][t].idx

Decide(w, i, f) == fate' = [fate EXCEPT ![w][i] = f]

\* Seeded fault: everybody wins.
mine_to_haveAlways(w, i) == one' = one

\* mine_to_have: the worker that creates the key executes the event.
mine_to_have(w, i) == uniq[i] \notin one /\ one' = one \cup ({uniq[i]} \ {None})

\* The locals of a walk at its next number.
Onward(l, late) == [l EXCEPT !.idx = @ + 1, !.late = late]

\* On to the next number.  Whatever went before may have taken the walk past
\* its deadline.
Advance(w, t) == /\ \E late \in {loc[w][t].late, TRUE} :
                      loc' = [loc EXCEPT ![w][t] = Onward(@, late)]
                 /\ busy' = [busy EXCEPT ![w] = FALSE]
                 /\ Goto(w, t, "item")

\* do_event_json: run the handlers, or leave the event to the owner of its
\* key.  Where the dictionary has no room for the key, nobody owns it and
\* the event is left all the same.
do_event_json(w, t, i) ==
    \/ /\ mine_to_have(w, i)
       /\ Decide(w, i, "ran")
       /\ busy' = [busy EXCEPT ![w] = TRUE]
       /\ Goto(w, t, "handle")
       /\ UNCHANGED <<loc, faults>>
    \/ /\ uniq[i] # None
       /\ Fault(uniq[i] \notin one)
       /\ Decide(w, i, "skipped")
       /\ Advance(w, t)
       /\ UNCHANGED one

\* The event is logged and forgotten.
Drop(w, t, i) ==
    /\ Decide(w, i, "dropped")
    /\ busy' = [busy EXCEPT ![w] = FALSE]
    /\ loc' = [loc EXCEPT ![w][t] = Onward(@, TRUE)]
    /\ Goto(w, t, "item")
    /\ UNCHANGED <<one, faults>>

\* Seeded fault: after the deadline what is cached is dropped as well.
itemDropsCached(w, t) ==
    /\ Turn(w, t) /\ pc[w][t] = "item" /\ loc[w][t].idx <= loc[w][t].count
    /\ IF loc[w][t].late THEN Drop(w, t, Current(w, t))
       ELSE IF Current(w, t) \in loc[w][t].cache THEN do_event_json(w, t, Current(w, t))
       ELSE /\ busy' = [busy EXCEPT ![w] = TRUE]
            /\ Goto(w, t, "wait")
            /\ UNCHANGED <<loc, fate, one, faults>>
    /\ UNCHANGED <<lastId, data, uniq, state, timer, last, base, expiries>>

\* Seeded fault: the flag is not raised around the sleep.
itemSleepsUnflagged(w, t) ==
    /\ Turn(w, t) /\ pc[w][t] = "item" /\ loc[w][t].idx <= loc[w][t].count
    /\ IF Current(w, t) \in loc[w][t].cache THEN do_event_json(w, t, Current(w, t))
       ELSE IF loc[w][t].late THEN Drop(w, t, Current(w, t))
       ELSE Goto(w, t, "wait") /\ UNCHANGED <<busy, loc, fate, one, faults>>
    /\ UNCHANGED <<lastId, data, uniq, state, timer, last, base, expiries>>

\* The for loop, next number: data in the cache is handled; once the
\* deadline of this walk has passed, missing data is not looked for again;
\* before it, the coroutine sleeps with the flag raised.
item(w, t) ==
    /\ Turn(w, t) /\ pc[w][t] = "item" /\ loc[w][t].idx <= loc[w][t].count
    /\ LET i == Current(w, t) IN
       \/ i \in loc[w][t].cache /\ do_event_json(w, t, i)
       \/ i \notin loc[w][t].cache /\ loc[w][t].late /\ Drop(w, t, i)
       \/ /\ i \notin loc[w][t].cache /\ ~loc[w][t].late
          /\ busy' = [busy EXCEPT ![w] = TRUE]
          /\ Goto(w, t, "wait")
          /\ UNCHANGED <<loc, fate, one, faults>>
    /\ UNCHANGED <<lastId, data, uniq, state, timer, last, base, expiries>>

\* The for loop is over: poll calls itself.
again(w, t) == /\ Turn(w, t) /\ pc[w][t] = "item" /\ loc[w][t].idx > loc[w][t].count
               /\ loc' = [loc EXCEPT ![w][t] = Fresh]
               /\ Goto(w, t, "poll")
               /\ UNCHANGED <<shm, state, timer, last, busy, fate, base, expiries, faults>>

\* The sleep returns: the data is there, or the time is up.  (Sleeping on
\* changes nothing.)
wake(w, t) ==
    /\ Turn(w, t) /\ pc[w][t] = "wait"
    /\ LET i == Current(w, t) IN
       \/ i \in data /\ do_event_json(w, t, i)
       \/ i \notin data /\ Drop(w, t, i)
    /\ UNCHANGED <<lastId, data, uniq, state, timer, last, base, expiries>>

\* The last handler returns (xpcall: it may have thrown).
handled(w, t) == /\ Turn(w, t) /\ pc[w][t] = "handle"
                 /\ Advance(w, t)
                 /\ UNCHANGED <<shm, state, timer, last, fate, base, expiries, faults>>

(***************************************************************************)
(* do_timer, configure and the life of a worker.                           *)
(***************************************************************************)

\* The timer fires.  In a process that exits it does so prematurely and
\* posts the event stopping before it polls.
do_timer(w) == /\ timer[w] /\ pc[w]["timer"] = "out" /\ Turn(w, "timer")
               /\ timer' = [timer EXCEPT ![w] = FALSE]
               /\ Goto(w, "timer", IF state[w] = "exiting" THEN "post" ELSE "poll")
               /\ state' = [state EXCEPT ![w] = IF @ = "exiting" THEN "stopping" ELSE @]
               /\ UNCHANGED <<shm, last, busy, loc, fate, base, expiries, faults>>

\* The end of do_timer.  A timer that cannot be created ends the loop; a
\* process that began to exit meanwhile learns it here and posts stopping.
rearm(w) ==
    /\ pc[w]["timer"] = "rearm"
    /\ \/ /\ state[w] = "up"
          /\ \E created \in BOOLEAN :
               Fault(~created) /\ timer' = [timer EXCEPT ![w] = created]
          /\ Goto(w, "timer", "out")
          /\ UNCHANGED state
       \/ /\ state[w] = "exiting"
          /\ state' = [state EXCEPT ![w] = "stopped"]
          /\ Goto(w, "timer", "post")
          /\ UNCHANGED <<timer, faults>>
       \/ /\ state[w] \in {"stopping", "stopped"}
          /\ Goto(w, "timer", "out")
          /\ UNCHANGED <<state, timer, faults>>
    /\ UNCHANGED <<shm, last, busy, loc, fate, base, expiries>>

\* configure in a new process: it starts at the current number, posts
\* started, polls and arms the timer.  (In init_worker a wait is a busy one;
\* the model lets other coroutines run during it all the same.)
configure(w) ==
    /\ state[w] = "down" /\ lastId < MaxEvents
    /\ state' = [state EXCEPT ![w] = "up"]
    /\ last' = [last EXCEPT ![w] = lastId]
    /\ base' = [base EXCEPT ![w] = lastId]
    /\ fate' = [fate EXCEPT ![w] = [i \in Id |-> "none"]]
    /\ Goto(w, "timer", "post")
    /\ UNCHANGED <<shm, timer, busy, loc, expiries, faults>>

\* nginx tells the worker to exit once its work is done.
Quit(w) == /\ state[w] = "up"
           /\ state' = [state EXCEPT ![w] = "exiting"]
           /\ UNCHANGED <<shm, timer, last, busy, pc, loc, fate, base, expiries, faults>>

Reset(w) == /\ state' = [state EXCEPT ![w] = "down"]
            /\ timer' = [timer EXCEPT ![w] = FALSE]
            /\ busy' = [busy EXCEPT ![w] = FALSE]
            /\ pc' = [pc EXCEPT ![w] = [t \in Thread |-> "out"]]
            /\ loc' = [loc EXCEPT ![w] = [t \in Thread |-> Fresh]]
            /\ UNCHANGED <<shm, last, fate, base, expiries>>

Exit(w) == /\ state[w] \in {"exiting", "stopping", "stopped"} /\ ~timer[w]
           /\ \A t \in Thread : pc[w][t] = "out"
           /\ Reset(w) /\ UNCHANGED faults

Crash(w) == state[w] # "down" /\ Fault(TRUE) /\ Reset(w)

\* _unique_timeout passes.
OneExpires(u) == /\ u \in one /\ expiries < MaxExpiries
                 /\ one' = one \ {u}
                 /\ expiries' = expiries + 1
                 /\ UNCHANGED <<lastId, data, uniq, worker, fate, base, faults>>

\* Steps a coroutine takes by itself once it has begun.
Step(w, t) == \/ postOwn(w, t) \/ addData(w, t) \/ poll(w, t) \/ item(w, t)
              \/ again(w, t) \/ wake(w, t) \/ handled(w, t)

Next == \/ \E w \in Worker :
             \/ \E t \in Thread : Step(w, t) \/ post(w, t)
             \/ do_timer(w) \/ rearm(w) \/ configure(w)
             \/ Quit(w) \/ Exit(w) \/ Crash(w)
        \/ \E u \in Unique : OneExpires(u)

\* Coroutines that have begun go on (a wait ends after _wait_max, a handler
\* returns) and timers fire.  The event loop resumes every coroutine whose
\* sleep is over in each of its rounds, so other coroutines that run again
\* and again do not keep it from waking up: fairness there is strong.  Nobody
\* has to post, start, quit or crash.
Fairness == \A w \in Worker :
              /\ \A t \in Thread : /\ WF_vars(Step(w, t))
                                   /\ SF_vars(wake(w, t)) /\ SF_vars(handled(w, t))
              /\ WF_vars(do_timer(w)) /\ WF_vars(rearm(w))

Spec == Init /\ [][Next]_vars /\ Fairness

-----------------------------------------------------------------------------

TypeOK ==
    /\ lastId \in 0..MaxEvents /\ data \subseteq Id
    /\ uniq \in [Id -> Unique \cup {None}] /\ one \subseteq Unique
    /\ state \in [Worker -> {"down", "up", "exiting", "stopping", "stopped"}]
    /\ timer \in [Worker -> BOOLEAN] /\ busy \in [Worker -> BOOLEAN]
    /\ last \in [Worker -> 0..MaxEvents] /\ base \in [Worker -> 0..MaxEvents]
    /\ pc \in [Worker -> [Thread -> Label]]
    /\ loc \in [Worker -> [Thread -> [count : 0..MaxEvents, idx : 1..MaxEvents + 1,
                  cache : SUBSET Id, id : 0..MaxEvents, late : BOOLEAN]]]
    /\ fate \in [Worker -> [Id -> {"none", "ran", "skipped", "dropped"}]]
    /\ expiries \in 0..MaxExpiries /\ faults \in 0..MaxFaults

\* Coroutines of w inside the loop of poll.
Polling(w) == {t \in Thread : pc[w][t] \in {"item", "wait", "handle", "nested"}}

\* _busy_polling keeps a second coroutine of a worker out of the loop of
\* poll while the first one sleeps or runs a handler.
OnePoller == \A w \in Worker : Cardinality(Polling(w)) <= 1

\* Every worker meets the events in the order of their numbers, each exactly
\* once, beginning with the first one after it was configured, however posts,
\* waits, handlers and nested posts interleave.
InOrderOnce ==
    [][\A w \in Worker, i \in Id :
         state[w] # "down" /\ fate'[w][i] # fate[w][i]
           => /\ fate[w][i] = "none"
              /\ \A j \in Id : j < i <=> (j <= base[w] \/ fate[w][j] # "none")]_vars

\* The cache keeps its promise ("to minimize lost data"): an event whose
\* data was there when the walk began is not dropped as missing, even if the
\* walk then waits too long for another one.
CachedNotDropped ==
    [][\A w \in Worker, t \in Thread, i \in Id :
         i \in loc[w][t].cache => ~(fate[w][i] = "none" /\ fate'[w][i] = "dropped")]_vars

\* Executions of the events that carry one value of unique exceed 1 only by
\* as many as the key expired.
Runs(u) == {r \in Worker \X Id : uniq[r[2]] = u /\ fate[r[1]][r[2]] = "ran"}
UniqueUpToExpiry == \A u \in Unique : Cardinality(Runs(u)) <= 1 + expiries

\* A worker that keeps its timer decides about every event posted after it
\* started: no number is waited for forever.
CatchesUp ==
    \A w \in Worker :
      <>[](state[w] = "up" /\ timer[w] =>
             \A i \in Id : base[w] < i /\ i <= lastId => fate[w][i] # "none")

\* events.lua:238-239: "a unique identifier for this event, providing it will
\* make only 1 worker execute the event".
OneWorkerExecutes ==
    \A i \in Id : uniq[i] # None =>
        Cardinality({w \in Worker : fate[w][i] = "ran"}) <= 1
=============================================================================
