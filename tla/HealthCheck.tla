----------------------------- MODULE HealthCheck -----------------------------
(***************************************************************************)
(* The health checker, lualib/resty/healthcheck.lua, and its user          *)
(* init/init_upstream_healthcheck.lua, seen from one target: its entry in  *)
(* the target list, its state and its counters in shared memory, the copy  *)
(* of its health every worker keeps, the events that bring the copies up   *)
(* to date, the locks, the rounds of active checks, and the value worker   *)
(* Writer leaves in Redis for the choice of an upstream.                   *)
(*                                                                         *)
(* The event bus is the one of WorkerEvents: every worker meets the events *)
(* in the order of their numbers, later than they were posted.  A process  *)
(* of Proc is one Lua thread (a request, a timer) of its worker; it does   *)
(* one thing at a time.                                                    *)
(***************************************************************************)
EXTENDS Naturals, FiniteSets, Sequences

CONSTANTS Worker, Proc,
          Home,        \* the worker of each process
          Writer,      \* the worker that runs init_upstream_healthcheck
          FailKind,    \* counters of failures: "http", "tcp", "timeout"
          Limit,       \* thresholds of active and of passive checks, one
                       \* per counter, 0 = not counted
          Nil,
          MaxCalls,    \* bound: reports that are counted and calls of add_target, ...
          MaxAdmin,    \* bound: calls of add_target, remove_target, set_target_status
          MaxFaults    \* bound: workers that die or hang, late rounds, lost writes,
                       \* locks that run out

Kind == FailKind \cup {"success"}
Mode == {"healthy", "unhealthy"}

Up    == {"healthy", "mostly_healthy"}
Down  == {"unhealthy", "mostly_unhealthy"}
Health == Up \cup Down
Class(h) == IF h \in Up THEN "healthy" ELSE IF h \in Down THEN "unhealthy" ELSE Nil

ASSUME CheckerAssumption ==
    /\ IsFiniteSet(Proc) /\ Home \in [Proc -> Worker] /\ Writer \in Worker
    /\ "success" \notin FailKind /\ Limit \in [{"active", "passive"} -> [Kind -> 0..254]]
    /\ MaxCalls \in Nat /\ MaxAdmin \in Nat /\ MaxFaults \in Nat
    /\ Nil \notin Kind \cup Health \cup Proc \cup Worker \cup {"remove", "orphan"}
    /\ "orphan" \notin Proc \cup Worker

VARIABLES listed,   \* the target is in TARGET_LIST
          state,    \* TARGET_STATE
          ctr,      \* TARGET_COUNTER, one number per byte
          tlock,    \* holder of TARGET_LOCK: a process, "orphan" or Nil
          llock,    \* holder of TARGET_LIST_LOCK
          period,   \* PERIODIC_LOCK: the worker that runs the checks
          cblock,   \* CALLBACK_LOCK of each mode
          sub,      \* a worker's checker: down, loaded, on
          view,     \* its internal_health of the target, Nil = unknown
          inbox,    \* events it has not handled yet
          pc, job,  \* what each process does
          pend,     \* timers that run in Writer, by the value they will write
          redis,    \* openresty:healthcheckupstream:<target>
          reports, admin, faults,
          late,     \* history: rounds of each mode whose lock ran out
          missed,   \* history: workers that dropped an event while starting
          astray,   \* history: a report met a change of the list, or a
                    \* process died inside a lock or lost it
          torn      \* history: Redis was not written for the last change, or
                    \* by several timers that overlapped

shm     == <<listed, state, ctr>>
locks   == <<tlock, llock, period, cblock>>
workers == <<sub, view, inbox>>
proc    == <<pc, job>>
writer  == <<pend, redis, torn>>
bounds  == <<reports, admin, faults>>
vars    == <<shm, locks, workers, proc, writer, bounds, late, missed, astray>>

NoTimers == [m \in Mode |-> 0]

NoJob == [kind |-> Nil, snap |-> Nil, new |-> Nil, mode |-> Nil]

\* The checkers have started and may have been given the target, healthy or not.
Init ==
    /\ listed \in BOOLEAN
    /\ state \in (IF listed THEN Mode ELSE {Nil}) /\ ctr = [k \in Kind |-> 0]
    /\ tlock = Nil /\ llock = Nil /\ period = Nil /\ cblock = [m \in Mode |-> FALSE]
    /\ sub = [w \in Worker |-> "on"] /\ view = [w \in Worker |-> state]
    /\ inbox = [w \in Worker |-> <<>>]
    /\ pc = [p \in Proc |-> "idle"] /\ job = [p \in Proc |-> NoJob]
    /\ pend = NoTimers /\ redis = state /\ torn = FALSE
    /\ reports = 0 /\ admin = 0 /\ faults = 0
    /\ late = [m \in Mode |-> 0] /\ missed = {} /\ astray = FALSE

On(p) == sub[Home[p]] = "on"
CanCall == admin < MaxAdmin /\ reports + admin < MaxCalls
Goto(p, l) == pc' = [pc EXCEPT ![p] = l]

\* A process that is done with a report goes on with its round, if any.
Back(p) == IF job[p].mode = Nil THEN "idle" ELSE "ending"
Return(p) == /\ Goto(p, Back(p))
             /\ job' = [job EXCEPT ![p] = [NoJob EXCEPT !.mode = job[p].mode]]

(***************************************************************************)
(* Reports: incr_counter and set_target_status.                            *)
(***************************************************************************)

Verdict(k) == IF k = "success" THEN "healthy" ELSE "unhealthy"

\* What a process reports in a round is the result of an active check, and
\* what it reports otherwise that of a passive one.  They count together, up
\* to limits of their own.
LimitOf(p, k) == Limit[IF job[p].mode = Nil THEN "passive" ELSE "active"][k]

\* The part before the lock: a kind that is not counted, an unknown target
\* and a report that agrees with the worker's copy change nothing.  The copy
\* as it is now is what the rest of incr_counter works with.
Ignored(p, k) == LimitOf(p, k) = 0 \/ view[Home[p]] \in {Nil, Verdict(k)}

Report(p, k) ==
    /\ ~Ignored(p, k)
    /\ reports + admin < MaxCalls
    /\ reports' = reports + 1
    /\ Goto(p, "lock")
    /\ job' = [job EXCEPT ![p] = [@ EXCEPT !.kind = k, !.snap = view[Home[p]]]]

\* A request reports what it saw of the target (report_failure, ...).
Passive(p) ==
    /\ pc[p] = "idle" /\ On(p)
    /\ \E k \in Kind : Report(p, k)
    /\ UNCHANGED <<shm, locks, workers, writer, admin, faults, late, missed>>

\* set_target_status, up to the lock.
SetStatus(p) ==
    /\ pc[p] = "idle" /\ On(p) /\ view[Home[p]] # Nil
    /\ CanCall /\ admin' = admin + 1
    /\ \E h \in Mode : job' = [job EXCEPT ![p] = [@ EXCEPT !.new = h]]
    /\ Goto(p, "lock")
    /\ UNCHANGED <<shm, locks, workers, writer, reports, faults, late, missed>>

\* The counters after one more report of kind k: a success clears all
\* failures, a failure clears the successes.
Counted(k) == [j \in Kind |-> IF j = k THEN ctr[j] + 1
                              ELSE IF k = "success" \/ j = "success" THEN 0 ELSE ctr[j]]

\* Seeded fault: the limit is reached one report too early.
NewHealthEarly(p, k, snap) == IF Counted(k)[k] + 1 >= LimitOf(p, k) THEN Verdict(k) ELSE Nil

\* new_health, from the counters and the copy read before the lock.
NewHealth(p, k, snap) ==
    IF Counted(k)[k] >= LimitOf(p, k) THEN Verdict(k)
    ELSE IF snap = "healthy" /\ \E j \in FailKind : Counted(k)[j] > 0 THEN "mostly_healthy"
    ELSE IF snap = "unhealthy" /\ Counted(k)["success"] > 0 THEN "mostly_unhealthy"
    ELSE Nil

\* The lock is taken and the counters change.  Without a new health the lock
\* is released at once.
Count(p) ==
    /\ pc[p] = "lock" /\ tlock = Nil
    /\ LET k   == job[p].kind
           new == IF k = Nil THEN job[p].new ELSE NewHealth(p, k, job[p].snap)
       IN  /\ ctr' = IF k = Nil THEN [j \in Kind |-> 0] ELSE Counted(k)
           /\ IF new # Nil /\ new # job[p].snap
              THEN /\ tlock' = p
                   /\ Goto(p, "store")
                   /\ job' = [job EXCEPT ![p] = [@ EXCEPT !.new = new]]
              ELSE Return(p) /\ UNCHANGED tlock
    /\ UNCHANGED <<listed, state, llock, period, cblock, workers, writer, bounds, late, missed>>

\* The lock is not free for LOCK_TIMEOUT seconds: the report is dropped.
\* (Where a thread may not wait, a timer does so for it: the same steps.)
LockTimeout(p) ==
    /\ pc[p] = "lock" /\ tlock # Nil
    /\ Return(p)
    /\ UNCHANGED <<shm, locks, workers, writer, bounds, late, missed>>

\* Seeded fault: the lock is released before the event is raised.
StoreUnlocks(p) ==
    /\ pc[p] = "store"
    /\ state' = job[p].new
    /\ tlock' = Nil
    /\ Goto(p, "post")
    /\ UNCHANGED <<listed, ctr, llock, period, cblock, workers, job, writer, bounds, late, missed>>

Store(p) ==
    /\ pc[p] = "store"
    /\ state' = job[p].new
    /\ Goto(p, "post")
    /\ UNCHANGED <<listed, ctr, locks, workers, job, writer, bounds, late, missed>>

(***************************************************************************)
(* Events.                                                                 *)
(***************************************************************************)

\* Seeded fault: the event "remove" has no case of its own.
event_handlerKeeps(v, e) == e

\* event_handler: a target that is not known is added.
event_handler(v, e) == IF e = "remove" THEN Nil ELSE e

\* Writer starts a timer of 5 seconds for every event "healthy" or
\* "unhealthy"; all other events change nothing in Redis.  Timers are named
\* by the place of their event.
Timers(es) == {i \in DOMAIN es : es[i] \in Mode}
LastTimer(es) == CHOOSE i \in Timers(es) : \A j \in Timers(es) : j <= i

\* Worker w handles the events es, of which there is one at least.  Each of
\* them overwrites what the one before it left in the copy.  In Redis the
\* last change of the target's class may not be written at all (a class that
\* changes with a "mostly" event), or race with a timer that still runs.
Handle(w, es) ==
    /\ view' = [view EXCEPT ![w] = event_handler(@, es[Len(es)])]
    /\ IF w # Writer THEN UNCHANGED writer
       ELSE /\ pend' = [m \in Mode |-> pend[m] + Cardinality({i \in Timers(es) : es[i] = m})]
            /\ torn' = LET shown == IF Timers(es) = {} THEN Class(view[w]) ELSE es[LastTimer(es)]
                           leap == view'[w] # Nil /\ Class(view'[w]) # shown
                           race == Timers(es) # {} /\ (pend # NoTimers \/ Cardinality(Timers(es)) > 1)
                       IN  leap \/ race \/ (torn /\ Timers(es) = {})
            /\ UNCHANGED redis

\* worker_events.post: the event is queued for every worker, and the posting
\* worker polls at once unless one of its threads is at an event already.
Raise(p, e) ==
    LET w == Home[p]
        queued == [v \in Worker |-> IF sub[v] = "down" THEN inbox[v] ELSE Append(inbox[v], e)]
    IN  \/ /\ inbox' = [queued EXCEPT ![w] = <<>>]
           /\ Handle(w, queued[w])
        \/ /\ inbox[w] # <<>>
           /\ inbox' = queued
           /\ UNCHANGED <<view, writer>>

\* The event of a report is raised and the target's lock removed, whoever's
\* it is by now.
Post(p) ==
    /\ pc[p] = "post"
    /\ Raise(p, job[p].new)
    /\ tlock' = Nil
    /\ Return(p)
    /\ UNCHANGED <<shm, llock, period, cblock, sub, bounds, late, missed>>

\* The polling timer of a worker: one event is handled.
Deliver(w) ==
    /\ sub[w] = "on" /\ inbox[w] # <<>>
    /\ Handle(w, <<Head(inbox[w])>>)
    /\ inbox' = [inbox EXCEPT ![w] = Tail(@)]
    /\ UNCHANGED <<shm, locks, sub, proc, bounds, late, missed>>

\* One of the timers of Writer is up, in any order.
Fires(h) == pend[h] > 0 /\ pend' = [pend EXCEPT ![h] = @ - 1]

\* Seeded fault: the test of premature is the wrong way round.
WriteRedisPremature ==
    /\ \E h \in Mode : Fires(h)
    /\ UNCHANGED <<shm, locks, workers, proc, redis, torn, bounds, late, missed>>

\* redis_healthcheck_change.
WriteRedis ==
    /\ \E h \in Mode : Fires(h) /\ redis' = h
    /\ UNCHANGED <<shm, locks, workers, proc, torn, bounds, late, missed>>

\* The command fails; its answer is not looked at and nobody tries again.
WriteFails ==
    /\ faults < MaxFaults /\ faults' = faults + 1
    /\ \E h \in Mode : Fires(h)
    /\ torn' = TRUE
    /\ UNCHANGED <<shm, locks, workers, proc, redis, reports, admin, late, missed>>

(***************************************************************************)
(* The target list.                                                        *)
(***************************************************************************)

\* add_target: the state is set before the target is listed.
AddTarget(p) ==
    /\ pc[p] = "idle" /\ On(p) /\ llock = Nil /\ ~listed
    /\ CanCall /\ admin' = admin + 1
    /\ llock' = p
    /\ \E h \in Mode : state' = h /\ job' = [job EXCEPT ![p] = [@ EXCEPT !.new = h]]
    /\ Goto(p, "add")
    /\ UNCHANGED <<listed, ctr, tlock, period, cblock, workers, writer, reports, faults, late, missed>>

AddList(p) ==
    /\ pc[p] = "add"
    /\ listed' = TRUE
    /\ Goto(p, "added")
    /\ UNCHANGED <<state, ctr, locks, workers, job, writer, bounds, late, missed>>

\* remove_target: the target leaves the list before its data is cleared.
RemoveTarget(p) ==
    /\ pc[p] = "idle" /\ On(p) /\ llock = Nil /\ listed
    /\ CanCall /\ admin' = admin + 1
    /\ llock' = p
    /\ listed' = FALSE
    /\ Goto(p, "remove")
    /\ UNCHANGED <<state, ctr, tlock, period, cblock, workers, job, writer, reports, faults, late, missed>>

\* clear_target_data_from_shm, without the lock of the target: the state
\* first, then the counters.
ClearState(p) ==
    /\ pc[p] = "remove"
    /\ state' = Nil
    /\ Goto(p, "clear")
    /\ UNCHANGED <<listed, ctr, locks, workers, job, writer, bounds, late, missed>>

ClearCounters(p) ==
    /\ pc[p] = "clear"
    /\ ctr' = [k \in Kind |-> 0]
    /\ Goto(p, "removed")
    /\ UNCHANGED <<listed, state, locks, workers, job, writer, bounds, late, missed>>

\* The event is raised and the lock of the list removed.
Announce(p) ==
    /\ pc[p] \in {"added", "removed"}
    /\ Raise(p, IF pc[p] = "added" THEN job[p].new ELSE "remove")
    /\ llock' = Nil
    /\ Return(p)
    /\ UNCHANGED <<shm, tlock, period, cblock, sub, bounds, late, missed>>

(***************************************************************************)
(* A worker's checker, and its rounds of active checks.                    *)
(***************************************************************************)

\* new(), under the lock of the list: the list and the state are read.
Load(w) ==
    /\ sub[w] = "down" /\ llock = Nil
    /\ sub' = [sub EXCEPT ![w] = "loaded"]
    /\ view' = [view EXCEPT ![w] = IF listed THEN state ELSE Nil]
    /\ inbox' = [inbox EXCEPT ![w] = <<>>]
    /\ torn' = (torn \/ (w = Writer /\ listed))
    /\ UNCHANGED <<shm, locks, proc, pend, redis, bounds, late, missed>>

\* new(): the poll that is to catch up comes before start() registers the
\* callback, so the events since Load reach no handler.
Start(w) ==
    /\ sub[w] = "loaded"
    /\ sub' = [sub EXCEPT ![w] = "on"]
    /\ inbox' = [inbox EXCEPT ![w] = <<>>]
    /\ missed' = IF inbox[w] # <<>> THEN missed \cup {w} ELSE missed
    /\ UNCHANGED <<shm, locks, view, proc, writer, bounds, late>>

\* Seeded fault: the lock of the mode is not looked at.
TickUnlocked(p, m) ==
    /\ pc[p] = "idle" /\ On(p)
    /\ period \in {Nil, Home[p]}
    /\ period' = Home[p]
    /\ listed /\ Class(view[Home[p]]) = m
    /\ cblock' = [cblock EXCEPT ![m] = TRUE]
    /\ Goto(p, "check")
    /\ job' = [job EXCEPT ![p] = [NoJob EXCEPT !.mode = m]]
    /\ UNCHANGED <<shm, tlock, llock, workers, writer, bounds, late, missed>>

\* The timer of the active checks: the worker that has, or gets, the
\* periodic lock calls checker_callback for a mode.  With a target of that
\* mode a timer runs the round; without one the lock of the mode is released
\* at once, and the turn only keeps other workers from theirs: it is left
\* out, which allows them more.
Tick(p, m) ==
    /\ pc[p] = "idle" /\ On(p)
    /\ period \in {Nil, Home[p]}
    /\ period' = Home[p]
    /\ ~cblock[m]
    /\ listed /\ Class(view[Home[p]]) = m
    /\ cblock' = [cblock EXCEPT ![m] = TRUE]
    /\ Goto(p, "check")
    /\ job' = [job EXCEPT ![p] = [NoJob EXCEPT !.mode = m]]
    /\ UNCHANGED <<shm, tlock, llock, workers, writer, bounds, late, missed>>

\* run_single_check: the target is probed and the result reported.  A result
\* that is ignored, a status that means nothing and a socket that cannot be
\* made end the check without a report.
Check(p) ==
    /\ pc[p] = "check"
    /\ \/ \E k \in Kind : Report(p, k)
       \/ Goto(p, "ending") /\ UNCHANGED <<job, reports>>
    /\ UNCHANGED <<shm, locks, workers, writer, admin, faults, late, missed>>

\* The round ends with remove_callback_lock, whoever's lock it is by now.
EndRound(p) ==
    /\ pc[p] = "ending"
    /\ LET m == job[p].mode IN
       /\ cblock' = [cblock EXCEPT ![m] = FALSE]
       /\ late' = IF cblock[m] \/ late[m] = 0 THEN late ELSE [late EXCEPT ![m] = @ - 1]
    /\ Goto(p, "idle")
    /\ job' = [job EXCEPT ![p] = NoJob]
    /\ UNCHANGED <<shm, tlock, llock, period, workers, writer, bounds, missed>>

Rounds(m) == {p \in Proc : job[p].mode = m}

(***************************************************************************)
(* Times to live, and workers that die.                                    *)
(***************************************************************************)

\* The lock of a mode lives twice the interval and the timeout of a check;
\* a round over many targets may take longer.
CallbackExpires(m) ==
    /\ cblock[m]
    /\ cblock' = [cblock EXCEPT ![m] = FALSE]
    /\ IF Rounds(m) = {} THEN UNCHANGED <<late, faults>>
       ELSE /\ faults < MaxFaults /\ faults' = faults + 1
            /\ late' = [late EXCEPT ![m] = @ + 1]
    /\ UNCHANGED <<shm, tlock, llock, period, workers, proc, writer, reports, admin, missed>>

\* The periodic lock is not renewed for LOCK_PERIOD, 15 turns of its
\* owner's timer: the owner has died, or hangs.
PeriodExpires ==
    /\ period # Nil
    /\ period # "orphan" => faults < MaxFaults
    /\ faults' = IF period = "orphan" THEN faults ELSE faults + 1
    /\ period' = Nil
    /\ UNCHANGED <<shm, tlock, llock, cblock, workers, proc, writer, reports, admin, late, missed>>

\* The lock of a process that died runs out after 10 seconds.
OrphanExpires ==
    /\ "orphan" \in {tlock, llock}
    /\ tlock' = IF tlock = "orphan" THEN Nil ELSE tlock
    /\ llock' = IF llock = "orphan" THEN Nil ELSE llock
    /\ UNCHANGED <<shm, period, cblock, workers, proc, writer, bounds, late, missed>>

\* The lock of a process that hangs, or whose handlers take their time, runs
\* out as well, and the process goes on without it.
HolderExpires ==
    /\ faults < MaxFaults /\ faults' = faults + 1
    /\ \/ tlock \in Proc /\ tlock' = Nil /\ UNCHANGED llock
       \/ llock \in Proc /\ llock' = Nil /\ UNCHANGED tlock
    /\ UNCHANGED <<shm, period, cblock, workers, proc, writer, reports, admin, late, missed>>

\* A worker dies with its threads, its copy and its timers, and is started
\* again with another pid.
Crash(w) ==
    LET dead == {p \in Proc : Home[p] = w} IN
    /\ faults < MaxFaults /\ faults' = faults + 1
    /\ sub[w] # "down"
    /\ sub' = [sub EXCEPT ![w] = "down"]
    /\ view' = [view EXCEPT ![w] = Nil]
    /\ inbox' = [inbox EXCEPT ![w] = <<>>]
    /\ missed' = missed \ {w}
    /\ pc' = [p \in Proc |-> IF p \in dead THEN "idle" ELSE pc[p]]
    /\ job' = [p \in Proc |-> IF p \in dead THEN NoJob ELSE job[p]]
    /\ tlock' = IF tlock \in dead THEN "orphan" ELSE tlock
    /\ llock' = IF llock \in dead THEN "orphan" ELSE llock
    /\ period' = IF period = w THEN "orphan" ELSE period
    /\ IF w = Writer THEN pend' = NoTimers /\ torn' = TRUE /\ UNCHANGED redis ELSE UNCHANGED writer
    /\ UNCHANGED <<shm, cblock, reports, admin, late>>

Step(p) == \/ Count(p) \/ LockTimeout(p) \/ Store(p) \/ Post(p)
           \/ AddList(p) \/ ClearState(p) \/ ClearCounters(p) \/ Announce(p)
           \/ Check(p) \/ EndRound(p)

Call(p) == Passive(p) \/ SetStatus(p) \/ AddTarget(p) \/ RemoveTarget(p)

Background == \/ \E w \in Worker : Deliver(w) \/ Load(w) \/ Start(w)
              \/ WriteRedis \/ WriteFails \/ PeriodExpires \/ OrphanExpires
              \/ \E m \in Mode : CallbackExpires(m)

Act == \/ \E p \in Proc : Step(p) \/ Call(p) \/ (\E m \in Mode : Tick(p, m))
       \/ Background
       \/ \E w \in Worker : Crash(w)

\* A report changes the state while the list changes or does not have the
\* target, or a process dies inside a lock.
Strays == \/ tlock' # Nil /\ (llock' # Nil \/ ~listed')
          \/ "orphan" \in {tlock', llock'}

Next == \/ Act /\ astray' = (astray \/ Strays)
        \/ HolderExpires /\ astray' = TRUE

Spec == Init /\ [][Next]_vars

-----------------------------------------------------------------------------

Job == [kind : Kind \cup {Nil}, snap : Health \cup {Nil}, new : Health \cup {Nil},
        mode : Mode \cup {Nil}]

TypeOK ==
    /\ listed \in BOOLEAN /\ state \in Health \cup {Nil} /\ ctr \in [Kind -> 0..MaxCalls]
    /\ tlock \in Proc \cup {Nil, "orphan"} /\ llock \in Proc \cup {Nil, "orphan"}
    /\ period \in Worker \cup {Nil, "orphan"} /\ cblock \in [Mode -> BOOLEAN]
    /\ sub \in [Worker -> {"down", "loaded", "on"}]
    /\ view \in [Worker -> Health \cup {Nil}]
    /\ inbox \in [Worker -> Seq(Health \cup {"remove"})]
    /\ pc \in [Proc -> {"idle", "lock", "store", "post", "add", "added", "remove", "clear", "removed",
                        "check", "ending"}]
    /\ job \in [Proc -> Job]
    /\ pend \in [Mode -> Nat]
    /\ redis \in Mode \cup {Nil} /\ torn \in BOOLEAN /\ astray \in BOOLEAN
    /\ reports \in 0..MaxCalls /\ admin \in 0..MaxAdmin /\ faults \in 0..MaxFaults
    /\ late \in [Mode -> 0..MaxFaults] /\ missed \subseteq Worker

\* Nobody is in the middle of a change, and every event has been handled.
Settled == /\ \A p \in Proc : pc[p] \in {"idle", "lock", "check", "ending"}
           /\ \A w \in Worker : sub[w] = "on" => inbox[w] = <<>>

\* Once the events are handled, every worker's copy of a target's health is
\* the state in shared memory, which is what the next worker to start will
\* load: concurrent reports from stale copies change both in one order.
\* Excepted are a worker that lost an event while it started, and reports
\* that meet an add_target or remove_target, or die inside the lock or
\* outlive it.
CopiesAgree ==
    Settled /\ ~astray =>
        \A w \in Worker : sub[w] = "on" /\ w \notin missed
                            => view[w] = IF listed THEN state ELSE Nil

\* A report whose worker's copy is up to date turns a target from usable to
\* unusable, or back, only when its counter stands at the threshold, from
\* the decision until the state is stored; excepted are reports that meet a
\* change of the list, which clears the counters without the target's lock,
\* and those that outlive the lock.
ChangesNeedCounts ==
    [][\A p \in Proc : /\ pc[p] = "store" /\ pc'[p] = "post" /\ job[p].kind # Nil /\ ~astray
                       /\ job[p].snap = state /\ Class(state') # Class(state)
                       => ctr[job[p].kind] >= LimitOf(p, job[p].kind)]_vars

\* Two rounds of one mode overlap only because the lock of the mode ran out
\* under one of them, although a late round removes the lock of its
\* successor when it ends.
RoundsBounded ==
    \A m \in Mode : Cardinality(Rounds(m)) <= late[m] + (IF cblock[m] THEN 1 ELSE 0)

\* When no timer runs, Redis says of a target what Writer's copy says, up to
\* "mostly", unless timers overlapped, the write failed, Writer started or
\* died, or the class changed without an event that is written.
RedisFollows ==
    /\ sub[Writer] = "on" /\ view[Writer] # Nil /\ pend = NoTimers /\ ~torn
    => redis = Class(view[Writer])

\* checks.active.healthy.successes is the "number of successes to consider a
\* target healthy" (healthcheck.lua:1563): a report makes an unhealthy target
\* usable only with that many.
RiseNeedsSuccesses ==
    [][\A p \in Proc : /\ pc[p] = "store" /\ pc'[p] = "post" /\ job[p].kind # Nil
                       /\ state \in Down /\ state' \in Up
                       => ctr["success"] >= LimitOf(p, "success")]_vars
=============================================================================
