-------------------------- MODULE HealthCheckProofs --------------------------
(***************************************************************************)
(* Proofs about HealthCheck for any number of workers, threads, calls and  *)
(* faults and any thresholds.  The lock of a target and the lock of the    *)
(* list are the reason for most of it: what their holders may rely on, as  *)
(* long as none of them has lost its lock, is the first part of the        *)
(* inductive invariant.  The others say where the copies of the workers    *)
(* are going while events are on their way, which timer of Writer is the   *)
(* last one, and how rounds and reports are counted.                       *)
(***************************************************************************)
EXTENDS HealthCheck, FiniteSetTheorems, TLAPS

\* The labels inside the lock of the target and inside the lock of the list.
InTarget == {"store", "post"}
InList   == {"add", "added", "remove", "clear", "removed"}

\* The labels between a change in shared memory and its event.
Unannounced == {"post", "added", "remove", "clear", "removed"}

\* A process that does something belongs to a worker that runs.
Manned == \A p \in Proc : pc[p] # "idle" => sub[Home[p]] = "on"

\* A process inside a lock is its holder, which it is until the lock runs out
\* under it.
LocksHeld == \A p \in Proc : /\ pc[p] \in InTarget => tlock = p
                             /\ pc[p] \in InList => llock = p

\* The history variable astray has seen what it is there to see.
StraySeen == \/ tlock # Nil /\ (llock # Nil \/ ~listed)
             \/ "orphan" \in {tlock, llock}
             => astray

\* A round belongs to a mode.
RoundsHaveModes == \A p \in Proc : pc[p] \in {"check", "ending"} => job[p].mode \in Mode

\* A process that is not in a call has no report under way.
IdleFree == \A p \in Proc : pc[p] = "idle" => job[p].kind = Nil

\* What was decided from the counters still stands when it is stored.
Decided == ~astray => \A p \in Proc : pc[p] = "store" /\ job[p].kind # Nil =>
    \/ job[p].new = Verdict(job[p].kind) /\ ctr[job[p].kind] >= LimitOf(p, job[p].kind)
    \/ job[p].new = "mostly_healthy" /\ job[p].snap = "healthy"
    \/ job[p].new = "mostly_unhealthy" /\ job[p].snap = "unhealthy"

\* The labels of a process that has chosen a health, and that it has.
Choosing == {"store", "post", "add", "added"}
Chosen == \A p \in Proc : pc[p] \in Choosing => job[p].new # Nil

\* What a process is about to announce is what shared memory says.
Announced == ~astray => \A p \in Proc :
    /\ pc[p] = "add" => ~listed
    /\ pc[p] = "added" => listed
    /\ pc[p] \in {"remove", "clear", "removed"} => ~listed
    /\ pc[p] \in {"post", "add", "added"} => state = job[p].new

\* What shared memory says of the target.
Truth == IF listed THEN state ELSE Nil

\* A worker's copy once it has handled its events.
Final(w) == IF inbox[w] = <<>> THEN view[w]
            ELSE event_handler(view[w], inbox[w][Len(inbox[w])])

\* Workers whose copies are promised to agree.
Following(w) == \/ sub[w] = "on" /\ w \notin missed
                \/ sub[w] = "loaded" /\ inbox[w] = <<>>

\* When every change is announced, every copy is on its way to the truth.
Heading == ~astray /\ (\A p \in Proc : pc[p] \notin Unannounced)
             => \A w \in Worker : Following(w) => Final(w) = Truth

\* Unless Redis is torn, the value Writer's copy asks for has been written,
\* or it is the value of the only timer.
OneTimer == ~torn /\ view[Writer] # Nil =>
    \/ pend = NoTimers /\ redis = Class(view[Writer])
    \/ \E m \in Mode : /\ pend = [NoTimers EXCEPT ![m] = 1]
                       /\ m = Class(view[Writer])

\* Every counted report is one call, and those that wait for the lock have
\* not been counted yet.
Waiting == {p \in Proc : pc[p] = "lock" /\ job[p].kind # Nil}
ReportsCounted == \A k \in Kind : ctr[k] + Cardinality(Waiting) <= reports

\* Every late round was a fault.
LateCounted == \A m \in Mode : late[m] <= faults

\* The inductive invariant.
IInv == /\ TypeOK /\ Manned /\ (~astray => LocksHeld) /\ StraySeen /\ RoundsHaveModes
        /\ IdleFree /\ Chosen /\ Decided /\ Announced /\ Heading /\ OneTimer
        /\ ReportsCounted /\ LateCounted /\ RoundsBounded

-----------------------------------------------------------------------------

\* Labels of a process.
Label == {"idle", "lock", "store", "post", "add", "added", "remove", "clear", "removed",
          "check", "ending"}

\* Nil is none of the other values.
LEMMA NilApart ==
  /\ Nil \notin Kind /\ Nil \notin Health /\ Nil \notin Mode /\ Nil \notin Proc
  /\ Nil \notin Worker /\ Nil # "remove" /\ Nil # "orphan"
  /\ "orphan" \notin Proc /\ "orphan" \notin Worker
  /\ Mode \subseteq Health
<1>1. Mode \subseteq Health
  BY DEF Mode, Health, Up, Down
<1>2. QED
  BY <1>1, CheckerAssumption

\* What the class of a health is.
LEMMA ClassType ==
  /\ Class(Nil) = Nil
  /\ \A h \in Health : Class(h) \in Mode
  /\ \A h \in Mode : Class(h) = h
<1>1. Nil \notin Up /\ Nil \notin Down
  BY NilApart DEF Health
<1>2. QED
  BY <1>1 DEF Class, Health, Mode, Up, Down

\* A verdict is a mode.
LEMMA VerdictType ==
  ASSUME NEW k
  PROVE  Verdict(k) \in Mode /\ Verdict(k) \in Health
BY NilApart DEF Verdict, Mode

\* The empty job.
LEMMA NoJobType ==
  /\ NoJob \in Job
  /\ NoJob.kind = Nil /\ NoJob.snap = Nil /\ NoJob.new = Nil /\ NoJob.mode = Nil
BY DEF NoJob, Job

\* The ways a job changes.
LEMMA JobOfReport ==
  ASSUME NEW j \in Job, NEW k \in Kind, NEW h \in Health \cup {Nil}
  PROVE  LET y == [j EXCEPT !.kind = k, !.snap = h]
         IN  y \in Job /\ y.kind = k /\ y.snap = h /\ y.new = j.new /\ y.mode = j.mode
BY DEF Job

\* A new health is chosen for the target.
LEMMA JobOfChange ==
  ASSUME NEW j \in Job, NEW h \in Health
  PROVE  LET y == [j EXCEPT !.new = h]
         IN  /\ y \in Job /\ y.new = h
             /\ y.kind = j.kind /\ y.snap = j.snap /\ y.mode = j.mode
BY DEF Job

\* A round begins, or goes on without the report it was at.
LEMMA JobOfRound ==
  ASSUME NEW m \in Mode \cup {Nil}
  PROVE  LET y == [NoJob EXCEPT !.mode = m]
         IN  y \in Job /\ y.kind = Nil /\ y.snap = Nil /\ y.new = Nil /\ y.mode = m
BY NoJobType DEF Job

\* Process p goes to l with the job y; the other processes stay.
Moves(p, l, y) == /\ pc' \in [Proc -> Label] /\ job' \in [Proc -> Job]
                  /\ pc'[p] = l /\ job'[p] = y
                  /\ \A q \in Proc : q # p => pc'[q] = pc[q] /\ job'[q] = job[q]

\* A jump with a new job.
LEMMA JumpMoves ==
  ASSUME TypeOK, NEW p \in Proc, NEW l \in Label, NEW y \in Job, Goto(p, l),
         job' = [job EXCEPT ![p] = y]
  PROVE  Moves(p, l, y)
BY DEF TypeOK, Goto, Moves, Label

\* A jump with the old one.
LEMMA JumpKeepsJob ==
  ASSUME TypeOK, NEW p \in Proc, NEW l \in Label, Goto(p, l), job' = job
  PROVE  Moves(p, l, job[p])
BY DEF TypeOK, Goto, Moves, Label

\* A process that is done with a call drops its job, but for its round.
LEMMA ReturnMoves ==
  ASSUME TypeOK, NEW p \in Proc, Return(p)
  PROVE  \E l \in {"idle", "ending"}, y \in Job :
            /\ Moves(p, l, y) /\ y.kind = Nil /\ y.new = Nil /\ y.mode = job[p].mode
            /\ l = "ending" => y.mode \in Mode
<1>1. job[p].mode \in Mode \cup {Nil}
  BY DEF TypeOK, Job
<1>2. PICK m \in Mode \cup {Nil} : m = job[p].mode
  BY <1>1
<1>3. PICK y \in Job : /\ y = [NoJob EXCEPT !.mode = m]
                       /\ y.kind = Nil /\ y.new = Nil /\ y.mode = m
  BY JobOfRound
<1>4. PICK l \in {"idle", "ending"} : l = Back(p)
  BY DEF Back
<1>5. l = "ending" => m \in Mode
  BY <1>2, <1>4 DEF Back
<1>6. Goto(p, l) /\ job' = [job EXCEPT ![p] = y]
  BY <1>2, <1>3, <1>4, Zenon DEF Return
<1>7. Moves(p, l, y)
  BY <1>6, JumpMoves DEF Label
<1>8. QED
  BY <1>2, <1>3, <1>5, <1>7

\* The processes and the job after a report has been accepted.
LEMMA ReportMoves ==
  ASSUME TypeOK, NEW p \in Proc, NEW k \in Kind, Report(p, k)
  PROVE  \E y \in Job : /\ Moves(p, "lock", y) /\ y.kind = k
                        /\ y.snap = view[Home[p]] /\ y.mode = job[p].mode
<1>1. PICK h \in Health \cup {Nil} : h = view[Home[p]]
  BY CheckerAssumption DEF TypeOK
<1>2. PICK j \in Job : j = job[p]
  BY DEF TypeOK
<1> DEFINE z == [j EXCEPT !.kind = k, !.snap = h]
<1>0. z \in Job /\ z.kind = k /\ z.snap = h /\ z.mode = j.mode
  BY DEF Job
<1>3. PICK y \in Job : /\ y = z
                       /\ y.kind = k /\ y.snap = h /\ y.mode = j.mode
  BY <1>0, Zenon
<1>4. job' = [job EXCEPT ![p] = y]
  BY <1>1, <1>2, <1>3, Zenon DEF Report
<1>5. Moves(p, "lock", y)
  BY <1>4, JumpMoves DEF Report, Label
<1>6. QED
  BY <1>1, <1>2, <1>3, <1>5

\* What the types say of one process.
LEMMA JobTyped ==
  ASSUME TypeOK, NEW p \in Proc
  PROVE  /\ job[p] \in Job /\ pc[p] \in Label
         /\ job[p].kind \in Kind \cup {Nil} /\ job[p].snap \in Health \cup {Nil}
         /\ job[p].new \in Health \cup {Nil} /\ job[p].mode \in Mode \cup {Nil}
         /\ Home[p] \in Worker /\ view[Home[p]] \in Health \cup {Nil}
<1>1. job[p] \in Job /\ pc[p] \in Label
  BY DEF TypeOK, Label
<1>2. Home[p] \in Worker /\ view[Home[p]] \in Health \cup {Nil}
  BY CheckerAssumption DEF TypeOK
<1>3. QED
  BY <1>1, <1>2 DEF Job

\* Where the calls of the module take a process.
LEMMA PassiveMoves ==
  ASSUME TypeOK, NEW p \in Proc, Passive(p)
  PROVE  /\ pc[p] = "idle" /\ sub[Home[p]] = "on" /\ reports + admin < MaxCalls /\ reports' = reports + 1
         /\ \E y \in Job : Moves(p, "lock", y) /\ y.kind \in Kind /\ y.mode = job[p].mode
<1>1. PICK k \in Kind : Report(p, k)
  BY DEF Passive
<1>2. reports + admin < MaxCalls /\ reports' = reports + 1
  BY <1>1, Zenon DEF Report
<1>3. \E y \in Job : Moves(p, "lock", y) /\ y.kind \in Kind /\ y.mode = job[p].mode
  BY <1>1, ReportMoves
<1>4. QED
  BY <1>2, <1>3 DEF Passive, On

\* A call of set_target_status.
LEMMA SetStatusMoves ==
  ASSUME TypeOK, NEW p \in Proc, SetStatus(p)
  PROVE  /\ pc[p] = "idle" /\ sub[Home[p]] = "on" /\ CanCall /\ admin' = admin + 1
         /\ \E y \in Job : /\ Moves(p, "lock", y) /\ y.kind = job[p].kind
                           /\ y.mode = job[p].mode
<1>1. PICK h \in Mode : job' = [job EXCEPT ![p] = [@ EXCEPT !.new = h]]
  BY DEF SetStatus
<1>2. h \in Health
  BY NilApart
<1>3. PICK j \in Job : j = job[p]
  BY JobTyped
<1>4. PICK y \in Job : /\ y = [j EXCEPT !.new = h]
                       /\ y.kind = j.kind /\ y.mode = j.mode
  BY <1>2, JobOfChange
<1>5. job' = [job EXCEPT ![p] = y]
  BY <1>1, <1>3, <1>4, Zenon
<1>6. Moves(p, "lock", y)
  BY <1>5, JumpMoves DEF SetStatus, Label
<1>7. QED
  BY <1>3, <1>4, <1>6 DEF SetStatus, On

\* The decision of a report under the lock of the target.
LEMMA NewHealthType ==
  ASSUME NEW p, NEW k, NEW s
  PROVE  NewHealth(p, k, s) \in Health \cup {Nil}
BY VerdictType DEF NewHealth, Health, Up, Down

\* A report is counted: it leads to a change, or it is over.
LEMMA CountMoves ==
  ASSUME TypeOK, NEW p \in Proc, Count(p)
  PROVE  /\ pc[p] = "lock" /\ tlock = Nil
         /\ ctr' = IF job[p].kind = Nil THEN [j \in Kind |-> 0] ELSE Counted(job[p].kind)
         /\ \/ /\ tlock' = p
               /\ \E y \in Job : /\ Moves(p, "store", y) /\ y.new # Nil /\ y.kind = job[p].kind
                                 /\ y.snap = job[p].snap /\ y.mode = job[p].mode
                                 /\ y.kind # Nil => y.new = NewHealth(p, y.kind, y.snap)
            \/ tlock' = tlock /\ Return(p)
<1> DEFINE k == job[p].kind
           new == IF k = Nil THEN job[p].new ELSE NewHealth(p, k, job[p].snap)
<1>1. /\ pc[p] = "lock" /\ tlock = Nil
      /\ ctr' = IF k = Nil THEN [j \in Kind |-> 0] ELSE Counted(k)
      /\ \/ /\ new # Nil /\ tlock' = p /\ Goto(p, "store")
            /\ job' = [job EXCEPT ![p] = [@ EXCEPT !.new = new]]
         \/ tlock' = tlock /\ Return(p)
  BY Zenon DEF Count
<1>2. CASE /\ new # Nil /\ tlock' = p /\ Goto(p, "store")
           /\ job' = [job EXCEPT ![p] = [@ EXCEPT !.new = new]]
  <2>1. new \in Health \cup {Nil}
    BY JobTyped, NewHealthType
  <2>2. PICK h \in Health : h = new
    BY <1>2, <2>1
  <2>3. PICK j \in Job : j = job[p]
    BY JobTyped
  <2>4. PICK y \in Job : /\ y = [j EXCEPT !.new = h] /\ y.new = h
                         /\ y.kind = j.kind /\ y.snap = j.snap /\ y.mode = j.mode
    BY JobOfChange
  <2>5. job' = [job EXCEPT ![p] = y]
    BY <1>2, <2>2, <2>3, <2>4, Zenon
  <2>6. Moves(p, "store", y)
    BY <1>2, <2>5, JumpMoves DEF Label
  <2>7. y.kind # Nil => y.new = NewHealth(p, y.kind, y.snap)
    BY <2>2, <2>3, <2>4
  <2>8. y.new # Nil /\ y.kind = job[p].kind /\ y.snap = job[p].snap /\ y.mode = job[p].mode
    BY <1>2, <2>2, <2>3, <2>4
  <2>9. QED
    BY <1>1, <1>2, <2>6, <2>7, <2>8
<1>3. QED
  BY <1>1, <1>2

\* The steps of a process that keep its job.
LEMMA PlainMoves ==
  ASSUME TypeOK, NEW p \in Proc
  PROVE  /\ Store(p) => pc[p] = "store" /\ Moves(p, "post", job[p])
         /\ AddList(p) => pc[p] = "add" /\ Moves(p, "added", job[p])
         /\ RemoveTarget(p) => pc[p] = "idle" /\ Moves(p, "remove", job[p])
         /\ ClearState(p) => pc[p] = "remove" /\ Moves(p, "clear", job[p])
         /\ ClearCounters(p) => pc[p] = "clear" /\ Moves(p, "removed", job[p])
<1>1. ASSUME Store(p) PROVE pc[p] = "store" /\ Moves(p, "post", job[p])
  BY <1>1, JumpKeepsJob DEF Store, Label
<1>2. ASSUME AddList(p) PROVE pc[p] = "add" /\ Moves(p, "added", job[p])
  BY <1>2, JumpKeepsJob DEF AddList, Label
<1>3. ASSUME RemoveTarget(p) PROVE pc[p] = "idle" /\ Moves(p, "remove", job[p])
  BY <1>3, JumpKeepsJob DEF RemoveTarget, Label
<1>4. ASSUME ClearState(p) PROVE pc[p] = "remove" /\ Moves(p, "clear", job[p])
  BY <1>4, JumpKeepsJob DEF ClearState, Label
<1>5. ASSUME ClearCounters(p) PROVE pc[p] = "clear" /\ Moves(p, "removed", job[p])
  BY <1>5, JumpKeepsJob DEF ClearCounters, Label
<1>6. QED
  BY <1>1, <1>2, <1>3, <1>4, <1>5

\* A call of add_target.
LEMMA AddTargetMoves ==
  ASSUME TypeOK, NEW p \in Proc, AddTarget(p)
  PROVE  /\ pc[p] = "idle" /\ sub[Home[p]] = "on" /\ CanCall /\ admin' = admin + 1
         /\ llock = Nil /\ llock' = p /\ ~listed /\ state' \in Mode
         /\ \E y \in Job : /\ Moves(p, "add", y) /\ y.new = state'
                           /\ y.kind = job[p].kind /\ y.mode = job[p].mode
<1>1. PICK h \in Mode : state' = h /\ job' = [job EXCEPT ![p] = [@ EXCEPT !.new = h]]
  BY DEF AddTarget
<1>2. h \in Health
  BY NilApart
<1>3. PICK j \in Job : j = job[p]
  BY JobTyped
<1>4. PICK y \in Job : /\ y = [j EXCEPT !.new = h] /\ y.new = h
                       /\ y.kind = j.kind /\ y.mode = j.mode
  BY <1>2, JobOfChange
<1>5. job' = [job EXCEPT ![p] = y]
  BY <1>1, <1>3, <1>4, Zenon
<1>6. Moves(p, "add", y)
  BY <1>5, JumpMoves DEF AddTarget, Label
<1>7. QED
  BY <1>1, <1>3, <1>4, <1>6 DEF AddTarget, On

\* A probe of the active checks is reported, or not.
LEMMA CheckMoves ==
  ASSUME TypeOK, NEW p \in Proc, Check(p)
  PROVE  /\ pc[p] = "check"
         /\ \/ /\ reports + admin < MaxCalls /\ reports' = reports + 1
               /\ \E y \in Job : Moves(p, "lock", y) /\ y.kind \in Kind /\ y.mode = job[p].mode
            \/ reports' = reports /\ Moves(p, "ending", job[p])
<1>1. \/ \E k \in Kind : Report(p, k)
      \/ Goto(p, "ending") /\ UNCHANGED <<job, reports>>
  BY DEF Check
<1>2. ASSUME NEW k \in Kind, Report(p, k)
      PROVE  /\ pc[p] = "check"
             /\ reports + admin < MaxCalls /\ reports' = reports + 1
             /\ \E y \in Job : Moves(p, "lock", y) /\ y.kind \in Kind /\ y.mode = job[p].mode
  <2>1. reports + admin < MaxCalls /\ reports' = reports + 1
    BY <1>2, Zenon DEF Report
  <2>2. \E y \in Job : Moves(p, "lock", y) /\ y.kind \in Kind /\ y.mode = job[p].mode
    BY <1>2, ReportMoves
  <2>3. QED
    BY <2>1, <2>2 DEF Check
<1>3. CASE Goto(p, "ending") /\ UNCHANGED <<job, reports>>
  BY <1>3, JumpKeepsJob DEF Check, Label
<1>4. QED
  BY <1>1, <1>2, <1>3

\* The end of a round, and the beginning of one.
LEMMA RoundMoves ==
  ASSUME TypeOK, NEW p \in Proc
  PROVE  /\ EndRound(p) => pc[p] = "ending" /\ Moves(p, "idle", NoJob)
         /\ \A m \in Mode : Tick(p, m) =>
              /\ pc[p] = "idle" /\ sub[Home[p]] = "on"
              /\ \E y \in Job : Moves(p, "check", y) /\ y.kind = Nil /\ y.mode = m
<1>1. ASSUME EndRound(p) PROVE pc[p] = "ending" /\ Moves(p, "idle", NoJob)
  BY <1>1, JumpMoves, NoJobType DEF EndRound, Label
<1>2. ASSUME NEW m \in Mode, Tick(p, m)
      PROVE  /\ pc[p] = "idle" /\ sub[Home[p]] = "on"
             /\ \E y \in Job : Moves(p, "check", y) /\ y.kind = Nil /\ y.mode = m
  <2>1. PICK y \in Job : /\ y = [NoJob EXCEPT !.mode = m]
                         /\ y.kind = Nil /\ y.mode = m
    BY JobOfRound
  <2>2. job' = [job EXCEPT ![p] = y]
    BY <1>2, <2>1 DEF Tick
  <2>3. Moves(p, "check", y)
    BY <1>2, <2>2, JumpMoves DEF Tick, Label
  <2>4. QED
    BY <1>2, <2>1, <2>3 DEF Tick, On
<1>3. QED
  BY <1>1, <1>2

-----------------------------------------------------------------------------

\* What handling events leaves in a copy, for events that are not empty.
LEMMA HandlerType ==
  ASSUME NEW v, NEW e \in Health \cup {"remove"}
  PROVE  event_handler(v, e) \in Health \cup {Nil}
BY DEF event_handler

\* The timers of a list of events are finitely many.
LEMMA TimersFinite ==
  ASSUME NEW es \in Seq(Health \cup {"remove"}), NEW m
  PROVE  /\ IsFiniteSet(Timers(es)) /\ Cardinality(Timers(es)) \in Nat
         /\ Cardinality({i \in Timers(es) : es[i] = m}) \in Nat
<1>1. IsFiniteSet(1..Len(es))
  BY FS_Interval
<1>2. Timers(es) \subseteq 1..Len(es) /\ {i \in Timers(es) : es[i] = m} \subseteq 1..Len(es)
  BY DEF Timers
<1>3. IsFiniteSet(Timers(es)) /\ IsFiniteSet({i \in Timers(es) : es[i] = m})
  BY <1>1, <1>2, FS_Subset
<1>4. QED
  BY <1>3, FS_CardinalityType

\* Handling events keeps the types.
LEMMA HandleTypes ==
  ASSUME TypeOK, NEW w \in Worker, NEW es \in Seq(Health \cup {"remove"}), es # <<>>,
         Handle(w, es)
  PROVE  /\ view' \in [Worker -> Health \cup {Nil}]
         /\ view'[w] = event_handler(view[w], es[Len(es)])
         /\ \A v \in Worker : v # w => view'[v] = view[v]
         /\ pend' \in [Mode -> Nat] /\ redis' = redis /\ torn' \in BOOLEAN
         /\ w # Writer => pend' = pend /\ torn' = torn
<1>1. es[Len(es)] \in Health \cup {"remove"}
  OBVIOUS
<1>2. event_handler(view[w], es[Len(es)]) \in Health \cup {Nil}
  BY <1>1 DEF event_handler
<1>3. view' = [view EXCEPT ![w] = event_handler(view[w], es[Len(es)])]
  BY DEF Handle
<1>4. /\ view' \in [Worker -> Health \cup {Nil}]
      /\ view'[w] = event_handler(view[w], es[Len(es)])
      /\ \A v \in Worker : v # w => view'[v] = view[v]
  BY <1>2, <1>3 DEF TypeOK
<1>5. CASE w # Writer
  BY <1>4, <1>5 DEF Handle, writer, TypeOK
<1>6. CASE w = Writer
  <2>1. pend' = [m \in Mode |-> pend[m] + Cardinality({i \in Timers(es) : es[i] = m})]
    BY <1>6 DEF Handle
  <2>2. pend' \in [Mode -> Nat]
    <3>1. ASSUME NEW m \in Mode
          PROVE  pend[m] + Cardinality({i \in Timers(es) : es[i] = m}) \in Nat
      <4>1. Cardinality({i \in Timers(es) : es[i] = m}) \in Nat
        BY TimersFinite
      <4>2. pend[m] \in Nat
        BY DEF TypeOK
      <4>3. QED
        BY <4>1, <4>2
    <3>2. QED
      BY <2>1, <3>1, Zenon
  <2>3. redis' = redis
    BY <1>6 DEF Handle
  <2>4. torn' \in BOOLEAN
    <3> DEFINE shown == IF Timers(es) = {} THEN Class(view[w]) ELSE es[LastTimer(es)]
               leap == view'[w] # Nil /\ Class(view'[w]) # shown
               race == Timers(es) # {} /\ (pend # NoTimers \/ Cardinality(Timers(es)) > 1)
    <3>1. torn' = (leap \/ race \/ (torn /\ Timers(es) = {}))
      BY <1>6, Zenon DEF Handle
    <3>2. (leap \/ race \/ (torn /\ Timers(es) = {})) \in BOOLEAN
      OBVIOUS
    <3>3. QED
      BY <3>1, <3>2
  <2>5. QED
    BY <1>4, <1>6, <2>2, <2>3, <2>4
<1>7. QED
  BY <1>5, <1>6

\* The queues after an event.
Queued(e) == [v \in Worker |-> IF sub[v] = "down" THEN inbox[v] ELSE Append(inbox[v], e)]

\* An event has been queued for every worker that runs, and handled with all
\* before it by the worker that raised it, unless this one is busy.
LEMMA RaiseCases ==
  ASSUME TypeOK, NEW p \in Proc, NEW e \in Health \cup {"remove"}, Raise(p, e),
         sub[Home[p]] = "on"
  PROVE  /\ Queued(e) \in [Worker -> Seq(Health \cup {"remove"})]
         /\ \/ /\ inbox' = [Queued(e) EXCEPT ![Home[p]] = <<>>]
               /\ Queued(e)[Home[p]] = Append(inbox[Home[p]], e)
               /\ Handle(Home[p], Queued(e)[Home[p]])
            \/ inbox' = Queued(e) /\ UNCHANGED <<view, writer>>
<1>1. Home[p] \in Worker
  BY JobTyped
<1>2. Queued(e) \in [Worker -> Seq(Health \cup {"remove"})]
  BY DEF TypeOK, Queued
<1>3. Queued(e)[Home[p]] = Append(inbox[Home[p]], e)
  BY <1>1 DEF Queued
<1>4. QED
  BY <1>2, <1>3, Zenon DEF Raise, Queued

\* Raising an event keeps the types.
LEMMA RaiseTypes ==
  ASSUME TypeOK, NEW p \in Proc, NEW e \in Health \cup {"remove"}, Raise(p, e),
         sub[Home[p]] = "on"
  PROVE  /\ inbox' \in [Worker -> Seq(Health \cup {"remove"})]
         /\ view' \in [Worker -> Health \cup {Nil}]
         /\ pend' \in [Mode -> Nat] /\ redis' = redis /\ torn' \in BOOLEAN
<1>1. PICK w \in Worker : w = Home[p]
  BY JobTyped
<1>2. PICK qu \in [Worker -> Seq(Health \cup {"remove"})] : qu = Queued(e)
  BY RaiseCases
<1>3. CASE inbox' = Queued(e) /\ UNCHANGED <<view, writer>>
  BY <1>2, <1>3 DEF TypeOK, writer
<1>4. CASE /\ inbox' = [Queued(e) EXCEPT ![Home[p]] = <<>>]
           /\ Queued(e)[Home[p]] = Append(inbox[Home[p]], e)
           /\ Handle(Home[p], Queued(e)[Home[p]])
  <2>1. inbox' = [qu EXCEPT ![w] = <<>>] /\ qu[w] = Append(inbox[w], e)
    BY <1>1, <1>2, <1>4, Zenon
  <2>2. PICK es \in Seq(Health \cup {"remove"}) : es = qu[w]
    OBVIOUS
  <2>3. Handle(w, es)
    BY <1>1, <1>2, <1>4, <2>2, Zenon
  <2>4. es # <<>>
    BY <2>1, <2>2 DEF TypeOK
  <2>5. inbox' \in [Worker -> Seq(Health \cup {"remove"})]
    BY <2>1
  <2>6. QED
    BY <2>3, <2>4, <2>5, HandleTypes
<1>5. QED
  BY <1>3, <1>4, RaiseCases

\* A worker's death leaves the processes of the others alone.
LEMMA CrashMoves ==
  ASSUME TypeOK, NEW w \in Worker, Crash(w)
  PROVE  /\ pc' \in [Proc -> Label] /\ job' \in [Proc -> Job]
         /\ \A p \in Proc : /\ Home[p] = w => pc'[p] = "idle" /\ job'[p] = NoJob
                            /\ Home[p] # w => pc'[p] = pc[p] /\ job'[p] = job[p]
BY NoJobType DEF TypeOK, Crash, Label

-----------------------------------------------------------------------------

\* A process that takes a lock only when it is free, and releases no lock but
\* its own, leaves what the others hold alone.
LEMMA LocksKept ==
  ASSUME TypeOK, LocksHeld, NEW p \in Proc, NEW l \in Label, NEW y \in Job, Moves(p, l, y),
         tlock' = tlock \/ tlock \in {Nil, p}, llock' = llock \/ llock \in {Nil, p},
         l \in InTarget => tlock' = p, l \in InList => llock' = p
  PROVE  LocksHeld'
<1>1. Nil \notin Proc
  BY NilApart
<1>2. QED
  BY <1>1 DEF LocksHeld, Moves

\* Every step keeps the locks with their holders; a lock that runs out under
\* its holder is not among the steps of Act.
LEMMA LocksHeldKept ==
  ASSUME TypeOK, LocksHeld, Act
  PROVE  LocksHeld'
<1> USE DEF InTarget, InList, Label
<1>1. ASSUME NEW p \in Proc, Return(p),
             tlock' = tlock \/ tlock \in {Nil, p}, llock' = llock \/ llock \in {Nil, p}
      PROVE  LocksHeld'
  <2>1. PICK l \in {"idle", "ending"}, y \in Job : Moves(p, l, y)
    BY <1>1, ReturnMoves
  <2>2. QED
    BY <1>1, <2>1, LocksKept
<1>2. ASSUME NEW p \in Proc, Passive(p) PROVE LocksHeld'
  <2>1. tlock' = tlock /\ llock' = llock
    BY <1>2 DEF Passive, locks
  <2>2. QED
    BY <1>2, <2>1, PassiveMoves, LocksKept
<1>3. ASSUME NEW p \in Proc, SetStatus(p) PROVE LocksHeld'
  <2>1. tlock' = tlock /\ llock' = llock
    BY <1>3 DEF SetStatus, locks
  <2>2. QED
    BY <1>3, <2>1, SetStatusMoves, LocksKept
<1>4. ASSUME NEW p \in Proc, Count(p) PROVE LocksHeld'
  <2>1. tlock = Nil /\ llock' = llock /\ pc[p] = "lock"
    BY <1>4 DEF Count
  <2>2. CASE Return(p)
    BY <1>1, <2>1, <2>2
  <2>3. CASE ~Return(p)
    <3>1. tlock' = p /\ \E y \in Job : Moves(p, "store", y)
      BY <1>4, <2>3, CountMoves
    <3>2. QED
      BY <2>1, <3>1, LocksKept
  <2>4. QED
    BY <2>2, <2>3
<1>5. ASSUME NEW p \in Proc, LockTimeout(p) PROVE LocksHeld'
  <2>1. tlock' = tlock /\ llock' = llock /\ Return(p) /\ pc[p] = "lock"
    BY <1>5 DEF LockTimeout, locks
  <2>2. QED
    BY <1>1, <2>1 DEF LocksHeld
<1>6. ASSUME NEW p \in Proc, Store(p) PROVE LocksHeld'
  <2>1. tlock' = tlock /\ llock' = llock
    BY <1>6 DEF Store, locks
  <2>2. tlock = p /\ Moves(p, "post", job[p]) /\ job[p] \in Job
    BY <1>6, PlainMoves, JobTyped DEF LocksHeld
  <2>3. PICK y \in Job : Moves(p, "post", y)
    BY <2>2
  <2>4. QED
    BY <2>1, <2>2, <2>3, LocksKept
<1>7. ASSUME NEW p \in Proc, Post(p) PROVE LocksHeld'
  <2>1. llock' = llock /\ tlock = p /\ Return(p)
    BY <1>7 DEF Post, LocksHeld
  <2>2. QED
    BY <1>1, <2>1
<1>8. ASSUME NEW p \in Proc, AddTarget(p) PROVE LocksHeld'
  <2>1. tlock' = tlock
    BY <1>8 DEF AddTarget
  <2>2. QED
    BY <1>8, <2>1, AddTargetMoves, LocksKept
<1>9. ASSUME NEW p \in Proc, AddList(p) PROVE LocksHeld'
  <2>1. tlock' = tlock /\ llock' = llock
    BY <1>9 DEF AddList, locks
  <2>2. llock = p /\ Moves(p, "added", job[p]) /\ job[p] \in Job
    BY <1>9, PlainMoves, JobTyped DEF LocksHeld
  <2>3. PICK y \in Job : Moves(p, "added", y)
    BY <2>2
  <2>4. QED
    BY <2>1, <2>2, <2>3, LocksKept
<1>10. ASSUME NEW p \in Proc, RemoveTarget(p) PROVE LocksHeld'
  <2>1. tlock' = tlock /\ llock = Nil /\ llock' = p
    BY <1>10 DEF RemoveTarget, On
  <2>2. Moves(p, "remove", job[p]) /\ job[p] \in Job
    BY <1>10, PlainMoves, JobTyped
  <2>3. PICK y \in Job : Moves(p, "remove", y)
    BY <2>2
  <2>4. QED
    BY <2>1, <2>3, LocksKept
<1>11. ASSUME NEW p \in Proc, ClearState(p) PROVE LocksHeld'
  <2>1. tlock' = tlock /\ llock' = llock
    BY <1>11 DEF ClearState, locks
  <2>2. llock = p /\ Moves(p, "clear", job[p]) /\ job[p] \in Job
    BY <1>11, PlainMoves, JobTyped DEF LocksHeld
  <2>3. PICK y \in Job : Moves(p, "clear", y)
    BY <2>2
  <2>4. QED
    BY <2>1, <2>2, <2>3, LocksKept
<1>12. ASSUME NEW p \in Proc, ClearCounters(p) PROVE LocksHeld'
  <2>1. tlock' = tlock /\ llock' = llock
    BY <1>12 DEF ClearCounters, locks
  <2>2. llock = p /\ Moves(p, "removed", job[p]) /\ job[p] \in Job
    BY <1>12, PlainMoves, JobTyped DEF LocksHeld
  <2>3. PICK y \in Job : Moves(p, "removed", y)
    BY <2>2
  <2>4. QED
    BY <2>1, <2>2, <2>3, LocksKept
<1>13. ASSUME NEW p \in Proc, Announce(p) PROVE LocksHeld'
  <2>1. tlock' = tlock /\ llock = p /\ Return(p)
    BY <1>13 DEF Announce, LocksHeld
  <2>2. QED
    BY <1>1, <2>1
<1>14. ASSUME NEW p \in Proc, Check(p) PROVE LocksHeld'
  <2>1. tlock' = tlock /\ llock' = llock
    BY <1>14 DEF Check, locks
  <2>2. pc[p] = "check" /\ job[p] \in Job
    BY <1>14, CheckMoves, JobTyped DEF LocksHeld
  <2>3. PICK l \in {"lock", "ending"}, y \in Job : Moves(p, l, y)
    BY <1>14, <2>2, CheckMoves
  <2>4. QED
    BY <2>1, <2>2, <2>3, LocksKept
<1>15. ASSUME NEW p \in Proc, EndRound(p) PROVE LocksHeld'
  <2>1. tlock' = tlock /\ llock' = llock
    BY <1>15 DEF EndRound
  <2>2. Moves(p, "idle", NoJob)
    BY <1>15, RoundMoves DEF LocksHeld
  <2>3. QED
    BY <2>1, <2>2, NoJobType, LocksKept
<1>16. ASSUME NEW p \in Proc, NEW m \in Mode, Tick(p, m) PROVE LocksHeld'
  <2>1. tlock' = tlock /\ llock' = llock
    BY <1>16 DEF Tick
  <2>2. QED
    BY <1>16, <2>1, RoundMoves, LocksKept
<1>17. ASSUME NEW w \in Worker, Deliver(w) \/ Load(w) \/ Start(w) PROVE LocksHeld'
  <2>1. pc' = pc /\ tlock' = tlock /\ llock' = llock
    BY <1>17 DEF Deliver, Load, Start, proc, locks
  <2>2. QED
    BY <2>1 DEF LocksHeld
<1>18. CASE \/ WriteRedis \/ WriteFails \/ PeriodExpires
            \/ \E m \in Mode : CallbackExpires(m)
  <2>1. pc' = pc /\ tlock' = tlock /\ llock' = llock
    BY <1>18 DEF WriteRedis, WriteFails, PeriodExpires, CallbackExpires, proc, locks
  <2>2. QED
    BY <2>1 DEF LocksHeld
<1>19. CASE OrphanExpires
  BY <1>19, NilApart DEF OrphanExpires, LocksHeld, proc
<1>20. ASSUME NEW w \in Worker, Crash(w) PROVE LocksHeld'
  <2>1. /\ tlock' = IF tlock \in {q \in Proc : Home[q] = w} THEN "orphan" ELSE tlock
        /\ llock' = IF llock \in {q \in Proc : Home[q] = w} THEN "orphan" ELSE llock
    BY <1>20 DEF Crash
  <2>2. QED
    BY <1>20, <2>1, CrashMoves, JobTyped DEF LocksHeld, TypeOK
<1>21. QED
  BY <1>2, <1>3, <1>4, <1>5, <1>6, <1>7, <1>8, <1>9, <1>10, <1>11, <1>12, <1>13, <1>14, <1>15,
     <1>16, <1>17, <1>18, <1>19, <1>20 DEF Act, Step, Call, Background

-----------------------------------------------------------------------------

\* A process of the checker takes a step.
Walks(p) == Step(p) \/ Call(p) \/ \E m \in Mode : Tick(p, m)

\* Wherever it goes, a round keeps its mode, and a call that is over leaves no
\* report behind.
LEMMA WalkMoves ==
  ASSUME TypeOK, RoundsHaveModes, IdleFree, Chosen, NEW p \in Proc, Walks(p)
  PROVE  \E l \in Label, y \in Job : /\ Moves(p, l, y)
                                     /\ l \in {"check", "ending"} => y.mode \in Mode
                                     /\ l = "idle" => y.kind = Nil
                                     /\ l \in Choosing => y.new # Nil
<1> USE DEF Choosing
<1> DEFINE Goal == \E l \in Label, y \in Job : /\ Moves(p, l, y)
                                               /\ l \in {"check", "ending"} => y.mode \in Mode
                                               /\ l = "idle" => y.kind = Nil
                                               /\ l \in Choosing => y.new # Nil
<1>1. ASSUME Return(p) PROVE Goal
  <2>1. PICK l \in {"idle", "ending"}, y \in Job :
           /\ Moves(p, l, y) /\ y.kind = Nil
           /\ l = "ending" => y.mode \in Mode
    BY <1>1, ReturnMoves
  <2>2. QED
    BY <2>1 DEF Label
<1>2. ASSUME NEW l \in Label \ {"check", "ending", "idle"}, NEW y \in Job, Moves(p, l, y),
             l \in Choosing => y.new # Nil
      PROVE  Goal
  BY <1>2
<1>3. CASE Passive(p)
  BY <1>3, <1>2, PassiveMoves DEF Label
<1>4. CASE SetStatus(p)
  BY <1>4, <1>2, SetStatusMoves DEF Label
<1>5. CASE Count(p)
  <2>1. CASE Return(p)
    BY <1>1, <2>1
  <2>2. CASE ~Return(p)
    <3>1. PICK y \in Job : Moves(p, "store", y) /\ y.new # Nil
      BY <1>5, <2>2, CountMoves
    <3>2. QED
      BY <1>2, <3>1 DEF Label
  <2>3. QED
    BY <2>1, <2>2
<1>6. CASE LockTimeout(p) \/ Post(p) \/ Announce(p)
  <2>1. Return(p)
    BY <1>6 DEF LockTimeout, Post, Announce
  <2>2. QED
    BY <1>1, <2>1
<1>7. CASE Store(p) \/ AddList(p) \/ RemoveTarget(p) \/ ClearState(p) \/ ClearCounters(p)
  <2>1. PICK y \in Job : y = job[p]
    BY JobTyped
  <2>2. \E l \in Label \ {"check", "ending", "idle"} :
           Moves(p, l, y) /\ (l \in Choosing => y.new # Nil)
    BY <1>7, <2>1, PlainMoves DEF Label, Chosen
  <2>3. QED
    BY <1>2, <2>2
<1>8. CASE AddTarget(p)
  BY <1>8, <1>2, AddTargetMoves, NilApart DEF Label
<1>9. CASE Check(p)
  <2>1. pc[p] = "check" /\ job[p].mode \in Mode /\ job[p] \in Job
    BY <1>9, CheckMoves, JobTyped DEF RoundsHaveModes
  <2>2. PICK y \in Job : y = job[p]
    BY <2>1
  <2>3. CASE Moves(p, "ending", job[p])
    BY <2>1, <2>2, <2>3 DEF Label
  <2>4. CASE \E z \in Job : Moves(p, "lock", z)
    BY <2>4, <1>2 DEF Label
  <2>5. QED
    BY <1>9, <2>3, <2>4, CheckMoves
<1>10. CASE EndRound(p)
  BY <1>10, RoundMoves, NoJobType DEF Label
<1>11. ASSUME NEW m \in Mode, Tick(p, m) PROVE Goal
  BY <1>11, RoundMoves DEF Label
<1>12. QED
  BY <1>3, <1>4, <1>5, <1>6, <1>7, <1>8, <1>9, <1>10, <1>11 DEF Walks, Step, Call
\* The steps of Act: a process, a timer or a worker.
LEMMA ActCases ==
  ASSUME Act
  PROVE  \/ \E p \in Proc : Walks(p)
         \/ \E w \in Worker : Deliver(w) \/ Load(w) \/ Start(w) \/ Crash(w)
         \/ WriteRedis \/ WriteFails \/ PeriodExpires \/ OrphanExpires
         \/ \E m \in Mode : CallbackExpires(m)
BY Zenon DEF Act, Walks, Background

\* The steps that are not a process's leave the processes alone, but for a death.
LEMMA BackgroundStays ==
  ASSUME \/ \E w \in Worker : Deliver(w) \/ Load(w) \/ Start(w)
         \/ WriteRedis \/ WriteFails \/ PeriodExpires \/ OrphanExpires
         \/ \E m \in Mode : CallbackExpires(m)
  PROVE  /\ pc' = pc /\ job' = job /\ listed' = listed /\ state' = state /\ ctr' = ctr
         /\ reports' = reports /\ admin' = admin
BY DEF Deliver, Load, Start, WriteRedis, WriteFails, PeriodExpires, OrphanExpires,
       CallbackExpires, proc, shm, bounds

\* Every step keeps the modes of the rounds.
LEMMA JobsKept ==
  ASSUME TypeOK, RoundsHaveModes, IdleFree, Chosen, Act
  PROVE  /\ RoundsHaveModes' /\ IdleFree' /\ Chosen'
         /\ pc' \in [Proc -> Label] /\ job' \in [Proc -> Job]
<1>1. ASSUME NEW p \in Proc, Walks(p)
      PROVE  /\ RoundsHaveModes' /\ IdleFree' /\ Chosen'
             /\ pc' \in [Proc -> Label] /\ job' \in [Proc -> Job]
  BY <1>1, WalkMoves DEF RoundsHaveModes, IdleFree, Chosen, Moves
<1>2. ASSUME NEW w \in Worker, Crash(w)
      PROVE  /\ RoundsHaveModes' /\ IdleFree' /\ Chosen'
             /\ pc' \in [Proc -> Label] /\ job' \in [Proc -> Job]
  BY <1>2, CrashMoves, NoJobType DEF RoundsHaveModes, IdleFree, Chosen, Choosing
<1>3. ASSUME pc' = pc, job' = job
      PROVE  /\ RoundsHaveModes' /\ IdleFree' /\ Chosen'
             /\ pc' \in [Proc -> Label] /\ job' \in [Proc -> Job]
  BY <1>3 DEF RoundsHaveModes, IdleFree, Chosen, TypeOK, Label
<1>4. QED
  BY <1>1, <1>2, <1>3, ActCases, BackgroundStays

\* A process that takes a step belongs to a worker that runs, and which goes
\* on running.
LEMMA MannedKept ==
  ASSUME TypeOK, RoundsHaveModes, IdleFree, Chosen, Manned, Act
  PROVE  Manned'
<1>1. ASSUME NEW p \in Proc, Walks(p) PROVE Manned'
  <2>1. PICK l \in Label, y \in Job : Moves(p, l, y)
    BY <1>1, WalkMoves
  <2>2. sub' = sub
    BY <1>1, Zenon
    DEF Walks, Step, Call, Passive, SetStatus, Count, LockTimeout, Store, Post, AddTarget,
        AddList, RemoveTarget, ClearState, ClearCounters, Announce, Check, EndRound, Tick, workers
  <2>3. pc[p] # "idle" \/ sub[Home[p]] = "on"
    BY <1>1, Zenon
    DEF Walks, Step, Call, Passive, SetStatus, Count, LockTimeout, Store, Post, AddTarget,
        AddList, RemoveTarget, ClearState, ClearCounters, Announce, Check, EndRound, Tick, On
  <2>4. QED
    BY <2>1, <2>2, <2>3 DEF Manned, Moves
<1>2. ASSUME NEW w \in Worker, Crash(w) PROVE Manned'
  <2>1. sub' = [sub EXCEPT ![w] = "down"]
    BY <1>2 DEF Crash
  <2>2. QED
    BY <1>2, <2>1, CrashMoves, JobTyped DEF Manned, TypeOK
<1>3. ASSUME pc' = pc, \A v \in Worker : sub[v] = "on" => sub'[v] = "on" PROVE Manned'
  BY <1>3, JobTyped DEF Manned
<1>4. CASE \E w \in Worker : Deliver(w) \/ Load(w) \/ Start(w)
  <2>1. \A v \in Worker : sub[v] = "on" => sub'[v] = "on"
    BY <1>4 DEF Deliver, Load, Start, TypeOK
  <2>2. QED
    BY <1>3, <1>4, <2>1, BackgroundStays
<1>5. CASE \/ WriteRedis \/ WriteFails \/ PeriodExpires \/ OrphanExpires
           \/ \E m \in Mode : CallbackExpires(m)
  <2>1. sub' = sub
    BY <1>5 DEF WriteRedis, WriteFails, PeriodExpires, OrphanExpires, CallbackExpires, workers
  <2>2. QED
    BY <1>3, <1>5, <2>1, BackgroundStays
<1>6. QED
  BY <1>1, <1>2, <1>4, <1>5, ActCases

\* astray never forgets, and sees every stray.
LEMMA AstrayGrows ==
  ASSUME TypeOK, Next
  PROVE  (~astray' => ~astray) /\ StraySeen' /\ astray' \in BOOLEAN
<1>1. astray \in BOOLEAN /\ (astray \/ Strays) \in BOOLEAN
  BY DEF TypeOK
<1>2. CASE astray' = (astray \/ Strays)
  BY <1>1, <1>2, Zenon DEF StraySeen, Strays
<1>3. CASE astray' = TRUE
  BY <1>3, Zenon DEF StraySeen
<1>4. QED
  BY <1>2, <1>3 DEF Next

\* A lock that runs out under its holder changes nothing else.
LEMMA HolderStays ==
  ASSUME TypeOK, HolderExpires
  PROVE  /\ tlock' \in {tlock, Nil} /\ llock' \in {llock, Nil}
         /\ faults < MaxFaults /\ faults' = faults + 1
         /\ UNCHANGED <<listed, state, ctr, period, cblock, sub, view, inbox, pc, job, pend>>
         /\ UNCHANGED <<redis, torn, reports, admin, late, missed>>
BY DEF HolderExpires, shm, workers, proc, writer

\* A decision is about counters that stand still until it is stored.
LEMMA DecidedKept ==
  ASSUME TypeOK, ~astray => LocksHeld, StraySeen, Decided, Next
  PROVE  Decided'
<1> SUFFICES ASSUME ~astray', ~astray, LocksHeld, Act PROVE Decided'
  BY AstrayGrows DEF Next, Decided
<1> USE DEF LimitOf
<1>1. ASSUME ctr' = ctr, NEW p \in Proc, NEW l \in Label \ {"store"}, NEW y \in Job,
             Moves(p, l, y)
      PROVE  Decided'
  BY <1>1 DEF Decided, Moves
<1>2. ASSUME ctr' = ctr, NEW p \in Proc, Return(p) PROVE Decided'
  <2>1. PICK l \in {"idle", "ending"}, y \in Job : Moves(p, l, y)
    BY <1>2, ReturnMoves
  <2>2. QED
    BY <1>1, <1>2, <2>1 DEF Label
<1>3. ASSUME NEW p \in Proc, Passive(p) \/ SetStatus(p) \/ AddTarget(p) PROVE Decided'
  <2>1. ctr' = ctr
    BY <1>3 DEF Passive, SetStatus, AddTarget, shm
  <2>2. PICK l \in {"lock", "add"}, y \in Job : Moves(p, l, y)
    BY <1>3, PassiveMoves, SetStatusMoves, AddTargetMoves
  <2>3. QED
    BY <1>1, <2>1, <2>2 DEF Label
<1>4. ASSUME NEW p \in Proc, Count(p) PROVE Decided'
  <2>1. \A q \in Proc : pc[q] # "store"
    BY <1>4, CountMoves, NilApart DEF LocksHeld, InTarget
  <2>2. CASE Return(p)
    <3>1. PICK l \in {"idle", "ending"}, y \in Job : Moves(p, l, y)
      BY <2>2, ReturnMoves
    <3>2. \A q \in Proc : pc'[q] # "store"
      BY <2>1, <3>1 DEF Moves
    <3>3. QED
      BY <3>2 DEF Decided
  <2>3. CASE ~Return(p)
    <3>1. PICK y \in Job : /\ Moves(p, "store", y) /\ y.kind = job[p].kind
                           /\ y.mode = job[p].mode
                           /\ y.new # Nil
                           /\ y.kind # Nil => y.new = NewHealth(p, y.kind, y.snap)
      BY <1>4, <2>3, CountMoves
    <3>2. \A q \in Proc : pc'[q] = "store" => q = p
      BY <2>1, <3>1 DEF Moves
    <3>3. CASE y.kind = Nil
      BY <3>1, <3>2, <3>3 DEF Decided, Moves
    <3>4. CASE y.kind # Nil
      <4>1. ctr' = Counted(y.kind)
        BY <1>4, <3>1, <3>4, CountMoves
      <4>2. y.new = NewHealth(p, y.kind, y.snap)
        BY <3>1, <3>4
      <4>3. \/ y.new = Verdict(y.kind) /\ Counted(y.kind)[y.kind] >= LimitOf(p, y.kind)
            \/ y.new = "mostly_healthy" /\ y.snap = "healthy"
            \/ y.new = "mostly_unhealthy" /\ y.snap = "unhealthy"
        BY <3>1, <4>2, Zenon DEF NewHealth
      <4>4. \/ y.new = Verdict(y.kind) /\ ctr'[y.kind] >= LimitOf(p, y.kind)
            \/ y.new = "mostly_healthy" /\ y.snap = "healthy"
            \/ y.new = "mostly_unhealthy" /\ y.snap = "unhealthy"
        BY <4>1, <4>3, Zenon
      <4>5. QED
        BY <3>1, <3>2, <4>4 DEF Decided, Moves, Verdict
    <3>5. QED
      BY <3>3, <3>4
  <2>4. QED
    BY <2>2, <2>3
<1>5. ASSUME NEW p \in Proc, LockTimeout(p) \/ Post(p) \/ Announce(p) PROVE Decided'
  <2>1. ctr' = ctr /\ Return(p)
    BY <1>5 DEF LockTimeout, Post, Announce, shm
  <2>2. QED
    BY <1>2, <2>1
<1>6. ASSUME NEW p \in Proc, Store(p) \/ AddList(p) \/ RemoveTarget(p) \/ ClearState(p)
      PROVE  Decided'
  <2>1. ctr' = ctr
    BY <1>6 DEF Store, AddList, RemoveTarget, ClearState
  <2>2. PICK y \in Job : y = job[p]
    BY JobTyped
  <2>3. PICK l \in {"post", "added", "remove", "clear"} : Moves(p, l, y)
    BY <1>6, <2>2, PlainMoves
  <2>4. QED
    BY <1>1, <2>1, <2>3 DEF Label
<1>7. ASSUME NEW p \in Proc, ClearCounters(p) PROVE Decided'
  <2>1. llock = p /\ pc[p] = "clear" /\ Moves(p, "removed", job[p])
    BY <1>7, PlainMoves DEF LocksHeld, InList
  <2>2. ASSUME NEW q \in Proc, pc'[q] = "store" PROVE astray
    <3>1. pc[q] = "store"
      BY <2>1, <2>2 DEF Moves
    <3>2. tlock = q
      BY <3>1 DEF LocksHeld, InTarget
    <3>3. QED
      BY <2>1, <3>2, NilApart DEF StraySeen
  <2>3. QED
    BY <2>2 DEF Decided
<1>8. ASSUME NEW p \in Proc, Check(p) PROVE Decided'
  <2>1. ctr' = ctr
    BY <1>8 DEF Check, shm
  <2>2. PICK l \in {"lock", "ending"}, y \in Job : Moves(p, l, y)
    BY <1>8, CheckMoves, JobTyped
  <2>3. QED
    BY <1>1, <2>1, <2>2 DEF Label
<1>9. ASSUME NEW p \in Proc, EndRound(p) \/ \E m \in Mode : Tick(p, m) PROVE Decided'
  <2>1. ctr' = ctr
    BY <1>9 DEF EndRound, Tick, shm
  <2>2. PICK l \in {"idle", "check"}, y \in Job : Moves(p, l, y)
    BY <1>9, RoundMoves, NoJobType
  <2>3. QED
    BY <1>1, <2>1, <2>2 DEF Label
<1>10. ASSUME NEW w \in Worker, Crash(w) PROVE Decided'
  <2>1. ctr' = ctr
    BY <1>10 DEF Crash, shm
  <2>2. QED
    BY <1>10, <2>1, CrashMoves DEF Decided
<1>11. ASSUME pc' = pc, job' = job, ctr' = ctr PROVE Decided'
  BY <1>11 DEF Decided
<1>12. QED
  BY <1>3, <1>4, <1>5, <1>6, <1>7, <1>8, <1>9, <1>10, <1>11, ActCases, BackgroundStays
     DEF Walks, Step, Call

-----------------------------------------------------------------------------

\* What a process is about to announce stays true until it does.
LEMMA AnnouncedKept ==
  ASSUME TypeOK, ~astray => LocksHeld, StraySeen, Announced, Next
  PROVE  Announced'
<1> SUFFICES ASSUME ~astray', ~astray, LocksHeld, Act PROVE Announced'
  BY AstrayGrows DEF Next, Announced
<1>0. StraySeen' /\ Nil \notin Proc
  BY AstrayGrows, NilApart
<1>1. ASSUME listed' = listed, state' = state, NEW p \in Proc, NEW l \in Label, NEW y \in Job,
             Moves(p, l, y), l \notin {"post", "add", "added", "remove", "clear"},
             l = "removed" => ~listed
      PROVE  Announced'
  BY <1>0, <1>1 DEF Announced, Moves
<1>2. ASSUME listed' = listed, state' = state, NEW p \in Proc, Return(p) PROVE Announced'
  <2>1. PICK l \in {"idle", "ending"}, y \in Job : Moves(p, l, y)
    BY <1>2, ReturnMoves
  <2>2. QED
    BY <1>1, <1>2, <2>1 DEF Label
<1>3. ASSUME NEW p \in Proc, Passive(p) \/ SetStatus(p) PROVE Announced'
  <2>1. listed' = listed /\ state' = state
    BY <1>3 DEF Passive, SetStatus, shm
  <2>2. PICK y \in Job : Moves(p, "lock", y)
    BY <1>3, PassiveMoves, SetStatusMoves
  <2>3. QED
    BY <1>1, <2>1, <2>2 DEF Label
<1>4. ASSUME NEW p \in Proc, Count(p) PROVE Announced'
  <2>1. listed' = listed /\ state' = state
    BY <1>4 DEF Count
  <2>2. CASE Return(p)
    BY <1>2, <2>1, <2>2
  <2>3. CASE ~Return(p)
    <3>1. PICK y \in Job : Moves(p, "store", y)
      BY <1>4, <2>3, CountMoves
    <3>2. QED
      BY <1>1, <2>1, <3>1 DEF Label
  <2>4. QED
    BY <2>2, <2>3
<1>5. ASSUME NEW p \in Proc, LockTimeout(p) \/ Post(p) \/ Announce(p) PROVE Announced'
  <2>1. listed' = listed /\ state' = state /\ Return(p)
    BY <1>5 DEF LockTimeout, Post, Announce, shm
  <2>2. QED
    BY <1>2, <2>1
<1>6. ASSUME NEW p \in Proc, Store(p) PROVE Announced'
  <2>1. listed' = listed /\ state' = job[p].new
    BY <1>6 DEF Store
  <2>2. pc[p] = "store" /\ Moves(p, "post", job[p]) /\ tlock = p
    BY <1>6, PlainMoves DEF LocksHeld, InTarget
  <2>3. \A q \in Proc : q # p => pc[q] # "post"
    BY <2>2 DEF LocksHeld, InTarget
  <2>4. ASSUME NEW q \in Proc, pc[q] \in {"add", "added"} PROVE astray
    BY <1>0, <2>2, <2>4 DEF LocksHeld, InList, StraySeen
  <2>5. QED
    BY <1>0, <2>1, <2>2, <2>3, <2>4 DEF Announced, Moves
<1>7. ASSUME NEW p \in Proc, AddTarget(p) PROVE Announced'
  <2>1. listed' = listed /\ tlock' = tlock
    BY <1>7 DEF AddTarget
  <2>2. /\ ~listed /\ llock = Nil /\ llock' = p /\ state' \in Mode
    BY <1>7, AddTargetMoves
  <2>3. PICK y \in Job : Moves(p, "add", y) /\ y.new = state'
    BY <1>7, AddTargetMoves
  <2>4. \A q \in Proc : pc[q] \notin InList
    BY <1>0, <2>2 DEF LocksHeld
  <2>5. ASSUME NEW q \in Proc, pc[q] = "post" PROVE astray'
    <3>1. tlock' = q /\ llock' # Nil
      BY <1>0, <2>1, <2>2, <2>5 DEF LocksHeld, InTarget
    <3>2. QED
      BY <1>0, <3>1 DEF StraySeen
  <2>6. QED
    BY <1>0, <2>1, <2>2, <2>3, <2>4, <2>5, NilApart DEF Announced, Moves, InList
<1>8. ASSUME NEW p \in Proc, AddList(p) PROVE Announced'
  <2>1. listed' = TRUE /\ state' = state
    BY <1>8 DEF AddList
  <2>2. pc[p] = "add" /\ Moves(p, "added", job[p]) /\ llock = p
    BY <1>8, PlainMoves DEF LocksHeld, InList
  <2>3. \A q \in Proc : q # p => pc[q] \notin InList
    BY <2>2 DEF LocksHeld
  <2>4. QED
    BY <1>0, <2>1, <2>2, <2>3 DEF Announced, Moves, InList
<1>9. ASSUME NEW p \in Proc, RemoveTarget(p) PROVE Announced'
  <2>1. listed' = FALSE /\ state' = state /\ llock = Nil
    BY <1>9 DEF RemoveTarget
  <2>2. Moves(p, "remove", job[p])
    BY <1>9, PlainMoves
  <2>3. \A q \in Proc : pc[q] \notin InList
    BY <1>0, <2>1 DEF LocksHeld
  <2>4. QED
    BY <1>0, <2>1, <2>2, <2>3 DEF Announced, Moves, InList
<1>10. ASSUME NEW p \in Proc, ClearState(p) PROVE Announced'
  <2>1. listed' = listed
    BY <1>10 DEF ClearState
  <2>2. pc[p] = "remove" /\ Moves(p, "clear", job[p]) /\ llock = p
    BY <1>10, PlainMoves DEF LocksHeld, InList
  <2>3. \A q \in Proc : q # p => pc[q] \notin InList
    BY <2>2 DEF LocksHeld
  <2>4. ASSUME NEW q \in Proc, pc[q] = "post" PROVE astray
    BY <1>0, <2>2, <2>4 DEF LocksHeld, InTarget, StraySeen
  <2>5. QED
    BY <1>0, <2>1, <2>2, <2>3, <2>4 DEF Announced, Moves, InList
<1>11. ASSUME NEW p \in Proc, ClearCounters(p) PROVE Announced'
  <2>1. listed' = listed /\ state' = state
    BY <1>11 DEF ClearCounters
  <2>2. PICK y \in Job : y = job[p]
    BY JobTyped
  <2>3. ~listed /\ Moves(p, "removed", y)
    BY <1>11, <2>2, PlainMoves DEF Announced
  <2>4. QED
    BY <1>1, <2>1, <2>3 DEF Label
<1>12. ASSUME NEW p \in Proc, Check(p) PROVE Announced'
  <2>1. listed' = listed /\ state' = state
    BY <1>12 DEF Check, shm
  <2>2. PICK l \in {"lock", "ending"}, y \in Job : Moves(p, l, y)
    BY <1>12, CheckMoves, JobTyped
  <2>3. QED
    BY <1>1, <2>1, <2>2 DEF Label
<1>13. ASSUME NEW p \in Proc, EndRound(p) \/ \E m \in Mode : Tick(p, m) PROVE Announced'
  <2>1. listed' = listed /\ state' = state
    BY <1>13 DEF EndRound, Tick, shm
  <2>2. PICK l \in {"idle", "check"}, y \in Job : Moves(p, l, y)
    BY <1>13, RoundMoves, NoJobType
  <2>3. QED
    BY <1>1, <2>1, <2>2 DEF Label
<1>14. ASSUME NEW w \in Worker, Crash(w) PROVE Announced'
  <2>1. listed' = listed /\ state' = state
    BY <1>14 DEF Crash, shm
  <2>2. QED
    BY <1>0, <1>14, <2>1, CrashMoves DEF Announced
<1>15. ASSUME pc' = pc, job' = job, listed' = listed, state' = state PROVE Announced'
  BY <1>0, <1>15 DEF Announced
<1>16. QED
  BY <1>0, <1>3, <1>4, <1>5, <1>6, <1>7, <1>8, <1>9, <1>10, <1>11, <1>12, <1>13, <1>14, <1>15,
     ActCases, BackgroundStays DEF Walks, Step, Call

-----------------------------------------------------------------------------

\* Once an event is raised, every worker that runs has it in its copy, or at
\* the end of its queue.
LEMMA RaiseSettles ==
  ASSUME TypeOK, NEW p \in Proc, NEW e \in Health \cup {"remove"}, Raise(p, e),
         sub[Home[p]] = "on"
  PROVE  \A v \in Worker : sub[v] # "down" => Final(v)' = event_handler(Nil, e)
<1>1. PICK w \in Worker : w = Home[p]
  BY JobTyped
<1>2. PICK qu \in [Worker -> Seq(Health \cup {"remove"})] : qu = Queued(e)
  BY RaiseCases
<1>3. ASSUME NEW v \in Worker, sub[v] # "down"
      PROVE  qu[v] = Append(inbox[v], e) /\ qu[v] # <<>> /\ qu[v][Len(qu[v])] = e
  <2>1. qu[v] = Append(inbox[v], e)
    BY <1>2, <1>3 DEF Queued
  <2>2. inbox[v] \in Seq(Health \cup {"remove"})
    BY DEF TypeOK
  <2>3. QED
    BY <2>1, <2>2
<1>4. ASSUME NEW v \in Worker, sub[v] # "down", inbox'[v] = qu[v]
      PROVE  Final(v)' = event_handler(Nil, e)
  BY <1>3, <1>4 DEF Final, event_handler
<1>5. CASE inbox' = Queued(e)
  BY <1>2, <1>4, <1>5
<1>6. CASE /\ inbox' = [Queued(e) EXCEPT ![Home[p]] = <<>>]
           /\ Handle(Home[p], Queued(e)[Home[p]])
  <2>1. inbox' = [qu EXCEPT ![w] = <<>>]
    BY <1>1, <1>2, <1>6, Zenon
  <2>2. PICK es \in Seq(Health \cup {"remove"}) : es = qu[w]
    OBVIOUS
  <2>3. Handle(w, es) /\ es # <<>> /\ es[Len(es)] = e
    BY <1>1, <1>2, <1>3, <1>6, <2>2, Zenon
  <2>4. view'[w] = event_handler(view[w], e)
    BY <2>3, HandleTypes
  <2>5. Final(w)' = event_handler(Nil, e)
    BY <2>1, <2>4 DEF Final, event_handler
  <2>6. \A v \in Worker : v # w => inbox'[v] = qu[v]
    BY <2>1
  <2>7. QED
    BY <1>4, <2>5, <2>6
<1>7. QED
  BY <1>5, <1>6, RaiseCases

\* The copies head for what shared memory says.
LEMMA HeadingKept ==
  ASSUME TypeOK, Manned, ~astray => LocksHeld, StraySeen, Chosen, Announced, Heading, Next
  PROVE  Heading'
<1> DEFINE Quiet == \A q \in Proc : pc[q] \notin Unannounced
           Same == UNCHANGED <<listed, state, sub, view, inbox, missed>>
<1> SUFFICES ASSUME ~astray', ~astray, LocksHeld, Act PROVE Heading'
  BY AstrayGrows DEF Next, Heading
<1>0. StraySeen' /\ Nil \notin Proc
  BY AstrayGrows, NilApart
<1>1. ASSUME Truth' = Truth, UNCHANGED <<sub, view, inbox, missed>>,
             NEW p \in Proc, NEW l \in Label, NEW y \in Job,
             Moves(p, l, y), pc[p] \notin Unannounced
      PROVE  Heading'
  <2>1. Quiet' => Quiet
    BY <1>1 DEF Moves
  <2>2. \A w \in Worker : Following(w)' = Following(w) /\ Final(w)' = Final(w)
    BY <1>1 DEF Following, Final
  <2>3. QED
    BY <1>0, <1>1, <2>1, <2>2 DEF Heading
<1>2. ASSUME NEW p \in Proc, NEW l \in Unannounced, NEW y, Moves(p, l, y) PROVE Heading'
  BY <1>2 DEF Moves, Heading
<1>3. ASSUME Same, NEW p \in Proc, Return(p), pc[p] \notin Unannounced PROVE Heading'
  <2>1. PICK l \in {"idle", "ending"}, y \in Job : Moves(p, l, y)
    BY <1>3, ReturnMoves
  <2>2. QED
    BY <1>1, <1>3, <2>1 DEF Label, Truth
<1>4. ASSUME NEW p \in Proc, Passive(p) \/ SetStatus(p) PROVE Heading'
  <2>1. Same /\ pc[p] = "idle"
    BY <1>4 DEF Passive, SetStatus, shm, workers
  <2>2. PICK y \in Job : Moves(p, "lock", y)
    BY <1>4, PassiveMoves, SetStatusMoves
  <2>3. QED
    BY <1>1, <2>1, <2>2 DEF Label, Truth, Unannounced
<1>5. ASSUME NEW p \in Proc, Count(p) PROVE Heading'
  <2>1. Same /\ pc[p] = "lock"
    BY <1>5 DEF Count, workers
  <2>2. CASE Return(p)
    BY <1>3, <2>1, <2>2 DEF Unannounced
  <2>3. CASE ~Return(p)
    <3>1. PICK y \in Job : Moves(p, "store", y)
      BY <1>5, <2>3, CountMoves
    <3>2. QED
      BY <1>1, <2>1, <3>1 DEF Label, Truth, Unannounced
  <2>4. QED
    BY <2>2, <2>3
<1>6. ASSUME NEW p \in Proc, LockTimeout(p) PROVE Heading'
  <2>1. Same /\ pc[p] = "lock" /\ Return(p)
    BY <1>6 DEF LockTimeout, shm, workers
  <2>2. QED
    BY <1>3, <2>1 DEF Unannounced
<1>7. ASSUME NEW p \in Proc, \/ Store(p) \/ AddList(p) \/ RemoveTarget(p)
                             \/ ClearState(p) \/ ClearCounters(p)
      PROVE  Heading'
  <2>1. PICK y \in Job : y = job[p]
    BY JobTyped
  <2>2. PICK l \in Unannounced : Moves(p, l, y)
    BY <1>7, <2>1, PlainMoves DEF Unannounced
  <2>3. QED
    BY <1>2, <2>2
<1>8. ASSUME NEW p \in Proc, NEW e \in Health \cup {"remove"}, Raise(p, e), sub' = sub,
             sub[Home[p]] = "on", Truth' = Truth, ~astray => event_handler(Nil, e) = Truth
      PROVE  Heading'
  <2>1. \A v \in Worker : sub[v] # "down" => Final(v)' = event_handler(Nil, e)
    BY <1>8, RaiseSettles
  <2>2. \A v \in Worker : Following(v)' => sub[v] # "down"
    BY <1>8 DEF Following
  <2>3. QED
    BY <1>0, <1>8, <2>1, <2>2 DEF Heading
<1>9. ASSUME NEW p \in Proc, Post(p) PROVE Heading'
  <2>1. pc[p] = "post" /\ sub' = sub /\ Truth' = Truth /\ Raise(p, job[p].new)
    BY <1>9, Zenon DEF Post, shm, Truth
  <2>2. tlock = p /\ sub[Home[p]] = "on"
    BY <2>1 DEF LocksHeld, InTarget, Manned
  <2>3. job[p].new \in Health
    BY <2>1, JobTyped DEF Chosen, Choosing
  <2>4. ~astray => listed /\ state = job[p].new
    BY <1>0, <2>1, <2>2 DEF StraySeen, Announced
  <2>5. PICK e \in Health : e = job[p].new
    BY <2>3
  <2>6. event_handler(Nil, e) = e
    BY DEF event_handler, Health, Up, Down
  <2>7. ~astray => event_handler(Nil, e) = Truth
    BY <2>4, <2>5, <2>6 DEF Truth
  <2>8. Raise(p, e)
    BY <2>1, <2>5, Zenon
  <2>9. QED
    BY <1>8, <2>1, <2>2, <2>7, <2>8
<1>10. ASSUME NEW p \in Proc, AddTarget(p) PROVE Heading'
  <2>1. UNCHANGED <<sub, view, inbox, missed>> /\ listed' = listed /\ ~listed /\ pc[p] = "idle"
    BY <1>10 DEF AddTarget, workers
  <2>2. PICK y \in Job : Moves(p, "add", y)
    BY <1>10, AddTargetMoves
  <2>3. QED
    BY <1>1, <2>1, <2>2 DEF Label, Truth, Unannounced
<1>11. ASSUME NEW p \in Proc, Announce(p) PROVE Heading'
  <2>1. /\ pc[p] \in {"added", "removed"} /\ sub' = sub /\ Truth' = Truth
        /\ Raise(p, IF pc[p] = "added" THEN job[p].new ELSE "remove")
    BY <1>11, Zenon DEF Announce, shm, Truth
  <2>2. sub[Home[p]] = "on"
    BY <2>1 DEF Manned
  <2>3. CASE pc[p] = "added"
    <3>1. job[p].new \in Health /\ listed /\ state = job[p].new
      BY <2>3, JobTyped DEF Announced, Chosen, Choosing
    <3>2. PICK e \in Health : e = job[p].new
      BY <3>1
    <3>3. event_handler(Nil, e) = e
      BY DEF event_handler, Health, Up, Down
    <3>4. ~astray => event_handler(Nil, e) = Truth
      BY <3>1, <3>2, <3>3 DEF Truth
    <3>5. Raise(p, e)
      BY <2>1, <2>3, <3>2, Zenon
    <3>6. QED
      BY <1>8, <2>1, <2>2, <3>4, <3>5
  <2>4. CASE pc[p] # "added"
    <3>1. ~listed
      BY <2>1, <2>4 DEF Announced
    <3>2. event_handler(Nil, "remove") = Truth
      BY <3>1 DEF event_handler, Truth
    <3>3. Raise(p, "remove")
      BY <2>1, <2>4, Zenon
    <3>4. QED
      BY <1>8, <2>1, <2>2, <3>2, <3>3
  <2>5. QED
    BY <2>3, <2>4
<1>12. ASSUME NEW p \in Proc, Check(p) PROVE Heading'
  <2>1. Same /\ pc[p] = "check"
    BY <1>12 DEF Check, shm, workers
  <2>2. PICK l \in {"lock", "ending"}, y \in Job : Moves(p, l, y)
    BY <1>12, CheckMoves, JobTyped
  <2>3. QED
    BY <1>1, <2>1, <2>2 DEF Label, Truth, Unannounced
<1>13. ASSUME NEW p \in Proc, EndRound(p) \/ \E m \in Mode : Tick(p, m) PROVE Heading'
  <2>1. Same /\ pc[p] \in {"idle", "ending"}
    BY <1>13 DEF EndRound, Tick, shm, workers
  <2>2. PICK l \in {"idle", "check"}, y \in Job : Moves(p, l, y)
    BY <1>13, RoundMoves, NoJobType
  <2>3. QED
    BY <1>1, <2>1, <2>2 DEF Label, Truth, Unannounced
<1>14. ASSUME NEW w \in Worker, pc' = pc, Truth' = Truth,
              \A v \in Worker : v # w => /\ sub'[v] = sub[v] /\ view'[v] = view[v]
                                         /\ inbox'[v] = inbox[v] /\ (v \in missed' <=> v \in missed),
              (Following(w) => Final(w) = Truth) => (Following(w)' => Final(w)' = Truth)
       PROVE  Heading'
  <2>1. Quiet' = Quiet
    BY <1>14
  <2>2. ASSUME NEW v \in Worker, v # w
        PROVE  Following(v)' = Following(v) /\ Final(v)' = Final(v)
    BY <1>14, <2>2 DEF Following, Final
  <2>3. QED
    BY <1>0, <1>14, <2>1, <2>2 DEF Heading
<1>15. ASSUME NEW w \in Worker, Deliver(w) PROVE Heading'
  <2>1. pc' = pc /\ Truth' = Truth /\ sub' = sub /\ missed' = missed
    BY <1>15 DEF Deliver, shm, proc, Truth
  <2>2. PICK es \in Seq(Health \cup {"remove"}) : es = inbox[w]
    BY DEF TypeOK
  <2>3. es # <<>> /\ Handle(w, <<Head(es)>>) /\ inbox' = [inbox EXCEPT ![w] = Tail(es)]
    BY <1>15, <2>2 DEF Deliver
  <2>4. <<Head(es)>> \in Seq(Health \cup {"remove"}) /\ <<Head(es)>> # <<>>
    BY <2>3
  <2>5. /\ view'[w] = event_handler(view[w], <<Head(es)>>[Len(<<Head(es)>>)])
        /\ \A v \in Worker : v # w => view'[v] = view[v]
    BY <2>3, <2>4, HandleTypes
  <2>6. view'[w] = event_handler(view[w], Head(es))
    BY <2>5
  <2>7. inbox'[w] = Tail(es) /\ \A v \in Worker : v # w => inbox'[v] = inbox[v]
    BY <2>3 DEF TypeOK
  <2>8. CASE Tail(es) = <<>>
    <3>1. Len(<<>>) = 0
      OBVIOUS
    <3>2. Len(Tail(es)) = 0
      BY <2>8, <3>1, Zenon
    <3>3. Len(es) = 1
      BY <2>3, <3>2
    <3>4. es[Len(es)] = Head(es)
      BY <2>3, <3>3
    <3>5. Final(w)' = Final(w)
      BY <2>2, <2>3, <2>6, <2>7, <2>8, <3>4 DEF Final
    <3>6. QED
      BY <1>14, <2>1, <2>5, <2>7, <3>5, <2>3, <1>15 DEF Following, Deliver
  <2>9. CASE Tail(es) # <<>>
    <3>1. Tail(es)[Len(Tail(es))] = es[Len(es)]
      BY <2>3, <2>9
    <3>2. Final(w)' = Final(w)
      BY <2>2, <2>3, <2>7, <2>9, <3>1 DEF Final, event_handler
    <3>3. QED
      BY <1>14, <2>1, <2>5, <2>7, <3>2, <2>3, <1>15 DEF Following, Deliver
  <2>10. QED
    BY <2>8, <2>9
<1>16. ASSUME NEW w \in Worker, Load(w) PROVE Heading'
  <2>1. /\ pc' = pc /\ Truth' = Truth /\ missed' = missed
        /\ sub' = [sub EXCEPT ![w] = "loaded"] /\ view' = [view EXCEPT ![w] = Truth]
        /\ inbox' = [inbox EXCEPT ![w] = <<>>]
    BY <1>16 DEF Load, shm, proc, Truth
  <2>2. Final(w)' = Truth
    BY <2>1 DEF Final, TypeOK
  <2>3. \A v \in Worker : v # w => /\ sub'[v] = sub[v] /\ view'[v] = view[v]
                                   /\ inbox'[v] = inbox[v]
    BY <2>1 DEF TypeOK
  <2>4. QED
    BY <1>14, <2>1, <2>2, <2>3
<1>17. ASSUME NEW w \in Worker, Start(w) PROVE Heading'
  <2>1. /\ pc' = pc /\ Truth' = Truth /\ view' = view /\ sub[w] = "loaded"
        /\ sub' = [sub EXCEPT ![w] = "on"] /\ inbox' = [inbox EXCEPT ![w] = <<>>]
        /\ missed' = IF inbox[w] # <<>> THEN missed \cup {w} ELSE missed
    BY <1>17 DEF Start, shm, proc, Truth
  <2>2. sub'[w] = "on" /\ inbox'[w] = <<>>
    BY <2>1 DEF TypeOK
  <2>3. Following(w)' => Following(w) /\ Final(w)' = Final(w)
    BY <2>1, <2>2 DEF Following, Final
  <2>4. \A v \in Worker : v # w => /\ sub'[v] = sub[v] /\ inbox'[v] = inbox[v]
                                   /\ (v \in missed' <=> v \in missed)
    BY <2>1 DEF TypeOK
  <2>5. QED
    BY <1>14, <2>1, <2>3, <2>4
<1>18. CASE \/ WriteRedis \/ WriteFails \/ PeriodExpires \/ OrphanExpires
            \/ \E m \in Mode : CallbackExpires(m)
  <2>1. Same /\ pc' = pc
    BY <1>18 DEF WriteRedis, WriteFails, PeriodExpires, OrphanExpires, CallbackExpires,
                 shm, workers, proc
  <2>2. \A w \in Worker : Following(w)' = Following(w) /\ Final(w)' = Final(w)
    BY <2>1 DEF Following, Final
  <2>3. QED
    BY <1>0, <2>1, <2>2 DEF Heading, Truth
<1>19. ASSUME NEW w \in Worker, Crash(w) PROVE Heading'
  <2>1. /\ Truth' = Truth /\ missed' = missed \ {w}
        /\ tlock' = IF tlock \in {q \in Proc : Home[q] = w} THEN "orphan" ELSE tlock
        /\ llock' = IF llock \in {q \in Proc : Home[q] = w} THEN "orphan" ELSE llock
        /\ sub' = [sub EXCEPT ![w] = "down"]
        /\ view' = [view EXCEPT ![w] = Nil] /\ inbox' = [inbox EXCEPT ![w] = <<>>]
    BY <1>19 DEF Crash, shm, Truth
  <2>2. ASSUME NEW p \in Proc, Home[p] = w, pc[p] \in Unannounced PROVE astray'
    <3>1. tlock = p \/ llock = p
      BY <2>2 DEF LocksHeld, InTarget, InList, Unannounced
    <3>2. "orphan" \in {tlock', llock'}
      BY <2>1, <2>2, <3>1
    <3>3. QED
      BY <1>0, <3>2 DEF StraySeen
  <2>3. ~astray' /\ Quiet' => Quiet
    BY <1>19, <2>2, CrashMoves
  <2>4. ~Following(w)'
    BY <2>1 DEF Following, TypeOK
  <2>5. ASSUME NEW v \in Worker, v # w
        PROVE  (Following(v)' <=> Following(v)) /\ Final(v)' = Final(v)
    BY <2>1, <2>5 DEF Following, Final, TypeOK
  <2>6. QED
    BY <1>0, <2>1, <2>3, <2>4, <2>5 DEF Heading
<1>20. QED
  BY <1>0, <1>4, <1>5, <1>6, <1>7, <1>9, <1>10, <1>11, <1>12, <1>13, <1>15, <1>16, <1>17, <1>18,
     <1>19, ActCases DEF Walks, Step, Call

-----------------------------------------------------------------------------

\* Events that Writer handles without starting a timer leave none behind.
LEMMA NoNewTimers ==
  ASSUME TypeOK, NEW es, Timers(es) = {}
  PROVE  [m \in Mode |-> pend[m] + Cardinality({i \in Timers(es) : es[i] = m})] = pend
<1>1. \A m \in Mode : Cardinality({i \in Timers(es) : es[i] = m}) = 0
  <2>1. \A m \in Mode : {i \in Timers(es) : es[i] = m} = {}
    OBVIOUS
  <2>2. QED
    BY <2>1, FS_EmptySet
<1>2. QED
  BY <1>1 DEF TypeOK

\* A single event with a timer starts exactly one, and it is the last.
LEMMA OneNewTimer ==
  ASSUME NEW es \in Seq(Health \cup {"remove"}), Timers(es) # {},
         ~(Cardinality(Timers(es)) > 1), pend = NoTimers
  PROVE  /\ es[LastTimer(es)] \in Mode
         /\ [m \in Mode |-> pend[m] + Cardinality({i \in Timers(es) : es[i] = m})]
              = [NoTimers EXCEPT ![es[LastTimer(es)]] = 1]
<1>1. IsFiniteSet(Timers(es)) /\ Cardinality(Timers(es)) \in Nat
  BY TimersFinite
<1>2. Cardinality(Timers(es)) # 0
  BY <1>1, FS_EmptySet
<1>3. Cardinality(Timers(es)) = 1
  BY <1>1, <1>2
<1>4. PICK i : Timers(es) = {i}
  BY <1>1, <1>3, FS_Singleton
<1>5. i \in DOMAIN es /\ es[i] \in Mode /\ i <= i
  BY <1>4 DEF Timers
<1>6. LastTimer(es) = i
  BY <1>4, <1>5 DEF LastTimer
<1>7. ASSUME NEW m \in Mode
      PROVE  pend[m] + Cardinality({j \in Timers(es) : es[j] = m}) = IF m = es[i] THEN 1 ELSE 0
  <2>1. pend[m] = 0
    BY DEF NoTimers
  <2>2. CASE m = es[i]
    <3>1. {j \in Timers(es) : es[j] = m} = {i}
      BY <1>4, <2>2
    <3>2. Cardinality({j \in Timers(es) : es[j] = m}) = 1
      BY <3>1, FS_Singleton
    <3>3. QED
      BY <2>1, <2>2, <3>2
  <2>3. CASE m # es[i]
    <3>1. {j \in Timers(es) : es[j] = m} = {}
      BY <1>4, <2>3
    <3>2. Cardinality({j \in Timers(es) : es[j] = m}) = 0
      BY <3>1, FS_EmptySet
    <3>3. QED
      BY <2>1, <2>3, <3>2
  <2>4. QED
    BY <2>2, <2>3
<1>8. [m \in Mode |-> pend[m] + Cardinality({j \in Timers(es) : es[j] = m})]
        = [m \in Mode |-> IF m = es[i] THEN 1 ELSE 0]
  BY <1>7, Zenon
<1>9. [NoTimers EXCEPT ![es[i]] = 1] = [m \in Mode |-> IF m = es[i] THEN 1 ELSE 0]
  BY <1>5 DEF NoTimers
<1>10. QED
  BY <1>5, <1>6, <1>8, <1>9, Zenon

\* Whatever a worker handles, Writer's only timer is about its copy.
LEMMA HandleOneTimer ==
  ASSUME TypeOK, OneTimer, NEW w \in Worker, NEW es \in Seq(Health \cup {"remove"}), es # <<>>,
         Handle(w, es)
  PROVE  OneTimer'
<1>1. /\ view' \in [Worker -> Health \cup {Nil}] /\ redis' = redis
      /\ \A v \in Worker : v # w => view'[v] = view[v]
      /\ w # Writer => pend' = pend /\ torn' = torn
  BY HandleTypes
<1>2. CASE w # Writer
  <2>1. view'[Writer] = view[Writer] /\ pend' = pend /\ torn' = torn /\ redis' = redis
    BY <1>1, <1>2, CheckerAssumption
  <2>2. QED
    BY <2>1 DEF OneTimer
<1>3. CASE w = Writer
  <2> DEFINE shown == IF Timers(es) = {} THEN Class(view[w]) ELSE es[LastTimer(es)]
             leap == view'[w] # Nil /\ Class(view'[w]) # shown
             race == Timers(es) # {} /\ (pend # NoTimers \/ Cardinality(Timers(es)) > 1)
  <2>1. torn' = (leap \/ race \/ (torn /\ Timers(es) = {}))
    BY <1>3, Zenon DEF Handle
  <2>2. pend' = [m \in Mode |-> pend[m] + Cardinality({i \in Timers(es) : es[i] = m})]
    BY <1>3 DEF Handle
  <2>3. SUFFICES ASSUME ~torn', view'[w] # Nil
                 PROVE  \/ pend' = NoTimers /\ redis' = Class(view'[w])
                        \/ \E m \in Mode : /\ pend' = [NoTimers EXCEPT ![m] = 1]
                                           /\ m = Class(view'[w])
    BY <1>3 DEF OneTimer
  <2>4. /\ Class(view'[w]) = shown /\ ~race
        /\ Timers(es) = {} => ~torn
    BY <2>1, <2>3
  <2>5. Class(view'[w]) \in Mode
    BY <1>1, <2>3, ClassType
  <2>6. CASE Timers(es) = {}
    <3>1. pend' = pend
      BY <2>2, <2>6, NoNewTimers
    <3>2. Class(view'[w]) = Class(view[w]) /\ ~torn
      BY <2>4, <2>6
    <3>3. view[w] # Nil
      BY <2>5, <3>2, ClassType, NilApart
    <3>4. QED
      BY <1>1, <1>3, <3>1, <3>2, <3>3 DEF OneTimer
  <2>7. CASE Timers(es) # {}
    <3>1. pend = NoTimers /\ ~(Cardinality(Timers(es)) > 1)
      BY <2>4, <2>7
    <3>2. PICK m \in Mode : m = es[LastTimer(es)]
      BY <2>7, <3>1, OneNewTimer
    <3>3. pend' = [NoTimers EXCEPT ![m] = 1]
      BY <2>2, <2>7, <3>1, <3>2, OneNewTimer
    <3>4. m = Class(view'[w])
      BY <2>4, <2>7, <3>2
    <3>5. QED
      BY <3>3, <3>4
  <2>8. QED
    BY <2>6, <2>7
<1>4. QED
  BY <1>2, <1>3

\* An event that is raised keeps Writer's timers in order.
LEMMA RaiseOneTimer ==
  ASSUME TypeOK, OneTimer, NEW p \in Proc, NEW e \in Health \cup {"remove"}, Raise(p, e),
         sub[Home[p]] = "on"
  PROVE  OneTimer'
<1>1. PICK w \in Worker : w = Home[p]
  BY JobTyped
<1>2. PICK qu \in [Worker -> Seq(Health \cup {"remove"})] : qu = Queued(e)
  BY RaiseCases
<1>3. CASE UNCHANGED <<view, writer>>
  BY <1>3 DEF OneTimer, writer
<1>4. CASE /\ Queued(e)[Home[p]] = Append(inbox[Home[p]], e)
           /\ Handle(Home[p], Queued(e)[Home[p]])
  <2>1. PICK es \in Seq(Health \cup {"remove"}) : es = qu[w]
    OBVIOUS
  <2>2. Handle(w, es) /\ es = Append(inbox[w], e)
    BY <1>1, <1>2, <1>4, <2>1, Zenon
  <2>3. inbox[w] \in Seq(Health \cup {"remove"})
    BY DEF TypeOK
  <2>4. es # <<>>
    BY <2>2, <2>3
  <2>5. QED
    BY <2>2, <2>4, HandleOneTimer
<1>5. QED
  BY <1>3, <1>4, RaiseCases

\* The event of a report or of a change of the list is an event.
LEMMA RaisedEvents ==
  ASSUME TypeOK, Manned, Chosen, NEW p \in Proc, Post(p) \/ Announce(p)
  PROVE  sub[Home[p]] = "on" /\ \E e \in Health \cup {"remove"} : Raise(p, e)
<1>1. pc[p] \in {"post", "added", "removed"}
  BY DEF Post, Announce
<1>2. sub[Home[p]] = "on"
  BY <1>1 DEF Manned
<1>3. pc[p] # "removed" => job[p].new \in Health
  BY <1>1, JobTyped DEF Chosen, Choosing
<1>4. CASE pc[p] # "removed"
  <2>1. Raise(p, job[p].new)
    BY <1>1, <1>4 DEF Post, Announce
  <2>2. QED
    BY <1>2, <1>3, <1>4, <2>1
<1>5. CASE pc[p] = "removed"
  <2>1. Raise(p, "remove")
    BY <1>5 DEF Post, Announce
  <2>2. QED
    BY <1>2, <2>1
<1>6. QED
  BY <1>4, <1>5

\* Every step keeps Writer's last timer about Writer's copy.
LEMMA OneTimerKept ==
  ASSUME TypeOK, Manned, Chosen, OneTimer, Act
  PROVE  OneTimer'
<1>1. ASSUME view'[Writer] = view[Writer], pend' = pend, redis' = redis, torn' = torn
      PROVE  OneTimer'
  BY <1>1 DEF OneTimer
<1>2. ASSUME NEW p \in Proc, Post(p) \/ Announce(p) PROVE OneTimer'
  BY <1>2, RaisedEvents, RaiseOneTimer
<1>3. ASSUME NEW p \in Proc, Walks(p), ~Post(p), ~Announce(p) PROVE OneTimer'
  <2>1. view' = view /\ pend' = pend /\ redis' = redis /\ torn' = torn
    BY <1>3, Zenon
    DEF Walks, Step, Call, Passive, SetStatus, Count, LockTimeout, Store, AddTarget, AddList,
        RemoveTarget, ClearState, ClearCounters, Check, EndRound, Tick, workers, writer
  <2>2. QED
    BY <1>1, <2>1
<1>4. ASSUME NEW w \in Worker, Deliver(w) PROVE OneTimer'
  <2>1. Head(inbox[w]) \in Health \cup {"remove"}
    BY <1>4 DEF Deliver, TypeOK
  <2>2. PICK e \in Health \cup {"remove"} : e = Head(inbox[w])
    BY <2>1
  <2>3. <<e>> \in Seq(Health \cup {"remove"}) /\ <<e>> # <<>>
    OBVIOUS
  <2>4. Handle(w, <<e>>)
    BY <1>4, <2>2, Zenon DEF Deliver
  <2>5. QED
    BY <2>3, <2>4, HandleOneTimer
<1>5. ASSUME NEW w \in Worker, Load(w) PROVE OneTimer'
  <2>1. /\ view' = [view EXCEPT ![w] = IF listed THEN state ELSE Nil]
        /\ torn' = (torn \/ (w = Writer /\ listed)) /\ pend' = pend /\ redis' = redis
    BY <1>5 DEF Load
  <2>2. CASE w = Writer
    <3>1. ~torn' => view'[Writer] = Nil
      BY <2>1, <2>2, CheckerAssumption DEF TypeOK
    <3>2. QED
      BY <3>1 DEF OneTimer
  <2>3. CASE w # Writer
    <3>1. view'[Writer] = view[Writer] /\ torn' = torn
      BY <2>1, <2>3, CheckerAssumption DEF TypeOK
    <3>2. QED
      BY <1>1, <2>1, <3>1
  <2>4. QED
    BY <2>2, <2>3
<1>6. CASE WriteRedis
  <2>1. PICK h \in Mode : Fires(h) /\ redis' = h
    BY <1>6 DEF WriteRedis
  <2>2. view' = view /\ torn' = torn
    BY <1>6 DEF WriteRedis, workers
  <2>3. SUFFICES ASSUME ~torn, view[Writer] # Nil
                 PROVE  pend' = NoTimers /\ redis' = Class(view[Writer])
    BY <2>2 DEF OneTimer
  <2>4. pend[h] > 0 /\ pend' = [pend EXCEPT ![h] = pend[h] - 1]
    BY <2>1 DEF Fires
  <2>5. pend # NoTimers
    BY <2>4 DEF NoTimers
  <2>6. PICK m \in Mode : pend = [NoTimers EXCEPT ![m] = 1] /\ m = Class(view[Writer])
    BY <2>3, <2>5 DEF OneTimer
  <2>7. h = m
    BY <2>4, <2>6 DEF NoTimers
  <2>8. pend' = NoTimers
    BY <2>4, <2>6, <2>7 DEF NoTimers
  <2>9. QED
    BY <2>1, <2>6, <2>7, <2>8
<1>7. CASE WriteFails
  BY <1>7 DEF WriteFails, OneTimer
<1>8. ASSUME NEW w \in Worker, Crash(w) PROVE OneTimer'
  <2>1. CASE w = Writer
    BY <1>8, <2>1 DEF Crash, OneTimer
  <2>2. CASE w # Writer
    <3>1. pend' = pend /\ redis' = redis /\ torn' = torn /\ view' = [view EXCEPT ![w] = Nil]
      BY <1>8, <2>2 DEF Crash, writer
    <3>2. view'[Writer] = view[Writer]
      BY <2>2, <3>1, CheckerAssumption DEF TypeOK
    <3>3. QED
      BY <1>1, <3>1, <3>2
  <2>3. QED
    BY <2>1, <2>2
<1>9. CASE \/ \E w \in Worker : Start(w)
           \/ PeriodExpires \/ OrphanExpires \/ \E m \in Mode : CallbackExpires(m)
  <2>1. view' = view /\ pend' = pend /\ redis' = redis /\ torn' = torn
    BY <1>9 DEF Start, PeriodExpires, OrphanExpires, CallbackExpires, workers, writer
  <2>2. QED
    BY <1>1, <2>1
<1>10. QED
  BY <1>2, <1>3, <1>4, <1>5, <1>6, <1>7, <1>8, <1>9, ActCases

-----------------------------------------------------------------------------

\* Sets of processes, counted.
LEMMA ProcCard ==
  ASSUME NEW S, NEW T, S \subseteq Proc
  PROVE  /\ Cardinality(S) \in Nat /\ IsFiniteSet(S)
         /\ T \subseteq S => Cardinality(T) <= Cardinality(S) /\ Cardinality(T) \in Nat
         /\ \A p \in Proc : T \subseteq S \cup {p} => /\ Cardinality(T) \in Nat
                                                       /\ Cardinality(T) <= Cardinality(S) + 1
         /\ \A p \in S : T \subseteq S \ {p} => /\ Cardinality(T) \in Nat
                                                /\ Cardinality(T) <= Cardinality(S) - 1
<1>1. IsFiniteSet(S) /\ Cardinality(S) \in Nat
  BY CheckerAssumption, FS_Subset, FS_CardinalityType
<1>2. ASSUME NEW U, IsFiniteSet(U), T \subseteq U
      PROVE  Cardinality(T) <= Cardinality(U) /\ Cardinality(T) \in Nat
  BY <1>2, FS_Subset, FS_CardinalityType
<1>3. ASSUME NEW p \in Proc, T \subseteq S \cup {p}
      PROVE  Cardinality(T) \in Nat /\ Cardinality(T) <= Cardinality(S) + 1
  <2>1. /\ IsFiniteSet(S \cup {p})
        /\ Cardinality(S \cup {p}) = IF p \in S THEN Cardinality(S) ELSE Cardinality(S) + 1
    BY <1>1, FS_AddElement
  <2>2. Cardinality(T) <= Cardinality(S \cup {p}) /\ Cardinality(T) \in Nat
    BY <1>2, <1>3, <2>1
  <2>3. QED
    BY <1>1, <2>1, <2>2
<1>4. ASSUME NEW p \in S, T \subseteq S \ {p}
      PROVE  Cardinality(T) \in Nat /\ Cardinality(T) <= Cardinality(S) - 1
  <2>1. IsFiniteSet(S \ {p}) /\ Cardinality(S \ {p}) = Cardinality(S) - 1
    BY <1>1, FS_RemoveElement
  <2>2. Cardinality(T) <= Cardinality(S \ {p}) /\ Cardinality(T) \in Nat
    BY <1>2, <1>4, <2>1
  <2>3. QED
    BY <2>1, <2>2
<1>5. QED
  BY <1>1, <1>2, <1>3, <1>4

\* A report counts once, when it has the lock.
LEMMA CountedBounds ==
  ASSUME TypeOK, NEW k \in Kind, NEW j \in Kind
  PROVE  Counted(k)[j] \in Nat /\ Counted(k)[j] <= ctr[j] + 1
BY CheckerAssumption DEF TypeOK, Counted

\* Every step keeps the counters below the number of reports.
LEMMA ReportsCountedKept ==
  ASSUME TypeOK, IdleFree, ReportsCounted, Act
  PROVE  ReportsCounted'
<1> DEFINE C == Cardinality(Waiting)
<1>0. PICK S : S = Waiting
  OBVIOUS
<1>1. PICK T : T = Waiting'
  OBVIOUS
<1>2. S \subseteq Proc /\ C = Cardinality(S) /\ C' = Cardinality(T)
  BY <1>0, <1>1 DEF Waiting
<1>3. /\ C \in Nat /\ reports \in Nat
      /\ \A k \in Kind : ctr[k] \in Nat /\ ctr[k] + C <= reports
  BY <1>2, ProcCard, CheckerAssumption DEF TypeOK, ReportsCounted
<1>4. ASSUME NEW n \in Nat, C' = n, reports' \in Nat,
             \A k \in Kind : ctr'[k] \in Nat /\ ctr'[k] + n <= reports'
      PROVE  ReportsCounted'
  BY <1>4 DEF ReportsCounted
<1>5. ASSUME T \subseteq S, ctr' = ctr \/ \A k \in Kind : ctr'[k] = 0, reports' = reports
      PROVE  ReportsCounted'
  <2>1. PICK n \in Nat : n = C' /\ n <= C
    BY <1>2, <1>5, ProcCard
  <2>2. \A k \in Kind : ctr'[k] \in Nat /\ ctr'[k] + n <= reports'
    BY <1>3, <1>5, <2>1
  <2>3. QED
    BY <1>3, <1>4, <1>5, <2>1, <2>2
<1>6. ASSUME NEW p \in Proc, T \subseteq S \cup {p}, ctr' = ctr, reports' = reports + 1
      PROVE  ReportsCounted'
  <2>1. PICK n \in Nat : n = C' /\ n <= C + 1
    BY <1>2, <1>6, ProcCard
  <2>2. \A k \in Kind : ctr'[k] \in Nat /\ ctr'[k] + n <= reports'
    BY <1>3, <1>6, <2>1
  <2>3. QED
    BY <1>3, <1>4, <1>6, <2>1, <2>2
<1>7. ASSUME NEW p \in Proc, NEW l \in Label, NEW y \in Job, Moves(p, l, y)
      PROVE  /\ T \subseteq S \cup {p}
             /\ l # "lock" \/ y.kind = Nil => T \subseteq S \ {p}
  BY <1>0, <1>1, <1>7 DEF Waiting, Moves
<1>8. ASSUME NEW p \in Proc, Passive(p) PROVE ReportsCounted'
  <2>1. ctr' = ctr
    BY <1>8 DEF Passive, shm
  <2>2. T \subseteq S \cup {p}
    BY <1>7, <1>8, PassiveMoves DEF Label
  <2>3. QED
    BY <1>6, <1>8, <2>1, <2>2, PassiveMoves
<1>9. ASSUME NEW p \in Proc, SetStatus(p) PROVE ReportsCounted'
  <2>1. ctr' = ctr /\ reports' = reports
    BY <1>9 DEF SetStatus, shm
  <2>2. job[p].kind = Nil
    BY <1>9, SetStatusMoves DEF IdleFree
  <2>3. T \subseteq S
    BY <1>7, <1>9, <2>2, SetStatusMoves DEF Label
  <2>4. QED
    BY <1>5, <2>1, <2>3
<1>10. ASSUME NEW p \in Proc, Return(p) PROVE T \subseteq S \ {p}
  <2>1. PICK l \in {"idle", "ending"}, y \in Job : Moves(p, l, y)
    BY <1>10, ReturnMoves
  <2>2. QED
    BY <1>7, <2>1 DEF Label
<1>11. ASSUME NEW p \in Proc, Count(p) PROVE ReportsCounted'
  <2>1. reports' = reports
    BY <1>11 DEF Count, bounds
  <2>2. T \subseteq S \ {p}
    <3>1. CASE Return(p)
      BY <1>10, <3>1
    <3>2. CASE ~Return(p)
      BY <1>7, <1>11, <3>2, CountMoves DEF Label
    <3>3. QED
      BY <3>1, <3>2
  <2>3. CASE job[p].kind = Nil
    <3>1. \A k \in Kind : ctr'[k] = 0
      BY <1>11, <2>3, CountMoves
    <3>2. QED
      BY <1>5, <2>1, <2>2, <3>1
  <2>4. CASE job[p].kind # Nil
    <3>1. PICK k \in Kind : k = job[p].kind
      BY <2>4, JobTyped
    <3>2. ctr' = Counted(k)
      BY <1>11, <2>4, <3>1, CountMoves
    <3>3. p \in S
      BY <1>0, <1>11, <2>4, CountMoves DEF Waiting
    <3>4. PICK n \in Nat : n = C' /\ n <= C - 1
      BY <1>2, <2>2, <3>3, ProcCard
    <3>5. \A j \in Kind : Counted(k)[j] \in Nat /\ Counted(k)[j] <= ctr[j] + 1
      BY CountedBounds
    <3>6. ASSUME NEW j \in Kind PROVE ctr'[j] \in Nat /\ ctr'[j] + n <= reports'
      <4>1. PICK c \in Nat : c = ctr'[j] /\ c <= ctr[j] + 1
        BY <3>2, <3>5
      <4>2. QED
        BY <1>3, <2>1, <3>4, <4>1
    <3>7. QED
      BY <1>3, <1>4, <2>1, <3>4, <3>6
  <2>5. QED
    BY <2>3, <2>4
<1>12. ASSUME NEW p \in Proc, LockTimeout(p) \/ Post(p) \/ Announce(p) PROVE ReportsCounted'
  <2>1. ctr' = ctr /\ reports' = reports /\ Return(p)
    BY <1>12 DEF LockTimeout, Post, Announce, shm, bounds
  <2>2. QED
    BY <1>5, <1>10, <2>1
<1>13. ASSUME NEW p \in Proc, \/ Store(p) \/ AddList(p) \/ RemoveTarget(p)
                              \/ ClearState(p) \/ ClearCounters(p)
       PROVE  ReportsCounted'
  <2>1. /\ reports' = reports
        /\ ctr' = ctr \/ \A k \in Kind : ctr'[k] = 0
    BY <1>13 DEF Store, AddList, RemoveTarget, ClearState, ClearCounters, bounds
  <2>2. PICK y \in Job : y = job[p]
    BY JobTyped
  <2>3. PICK l \in Label \ {"lock"} : Moves(p, l, y)
    BY <1>13, <2>2, PlainMoves DEF Label
  <2>4. QED
    BY <1>5, <1>7, <2>1, <2>3
<1>14. ASSUME NEW p \in Proc, AddTarget(p) PROVE ReportsCounted'
  <2>1. ctr' = ctr /\ reports' = reports
    BY <1>14 DEF AddTarget
  <2>2. T \subseteq S
    BY <1>7, <1>14, AddTargetMoves DEF Label
  <2>3. QED
    BY <1>5, <2>1, <2>2
<1>15. ASSUME NEW p \in Proc, Check(p) PROVE ReportsCounted'
  <2>1. ctr' = ctr
    BY <1>15 DEF Check, shm
  <2>2. PICK z \in Job : z = job[p]
    BY JobTyped
  <2>3. CASE reports' = reports /\ Moves(p, "ending", z)
    BY <1>5, <1>7, <2>1, <2>3 DEF Label
  <2>4. CASE reports' = reports + 1 /\ \E y \in Job : Moves(p, "lock", y)
    BY <1>6, <1>7, <2>1, <2>4 DEF Label
  <2>5. QED
    BY <1>15, <2>2, <2>3, <2>4, CheckMoves
<1>16. ASSUME NEW p \in Proc, EndRound(p) \/ \E m \in Mode : Tick(p, m) PROVE ReportsCounted'
  <2>1. ctr' = ctr /\ reports' = reports
    BY <1>16 DEF EndRound, Tick, shm, bounds
  <2>2. PICK l \in {"idle", "check"}, y \in Job : Moves(p, l, y)
    BY <1>16, RoundMoves, NoJobType
  <2>3. QED
    BY <1>5, <1>7, <2>1, <2>2 DEF Label
<1>17. ASSUME NEW w \in Worker, Crash(w) PROVE ReportsCounted'
  <2>1. ctr' = ctr /\ reports' = reports
    BY <1>17 DEF Crash, shm
  <2>2. T \subseteq S
    BY <1>0, <1>1, <1>17, CrashMoves DEF Waiting
  <2>3. QED
    BY <1>5, <2>1, <2>2
<1>18. ASSUME pc' = pc, job' = job, ctr' = ctr, reports' = reports PROVE ReportsCounted'
  <2>1. T \subseteq S
    BY <1>0, <1>1, <1>18 DEF Waiting
  <2>2. QED
    BY <1>5, <1>18, <2>1
<1>19. QED
  BY <1>8, <1>9, <1>11, <1>12, <1>13, <1>14, <1>15, <1>16, <1>17, <1>18, ActCases,
     BackgroundStays DEF Walks, Step, Call

-----------------------------------------------------------------------------

\* The bound on the rounds of one mode.
Bounded(m) == Cardinality(Rounds(m)) <= late[m] + (IF cblock[m] THEN 1 ELSE 0)

\* A mode whose rounds, lock and late rounds do not grow stays bounded.
LEMMA ModeStays ==
  ASSUME TypeOK, NEW m \in Mode, Bounded(m), late'[m] = late[m], cblock'[m] = cblock[m],
         Rounds(m)' \subseteq Rounds(m)
  PROVE  Bounded(m)'
<1>1. PICK S : S = Rounds(m)
  OBVIOUS
<1>2. PICK T : T = Rounds(m)'
  OBVIOUS
<1>3. S \subseteq Proc /\ T \subseteq S
  BY <1>1, <1>2 DEF Rounds
<1>4. Cardinality(S) \in Nat /\ Cardinality(T) \in Nat /\ Cardinality(T) <= Cardinality(S)
  BY <1>3, ProcCard
<1>5. late[m] \in Nat /\ cblock[m] \in BOOLEAN
  BY CheckerAssumption DEF TypeOK
<1>6. QED
  BY <1>1, <1>2, <1>4, <1>5 DEF Bounded

\* The rounds after the step of a process.
LEMMA MovesRounds ==
  ASSUME NEW p \in Proc, NEW l \in Label, NEW y \in Job, Moves(p, l, y), NEW m \in Mode
  PROVE  /\ Rounds(m)' \subseteq Rounds(m) \cup {p}
         /\ y.mode # m => Rounds(m)' \subseteq Rounds(m) \ {p}
         /\ y.mode = job[p].mode => Rounds(m)' \subseteq Rounds(m)
BY DEF Moves, Rounds

\* A round that ends leaves one place less, or its lock, or one late round less.
LEMMA EndRoundBounded ==
  ASSUME TypeOK, RoundsHaveModes, RoundsBounded, NEW p \in Proc, EndRound(p)
  PROVE  RoundsBounded'
<1>1. pc[p] = "ending" /\ Moves(p, "idle", NoJob)
  BY RoundMoves
<1>2. PICK n \in Mode : n = job[p].mode
  BY <1>1 DEF RoundsHaveModes
<1>3. /\ cblock' = [cblock EXCEPT ![n] = FALSE]
      /\ late' = IF cblock[n] \/ late[n] = 0 THEN late ELSE [late EXCEPT ![n] = late[n] - 1]
  BY <1>2, Zenon DEF EndRound
<1>4. /\ cblock \in [Mode -> BOOLEAN] /\ late[n] \in Nat
      /\ late \in [Mode -> 0..MaxFaults]
  BY CheckerAssumption DEF TypeOK
<1>5. \A m \in Mode : Rounds(m)' \subseteq Rounds(m) \ {p}
  BY <1>1, MovesRounds, NoJobType, NilApart DEF Label
<1>6. ASSUME NEW m \in Mode, m # n PROVE Bounded(m)'
  <2>1. late'[m] = late[m] /\ cblock'[m] = cblock[m]
    BY <1>3, <1>4, <1>6
  <2>2. Bounded(m)
    BY DEF RoundsBounded, Bounded
  <2>3. QED
    BY <1>5, <2>1, <2>2, ModeStays
<1>7. Bounded(n)'
  <2>1. PICK S : S = Rounds(n)
    OBVIOUS
  <2>2. PICK T : T = Rounds(n)'
    OBVIOUS
  <2>3. S \subseteq Proc /\ p \in S /\ T \subseteq S \ {p}
    BY <1>2, <1>5, <2>1, <2>2 DEF Rounds
  <2>4. PICK c \in Nat : c = Cardinality(S)
    BY <2>3, ProcCard
  <2>5. PICK d \in Nat : d = Cardinality(T) /\ d <= c - 1
    BY <2>3, <2>4, ProcCard
  <2>6. c <= late[n] + (IF cblock[n] THEN 1 ELSE 0)
    BY <2>1, <2>4 DEF RoundsBounded
  <2>7. cblock'[n] = FALSE
    BY <1>3, <1>4
  <2>8. d <= late'[n]
    <3>1. CASE cblock[n]
      BY <1>3, <1>4, <2>5, <2>6, <3>1
    <3>2. CASE ~cblock[n] /\ late[n] = 0
      BY <2>5, <2>6, <3>2
    <3>3. CASE ~cblock[n] /\ late[n] # 0
      <4>1. late'[n] = late[n] - 1
        BY <1>3, <1>4, <3>3
      <4>2. QED
        BY <1>4, <2>5, <2>6, <3>3, <4>1
    <3>4. QED
      BY <3>1, <3>2, <3>3
  <2>9. late'[n] \in Nat
    BY <1>3, <1>4, CheckerAssumption
  <2>10. QED
    BY <2>2, <2>5, <2>7, <2>8, <2>9 DEF Bounded
<1>8. QED
  BY <1>6, <1>7 DEF RoundsBounded, Bounded

\* A round begins under the lock of its mode, which was free.
LEMMA TickBounded ==
  ASSUME TypeOK, RoundsBounded, NEW p \in Proc, NEW n \in Mode, Tick(p, n)
  PROVE  RoundsBounded'
<1>1. PICK y \in Job : Moves(p, "check", y) /\ y.mode = n
  BY RoundMoves
<1>2. ~cblock[n] /\ cblock' = [cblock EXCEPT ![n] = TRUE] /\ late' = late
  BY DEF Tick
<1>3. cblock \in [Mode -> BOOLEAN] /\ late[n] \in Nat
  BY CheckerAssumption DEF TypeOK
<1>4. ASSUME NEW m \in Mode, m # n PROVE Bounded(m)'
  <2>1. late'[m] = late[m] /\ cblock'[m] = cblock[m]
    BY <1>2, <1>3, <1>4
  <2>2. Rounds(m)' \subseteq Rounds(m)
    BY <1>1, <1>4, MovesRounds DEF Label
  <2>3. Bounded(m)
    BY DEF RoundsBounded, Bounded
  <2>4. QED
    BY <2>1, <2>2, <2>3, ModeStays
<1>5. Bounded(n)'
  <2>1. PICK S : S = Rounds(n)
    OBVIOUS
  <2>2. PICK T : T = Rounds(n)'
    OBVIOUS
  <2>3. S \subseteq Proc /\ T \subseteq S \cup {p}
    BY <1>1, <2>1, <2>2, MovesRounds DEF Rounds, Label
  <2>4. PICK c \in Nat : c = Cardinality(S)
    BY <2>3, ProcCard
  <2>5. PICK d \in Nat : d = Cardinality(T) /\ d <= c + 1
    BY <2>3, <2>4, ProcCard
  <2>6. c <= late[n]
    BY <1>2, <1>3, <2>1, <2>4 DEF RoundsBounded
  <2>7. cblock'[n] = TRUE /\ late'[n] = late[n]
    BY <1>2, <1>3
  <2>8. QED
    BY <1>3, <2>2, <2>5, <2>6, <2>7 DEF Bounded
<1>6. QED
  BY <1>4, <1>5 DEF RoundsBounded, Bounded

\* The lock of a mode runs out: its round is late from now on, if there is one.
LEMMA ExpiryBounded ==
  ASSUME TypeOK, RoundsBounded, NEW n \in Mode, CallbackExpires(n)
  PROVE  RoundsBounded'
<1>1. /\ cblock[n] /\ cblock' = [cblock EXCEPT ![n] = FALSE] /\ job' = job
      /\ \/ Rounds(n) = {} /\ late' = late
         \/ late' = [late EXCEPT ![n] = late[n] + 1]
  BY DEF CallbackExpires, proc
<1>2. /\ cblock \in [Mode -> BOOLEAN] /\ late[n] \in Nat
      /\ late \in [Mode -> 0..MaxFaults]
  BY CheckerAssumption DEF TypeOK
<1>3. \A m \in Mode : Rounds(m)' = Rounds(m)
  BY <1>1 DEF Rounds
<1>4. ASSUME NEW m \in Mode, m # n PROVE Bounded(m)'
  <2>1. late'[m] = late[m] /\ cblock'[m] = cblock[m]
    BY <1>1, <1>2, <1>4
  <2>2. Bounded(m)
    BY DEF RoundsBounded, Bounded
  <2>3. QED
    BY <1>3, <2>1, <2>2, ModeStays
<1>5. Bounded(n)'
  <2>1. PICK S : S = Rounds(n) /\ S = Rounds(n)'
    BY <1>3
  <2>2. S \subseteq Proc
    BY <2>1 DEF Rounds
  <2>3. PICK c \in Nat : c = Cardinality(S)
    BY <2>2, ProcCard
  <2>4. c <= late[n] + 1
    BY <1>1, <2>1, <2>3 DEF RoundsBounded
  <2>5. cblock'[n] = FALSE
    BY <1>1, <1>2
  <2>6. CASE S = {} /\ late' = late
    <3>1. c = 0
      BY <2>3, <2>6, FS_EmptySet
    <3>2. QED
      BY <1>2, <2>1, <2>3, <2>5, <2>6, <3>1 DEF Bounded
  <2>7. CASE late' = [late EXCEPT ![n] = late[n] + 1]
    <3>1. late'[n] = late[n] + 1
      BY <1>2, <2>7
    <3>2. QED
      BY <1>2, <2>1, <2>3, <2>4, <2>5, <3>1 DEF Bounded
  <2>8. QED
    BY <1>1, <2>1, <2>6, <2>7
<1>6. QED
  BY <1>4, <1>5 DEF RoundsBounded, Bounded

\* Every step keeps the rounds bounded.
LEMMA RoundsBoundedKept ==
  ASSUME TypeOK, RoundsHaveModes, RoundsBounded, Act
  PROVE  RoundsBounded'
<1>1. ASSUME late' = late, cblock' = cblock, \A m \in Mode : Rounds(m)' \subseteq Rounds(m)
      PROVE  RoundsBounded'
  <2>1. ASSUME NEW m \in Mode PROVE Bounded(m)'
    <3>1. Bounded(m)
      BY DEF RoundsBounded, Bounded
    <3>2. QED
      BY <1>1, <3>1, ModeStays
  <2>2. QED
    BY <2>1 DEF RoundsBounded, Bounded
<1>2. ASSUME NEW p \in Proc, NEW l \in Label, NEW y \in Job, Moves(p, l, y),
             y.mode = job[p].mode, late' = late, cblock' = cblock
      PROVE  RoundsBounded'
  BY <1>1, <1>2, MovesRounds
<1>3. ASSUME NEW p \in Proc, Return(p), late' = late, cblock' = cblock PROVE RoundsBounded'
  <2>1. PICK l \in {"idle", "ending"}, y \in Job : Moves(p, l, y) /\ y.mode = job[p].mode
    BY <1>3, ReturnMoves
  <2>2. QED
    BY <1>2, <1>3, <2>1 DEF Label
<1>4. ASSUME NEW p \in Proc, Passive(p) \/ SetStatus(p) \/ AddTarget(p) PROVE RoundsBounded'
  <2>1. late' = late /\ cblock' = cblock
    BY <1>4 DEF Passive, SetStatus, AddTarget, locks
  <2>2. PICK l \in {"lock", "add"}, y \in Job : Moves(p, l, y) /\ y.mode = job[p].mode
    BY <1>4, PassiveMoves, SetStatusMoves, AddTargetMoves
  <2>3. QED
    BY <1>2, <2>1, <2>2 DEF Label
<1>5. ASSUME NEW p \in Proc, Count(p) PROVE RoundsBounded'
  <2>1. late' = late /\ cblock' = cblock
    BY <1>5 DEF Count
  <2>2. CASE Return(p)
    BY <1>3, <2>1, <2>2
  <2>3. CASE ~Return(p)
    <3>1. PICK y \in Job : Moves(p, "store", y) /\ y.mode = job[p].mode
      BY <1>5, <2>3, CountMoves
    <3>2. QED
      BY <1>2, <2>1, <3>1 DEF Label
  <2>4. QED
    BY <2>2, <2>3
<1>6. ASSUME NEW p \in Proc, LockTimeout(p) \/ Post(p) \/ Announce(p) PROVE RoundsBounded'
  <2>1. late' = late /\ cblock' = cblock /\ Return(p)
    BY <1>6 DEF LockTimeout, Post, Announce, locks
  <2>2. QED
    BY <1>3, <2>1
<1>7. ASSUME NEW p \in Proc, \/ Store(p) \/ AddList(p) \/ RemoveTarget(p)
                             \/ ClearState(p) \/ ClearCounters(p)
      PROVE  RoundsBounded'
  <2>1. late' = late /\ cblock' = cblock
    BY <1>7 DEF Store, AddList, RemoveTarget, ClearState, ClearCounters, locks
  <2>2. PICK y \in Job : y = job[p]
    BY JobTyped
  <2>3. PICK l \in Label : Moves(p, l, y)
    BY <1>7, <2>2, PlainMoves DEF Label
  <2>4. QED
    BY <1>2, <2>1, <2>2, <2>3
<1>8. ASSUME NEW p \in Proc, Check(p) PROVE RoundsBounded'
  <2>1. late' = late /\ cblock' = cblock
    BY <1>8 DEF Check, locks
  <2>2. PICK l \in {"lock", "ending"}, y \in Job : Moves(p, l, y) /\ y.mode = job[p].mode
    BY <1>8, CheckMoves, JobTyped
  <2>3. QED
    BY <1>2, <2>1, <2>2 DEF Label
<1>9. ASSUME NEW w \in Worker, Crash(w) PROVE RoundsBounded'
  <2>1. late' = late /\ cblock' = cblock
    BY <1>9 DEF Crash
  <2>2. \A m \in Mode : Rounds(m)' \subseteq Rounds(m)
    BY <1>9, CrashMoves, NoJobType, NilApart DEF Rounds
  <2>3. QED
    BY <1>1, <2>1, <2>2
<1>10. CASE \/ \E w \in Worker : Deliver(w) \/ Load(w) \/ Start(w)
            \/ WriteRedis \/ WriteFails \/ PeriodExpires \/ OrphanExpires
  <2>1. late' = late /\ cblock' = cblock /\ job' = job
    BY <1>10 DEF Deliver, Load, Start, WriteRedis, WriteFails, PeriodExpires, OrphanExpires,
                 locks, proc
  <2>2. QED
    BY <1>1, <2>1 DEF Rounds
<1>11. QED
  BY <1>4, <1>5, <1>6, <1>7, <1>8, <1>9, <1>10, EndRoundBounded, TickBounded, ExpiryBounded,
     ActCases DEF Walks, Step, Call

\* Every late round is a fault.
LEMMA LateCountedKept ==
  ASSUME TypeOK, RoundsHaveModes, LateCounted, Act
  PROVE  LateCounted' /\ faults' \in 0..MaxFaults /\ late' \in [Mode -> 0..MaxFaults]
<1> DEFINE Goal == LateCounted' /\ faults' \in 0..MaxFaults /\ late' \in [Mode -> 0..MaxFaults]
<1>0. /\ MaxFaults \in Nat /\ faults \in 0..MaxFaults /\ late \in [Mode -> 0..MaxFaults]
      /\ \A m \in Mode : late[m] <= faults
  BY CheckerAssumption DEF TypeOK, LateCounted
<1>1. ASSUME late' = late,
             faults' = faults \/ (faults < MaxFaults /\ faults' = faults + 1)
      PROVE  Goal
  BY <1>0, <1>1 DEF LateCounted
<1>2. ASSUME NEW p \in Proc, EndRound(p) PROVE Goal
  <2>1. faults' = faults
    BY <1>2 DEF EndRound, bounds
  <2>2. PICK n \in Mode : n = job[p].mode
    BY <1>2, RoundMoves DEF RoundsHaveModes
  <2>3. late' = late \/ (late[n] # 0 /\ late' = [late EXCEPT ![n] = late[n] - 1])
    BY <1>2, <2>2, Zenon DEF EndRound
  <2>4. CASE late' = late
    BY <1>1, <2>1, <2>4
  <2>5. CASE late[n] # 0 /\ late' = [late EXCEPT ![n] = late[n] - 1]
    BY <1>0, <2>1, <2>5 DEF LateCounted
  <2>6. QED
    BY <2>3, <2>4, <2>5
<1>3. ASSUME NEW n \in Mode, CallbackExpires(n) PROVE Goal
  <2>1. CASE late' = late /\ faults' = faults
    BY <1>1, <2>1
  <2>2. CASE /\ faults < MaxFaults /\ faults' = faults + 1
             /\ late' = [late EXCEPT ![n] = late[n] + 1]
    BY <1>0, <2>2 DEF LateCounted
  <2>3. QED
    BY <1>3, <2>1, <2>2 DEF CallbackExpires
<1>4. ASSUME NEW p \in Proc, Walks(p), ~EndRound(p) PROVE Goal
  <2>1. late' = late /\ faults' = faults
    BY <1>4, Zenon
    DEF Walks, Step, Call, Passive, SetStatus, Count, LockTimeout, Store, Post, AddTarget,
        AddList, RemoveTarget, ClearState, ClearCounters, Announce, Check, Tick, bounds
  <2>2. QED
    BY <1>1, <2>1
<1>5. CASE \/ \E w \in Worker : Deliver(w) \/ Load(w) \/ Start(w) \/ Crash(w)
           \/ WriteRedis \/ WriteFails \/ PeriodExpires \/ OrphanExpires
  <2>1. late' = late /\ (faults' = faults \/ (faults < MaxFaults /\ faults' = faults + 1))
    BY <1>5 DEF Deliver, Load, Start, Crash, WriteRedis, WriteFails, PeriodExpires,
                OrphanExpires, bounds
  <2>2. QED
    BY <1>1, <2>1
<1>6. QED
  BY <1>2, <1>3, <1>4, <1>5, ActCases

-----------------------------------------------------------------------------

\* Types of shared memory: the state and the counters.
LEMMA ShmTyped ==
  ASSUME TypeOK, Act
  PROVE  listed' \in BOOLEAN /\ state' \in Health \cup {Nil} /\ ctr' \in [Kind -> Nat]
<1>0. listed \in BOOLEAN /\ state \in Health \cup {Nil} /\ ctr \in [Kind -> Nat]
  BY CheckerAssumption DEF TypeOK
<1>1. ASSUME NEW p \in Proc, Count(p)
      PROVE  listed' = listed /\ state' = state /\ ctr' \in [Kind -> Nat]
  <2>1. listed' = listed /\ state' = state
    BY <1>1 DEF Count
  <2>2. CASE job[p].kind = Nil
    <3>1. ctr' = [j \in Kind |-> 0]
      BY <1>1, <2>2, CountMoves
    <3>2. QED
      BY <2>1, <3>1
  <2>3. CASE job[p].kind # Nil
    <3>1. PICK k \in Kind : k = job[p].kind
      BY <2>3, JobTyped
    <3>2. ctr' = Counted(k)
      BY <1>1, <2>3, <3>1, CountMoves
    <3>3. \A j \in Kind : Counted(k)[j] \in Nat
      BY CountedBounds
    <3>4. Counted(k) = [j \in Kind |-> Counted(k)[j]]
      BY DEF Counted
    <3>5. QED
      BY <2>1, <3>2, <3>3, <3>4
  <2>4. QED
    BY <2>2, <2>3
<1>2. ASSUME NEW p \in Proc, Store(p)
      PROVE  listed' = listed /\ state' \in Health \cup {Nil} /\ ctr' = ctr
  BY <1>2, JobTyped DEF Store
<1>3. ASSUME NEW p \in Proc, AddTarget(p)
      PROVE  listed' = listed /\ state' \in Health \cup {Nil} /\ ctr' = ctr
  <2>1. state' \in Mode
    BY <1>3, AddTargetMoves
  <2>2. QED
    BY <1>3, <2>1, NilApart DEF AddTarget
<1>4. ASSUME NEW p \in Proc, AddList(p) \/ RemoveTarget(p) \/ ClearState(p)
      PROVE  listed' \in BOOLEAN /\ state' \in {state, Nil} /\ ctr' = ctr
  BY <1>0, <1>4 DEF AddList, RemoveTarget, ClearState
<1>5. ASSUME NEW p \in Proc, ClearCounters(p)
      PROVE  listed' = listed /\ state' = state /\ ctr' \in [Kind -> Nat]
  BY <1>5 DEF ClearCounters
<1>6. ASSUME NEW p \in Proc, \/ Passive(p) \/ SetStatus(p) \/ LockTimeout(p) \/ Post(p)
                             \/ Announce(p) \/ Check(p) \/ EndRound(p)
                             \/ \E m \in Mode : Tick(p, m)
      PROVE  listed' = listed /\ state' = state /\ ctr' = ctr
  BY <1>6 DEF Passive, SetStatus, LockTimeout, Post, Announce, Check, EndRound, Tick, shm
<1>7. ASSUME NEW w \in Worker, Crash(w)
      PROVE  listed' = listed /\ state' = state /\ ctr' = ctr
  BY <1>7 DEF Crash, shm
<1>8. ASSUME NEW p \in Proc, Walks(p)
      PROVE  listed' \in BOOLEAN /\ state' \in Health \cup {Nil} /\ ctr' \in [Kind -> Nat]
  BY <1>0, <1>1, <1>2, <1>3, <1>4, <1>5, <1>6, <1>8 DEF Walks, Step, Call
<1>9. QED
  BY <1>0, <1>7, <1>8, ActCases, BackgroundStays

\* Types of the locks.
LEMMA LocksTyped ==
  ASSUME TypeOK, RoundsHaveModes, Act
  PROVE  /\ tlock' \in Proc \cup {Nil, "orphan"} /\ llock' \in Proc \cup {Nil, "orphan"}
         /\ period' \in Worker \cup {Nil, "orphan"} /\ cblock' \in [Mode -> BOOLEAN]
<1> DEFINE T == tlock' \in Proc \cup {Nil, "orphan"}
           L == llock' \in Proc \cup {Nil, "orphan"}
           P == period' \in Worker \cup {Nil, "orphan"}
           C == cblock' \in [Mode -> BOOLEAN]
<1>0. /\ tlock \in Proc \cup {Nil, "orphan"} /\ llock \in Proc \cup {Nil, "orphan"}
      /\ period \in Worker \cup {Nil, "orphan"} /\ cblock \in [Mode -> BOOLEAN]
  BY DEF TypeOK
<1>1. ASSUME NEW p \in Proc, Count(p) PROVE T /\ L /\ P /\ C
  <2>1. llock' = llock /\ period' = period /\ cblock' = cblock
    BY <1>1 DEF Count
  <2>2. QED
    BY <1>0, <1>1, <2>1, CountMoves
<1>2. ASSUME NEW p \in Proc, \/ Passive(p) \/ SetStatus(p) \/ LockTimeout(p) \/ Store(p)
                             \/ Post(p) \/ AddTarget(p) \/ AddList(p) \/ RemoveTarget(p)
                             \/ ClearState(p) \/ ClearCounters(p) \/ Announce(p) \/ Check(p)
      PROVE  T /\ L /\ P /\ C
  <2>1. /\ tlock' \in {tlock, Nil} /\ llock' \in {llock, p, Nil}
        /\ period' = period /\ cblock' = cblock
    BY <1>2 DEF Passive, SetStatus, LockTimeout, Store, Post, AddTarget, AddList,
                RemoveTarget, ClearState, ClearCounters, Announce, Check, locks
  <2>2. QED
    BY <1>0, <2>1
<1>3. ASSUME NEW p \in Proc, EndRound(p) PROVE T /\ L /\ P /\ C
  <2>1. tlock' = tlock /\ llock' = llock /\ period' = period
    BY <1>3 DEF EndRound
  <2>2. cblock' = [cblock EXCEPT ![job[p].mode] = FALSE]
    BY <1>3 DEF EndRound
  <2>3. QED
    BY <1>0, <2>1, <2>2
<1>4. ASSUME NEW p \in Proc, NEW m \in Mode, Tick(p, m) PROVE T /\ L /\ P /\ C
  BY <1>0, <1>4, JobTyped DEF Tick
<1>5. ASSUME NEW w \in Worker, Deliver(w) \/ Load(w) \/ Start(w) PROVE T /\ L /\ P /\ C
  BY <1>0, <1>5 DEF Deliver, Load, Start, locks
<1>6. CASE WriteRedis \/ WriteFails \/ PeriodExpires \/ OrphanExpires
  BY <1>0, <1>6 DEF WriteRedis, WriteFails, PeriodExpires, OrphanExpires, locks
<1>7. ASSUME NEW m \in Mode, CallbackExpires(m) PROVE T /\ L /\ P /\ C
  BY <1>0, <1>7 DEF CallbackExpires
<1>8. ASSUME NEW w \in Worker, Crash(w) PROVE T /\ L /\ P /\ C
  <2>1. /\ tlock' \in {tlock, "orphan"} /\ llock' \in {llock, "orphan"}
        /\ period' \in {period, "orphan"} /\ cblock' = cblock
    BY <1>8 DEF Crash
  <2>2. QED
    BY <1>0, <2>1
<1>9. QED
  BY <1>1, <1>2, <1>3, <1>4, <1>5, <1>6, <1>7, <1>8, ActCases DEF Walks, Step, Call

\* Types of the workers' checkers and of Writer's timers.
LEMMA WorkersTyped ==
  ASSUME TypeOK, Manned, Chosen, Act
  PROVE  /\ sub' \in [Worker -> {"down", "loaded", "on"}]
         /\ view' \in [Worker -> Health \cup {Nil}]
         /\ inbox' \in [Worker -> Seq(Health \cup {"remove"})]
         /\ missed' \subseteq Worker /\ pend' \in [Mode -> Nat]
         /\ redis' \in Mode \cup {Nil} /\ torn' \in BOOLEAN
<1> DEFINE S == sub' \in [Worker -> {"down", "loaded", "on"}] /\ missed' \subseteq Worker
           V == view' \in [Worker -> Health \cup {Nil}]
           I == inbox' \in [Worker -> Seq(Health \cup {"remove"})]
           W == pend' \in [Mode -> Nat] /\ redis' \in Mode \cup {Nil} /\ torn' \in BOOLEAN
<1>0. /\ sub \in [Worker -> {"down", "loaded", "on"}]
      /\ view \in [Worker -> Health \cup {Nil}]
      /\ inbox \in [Worker -> Seq(Health \cup {"remove"})]
      /\ missed \subseteq Worker /\ pend \in [Mode -> Nat]
      /\ redis \in Mode \cup {Nil} /\ torn \in BOOLEAN
      /\ state \in Health \cup {Nil}
  BY DEF TypeOK
<1>1. ASSUME UNCHANGED <<sub, view, inbox, missed, pend, redis, torn>> PROVE S /\ V /\ I /\ W
  BY <1>0, <1>1
<1>2. ASSUME NEW p \in Proc, Post(p) \/ Announce(p) PROVE S /\ V /\ I /\ W
  <2>1. sub' = sub /\ missed' = missed
    BY <1>2 DEF Post, Announce
  <2>2. QED
    BY <1>0, <1>2, <2>1, RaisedEvents, RaiseTypes
<1>3. ASSUME NEW p \in Proc, Walks(p), ~Post(p), ~Announce(p) PROVE S /\ V /\ I /\ W
  <2>1. UNCHANGED <<sub, view, inbox, missed, pend, redis, torn>>
    BY <1>3, Zenon
    DEF Walks, Step, Call, Passive, SetStatus, Count, LockTimeout, Store, AddTarget, AddList,
        RemoveTarget, ClearState, ClearCounters, Check, EndRound, Tick, workers, writer
  <2>2. QED
    BY <1>1, <2>1
<1>4. ASSUME NEW w \in Worker, Deliver(w) PROVE S /\ V /\ I /\ W
  <2>1. Head(inbox[w]) \in Health \cup {"remove"} /\ Tail(inbox[w]) \in Seq(Health \cup {"remove"})
    BY <1>0, <1>4 DEF Deliver
  <2>2. PICK e \in Health \cup {"remove"} : e = Head(inbox[w])
    BY <2>1
  <2>3. <<e>> \in Seq(Health \cup {"remove"}) /\ <<e>> # <<>>
    OBVIOUS
  <2>4. Handle(w, <<e>>)
    BY <1>4, <2>2, Zenon DEF Deliver
  <2>5. V /\ pend' \in [Mode -> Nat] /\ redis' = redis /\ torn' \in BOOLEAN
    BY <2>3, <2>4, HandleTypes
  <2>6. sub' = sub /\ missed' = missed /\ inbox' = [inbox EXCEPT ![w] = Tail(inbox[w])]
    BY <1>4 DEF Deliver
  <2>7. I
    BY <1>0, <2>1, <2>6
  <2>8. QED
    BY <1>0, <2>5, <2>6, <2>7
<1>5. ASSUME NEW w \in Worker, Load(w) PROVE S /\ V /\ I /\ W
  <2>1. /\ sub' = [sub EXCEPT ![w] = "loaded"] /\ missed' = missed
        /\ view' = [view EXCEPT ![w] = IF listed THEN state ELSE Nil]
        /\ inbox' = [inbox EXCEPT ![w] = <<>>] /\ pend' = pend /\ redis' = redis
    BY <1>5 DEF Load
  <2>2. torn' \in BOOLEAN
    BY <1>5 DEF Load
  <2>3. <<>> \in Seq(Health \cup {"remove"})
    OBVIOUS
  <2>4. QED
    BY <1>0, <2>1, <2>2, <2>3
<1>6. ASSUME NEW w \in Worker, Start(w) PROVE S /\ V /\ I /\ W
  <2>1. /\ sub' = [sub EXCEPT ![w] = "on"] /\ missed' \subseteq missed \cup {w}
        /\ inbox' = [inbox EXCEPT ![w] = <<>>] /\ view' = view
        /\ pend' = pend /\ redis' = redis /\ torn' = torn
    BY <1>6 DEF Start, writer
  <2>2. <<>> \in Seq(Health \cup {"remove"})
    OBVIOUS
  <2>3. QED
    BY <1>0, <2>1, <2>2
<1>7. ASSUME WriteRedis \/ WriteFails PROVE S /\ V /\ I /\ W
  <2>1. PICK h \in Mode : /\ pend[h] > 0 /\ pend' = [pend EXCEPT ![h] = pend[h] - 1]
                          /\ redis' \in {redis, h}
    BY <1>7 DEF WriteRedis, WriteFails, Fires
  <2>2. UNCHANGED <<sub, view, inbox, missed>> /\ torn' \in {torn, TRUE}
    BY <1>7 DEF WriteRedis, WriteFails, workers
  <2>3. pend' \in [Mode -> Nat]
    BY <1>0, <2>1
  <2>4. QED
    BY <1>0, <2>1, <2>2, <2>3
<1>8. CASE PeriodExpires \/ OrphanExpires \/ \E m \in Mode : CallbackExpires(m)
  <2>1. UNCHANGED <<sub, view, inbox, missed, pend, redis, torn>>
    BY <1>8 DEF PeriodExpires, OrphanExpires, CallbackExpires, workers, writer
  <2>2. QED
    BY <1>1, <2>1
<1>9. ASSUME NEW w \in Worker, Crash(w) PROVE S /\ V /\ I /\ W
  <2>1. /\ sub' = [sub EXCEPT ![w] = "down"] /\ missed' = missed \ {w}
        /\ view' = [view EXCEPT ![w] = Nil] /\ inbox' = [inbox EXCEPT ![w] = <<>>]
        /\ redis' = redis /\ pend' \in {pend, NoTimers} /\ torn' \in {torn, TRUE}
    BY <1>9 DEF Crash, writer
  <2>2. <<>> \in Seq(Health \cup {"remove"}) /\ NoTimers \in [Mode -> Nat]
    BY DEF NoTimers
  <2>3. QED
    BY <1>0, <2>1, <2>2
<1>10. QED
  BY <1>2, <1>3, <1>4, <1>5, <1>6, <1>7, <1>8, <1>9, ActCases

\* Types of the bounds.
LEMMA BoundsTyped ==
  ASSUME TypeOK, Act
  PROVE  reports' \in 0..MaxCalls /\ admin' \in 0..MaxAdmin
<1>0. /\ MaxCalls \in Nat /\ MaxAdmin \in Nat
      /\ reports \in 0..MaxCalls /\ admin \in 0..MaxAdmin
  BY CheckerAssumption DEF TypeOK
<1>1. ASSUME reports' = reports, admin' = admin
      PROVE  reports' \in 0..MaxCalls /\ admin' \in 0..MaxAdmin
  BY <1>0, <1>1
<1>2. ASSUME reports + admin < MaxCalls, reports' = reports + 1, admin' = admin
      PROVE  reports' \in 0..MaxCalls /\ admin' \in 0..MaxAdmin
  BY <1>0, <1>2
<1>3. ASSUME CanCall, reports' = reports, admin' = admin + 1
      PROVE  reports' \in 0..MaxCalls /\ admin' \in 0..MaxAdmin
  BY <1>0, <1>3 DEF CanCall
<1>4. ASSUME NEW p \in Proc, Passive(p) \/ Check(p)
      PROVE  reports' \in 0..MaxCalls /\ admin' \in 0..MaxAdmin
  <2>1. admin' = admin
    BY <1>4 DEF Passive, Check
  <2>2. QED
    BY <1>1, <1>2, <1>4, <2>1, PassiveMoves, CheckMoves
<1>5. ASSUME NEW p \in Proc, SetStatus(p) \/ AddTarget(p) \/ RemoveTarget(p)
      PROVE  reports' \in 0..MaxCalls /\ admin' \in 0..MaxAdmin
  <2>1. CanCall /\ admin' = admin + 1 /\ reports' = reports
    BY <1>5 DEF SetStatus, AddTarget, RemoveTarget
  <2>2. QED
    BY <1>3, <2>1
<1>6. ASSUME NEW p \in Proc, \/ Count(p) \/ LockTimeout(p) \/ Store(p) \/ Post(p) \/ AddList(p)
                             \/ ClearState(p) \/ ClearCounters(p) \/ Announce(p)
                             \/ EndRound(p) \/ \E m \in Mode : Tick(p, m)
      PROVE  reports' \in 0..MaxCalls /\ admin' \in 0..MaxAdmin
  <2>1. reports' = reports /\ admin' = admin
    BY <1>6, Zenon DEF Count, LockTimeout, Store, Post, AddList, ClearState, ClearCounters,
                       Announce, EndRound, Tick, bounds
  <2>2. QED
    BY <1>1, <2>1
<1>7. ASSUME NEW w \in Worker, Crash(w)
      PROVE  reports' \in 0..MaxCalls /\ admin' \in 0..MaxAdmin
  BY <1>1, <1>7 DEF Crash
<1>8. QED
  BY <1>1, <1>4, <1>5, <1>6, <1>7, ActCases, BackgroundStays DEF Walks, Step, Call

\* Every step keeps the types; the counters stay in their range because no
\* report is counted twice.
LEMMA TypesKept ==
  ASSUME TypeOK, Manned, RoundsHaveModes, IdleFree, Chosen, ReportsCounted, LateCounted,
         Next, Act
  PROVE  TypeOK'
<1>1. astray' \in BOOLEAN
  BY AstrayGrows
<1>2. listed' \in BOOLEAN /\ state' \in Health \cup {Nil} /\ ctr' \in [Kind -> Nat]
  BY ShmTyped
<1>3. reports' \in 0..MaxCalls /\ admin' \in 0..MaxAdmin
  BY BoundsTyped
<1>4. ctr' \in [Kind -> 0..MaxCalls]
  <2>1. ReportsCounted'
    BY ReportsCountedKept
  <2>2. PICK T : T = Waiting'
    OBVIOUS
  <2>3. T \subseteq Proc
    BY <2>2 DEF Waiting
  <2>4. PICK n \in Nat : n = Cardinality(Waiting)'
    BY <2>2, <2>3, ProcCard
  <2>5. \A k \in Kind : ctr'[k] + n <= reports'
    BY <2>1, <2>4 DEF ReportsCounted
  <2>6. \A k \in Kind : ctr'[k] \in 0..MaxCalls
    BY <1>2, <1>3, <2>5, CheckerAssumption
  <2>7. QED
    BY <1>2, <2>6
<1>5. /\ tlock' \in Proc \cup {Nil, "orphan"} /\ llock' \in Proc \cup {Nil, "orphan"}
      /\ period' \in Worker \cup {Nil, "orphan"} /\ cblock' \in [Mode -> BOOLEAN]
  BY LocksTyped
<1>6. /\ sub' \in [Worker -> {"down", "loaded", "on"}]
      /\ view' \in [Worker -> Health \cup {Nil}]
      /\ inbox' \in [Worker -> Seq(Health \cup {"remove"})]
      /\ missed' \subseteq Worker /\ pend' \in [Mode -> Nat]
      /\ redis' \in Mode \cup {Nil} /\ torn' \in BOOLEAN
  BY WorkersTyped
<1>7. pc' \in [Proc -> Label] /\ job' \in [Proc -> Job]
  BY JobsKept
<1>8. faults' \in 0..MaxFaults /\ late' \in [Mode -> 0..MaxFaults]
  BY LateCountedKept
<1>9. QED
  BY <1>1, <1>2, <1>3, <1>4, <1>5, <1>6, <1>7, <1>8 DEF TypeOK, Label

-----------------------------------------------------------------------------

\* The invariant holds when the checkers have started.
LEMMA InitInv == Init => IInv
<1> SUFFICES ASSUME Init PROVE IInv
  OBVIOUS
<1>1. state \in Mode \cup {Nil} /\ listed \in BOOLEAN /\ (~listed => state = Nil)
  BY DEF Init
<1>2. /\ view = [w \in Worker |-> state] /\ inbox = [w \in Worker |-> <<>>]
      /\ pc = [p \in Proc |-> "idle"] /\ job = [p \in Proc |-> NoJob]
      /\ ctr = [k \in Kind |-> 0] /\ reports = 0 /\ faults = 0 /\ redis = state
      /\ late = [m \in Mode |-> 0] /\ cblock = [m \in Mode |-> FALSE]
      /\ pend = NoTimers /\ tlock = Nil /\ llock = Nil
      /\ sub = [w \in Worker |-> "on"] /\ missed = {}
  BY DEF Init
<1>3. TypeOK
  <2>1. state \in Health \cup {Nil}
    BY <1>1, NilApart
  <2>2. <<>> \in Seq(Health \cup {"remove"}) /\ NoTimers \in [Mode -> Nat] /\ NoJob \in Job
    BY NoJobType DEF NoTimers
  <2>3. /\ view \in [Worker -> Health \cup {Nil}]
        /\ inbox \in [Worker -> Seq(Health \cup {"remove"})] /\ job \in [Proc -> Job]
    BY <1>2, <2>1, <2>2
  <2>4. /\ pend \in [Mode -> Nat] /\ redis \in Mode \cup {Nil} /\ period = Nil
        /\ torn \in BOOLEAN /\ astray \in BOOLEAN /\ admin = 0
    BY <1>1, <1>2, <2>2 DEF Init
  <2>5. /\ ctr \in [Kind -> 0..MaxCalls] /\ late \in [Mode -> 0..MaxFaults]
        /\ reports \in 0..MaxCalls /\ admin \in 0..MaxAdmin /\ faults \in 0..MaxFaults
    BY <1>2, <2>4, CheckerAssumption
  <2>6. /\ cblock \in [Mode -> BOOLEAN] /\ sub \in [Worker -> {"down", "loaded", "on"}]
        /\ pc \in [Proc -> {"idle", "lock", "store", "post", "add", "added", "remove", "clear",
                            "removed", "check", "ending"}]
        /\ missed \subseteq Worker
    BY <1>2
  <2>7. QED
    BY <1>1, <1>2, <2>1, <2>3, <2>4, <2>5, <2>6 DEF TypeOK
<1>4. Manned /\ LocksHeld /\ RoundsHaveModes /\ IdleFree /\ Chosen /\ Decided /\ Announced
  BY <1>2, NoJobType DEF Manned, LocksHeld, RoundsHaveModes, IdleFree, Chosen, Choosing, Decided,
                         Announced, InTarget, InList
<1>5. StraySeen
  BY <1>2, NilApart DEF StraySeen
<1>6. Heading
  BY <1>1, <1>2 DEF Heading, Final, Truth
<1>7. OneTimer
  BY <1>1, <1>2, ClassType, CheckerAssumption DEF OneTimer
<1>8. ReportsCounted
  <2>1. Waiting = {}
    BY <1>2 DEF Waiting
  <2>2. Cardinality(Waiting) = 0
    BY <2>1, FS_EmptySet
  <2>3. QED
    BY <1>2, <2>2 DEF ReportsCounted
<1>9. LateCounted
  BY <1>2 DEF LateCounted
<1>10. RoundsBounded
  <2>1. ASSUME NEW m \in Mode PROVE Cardinality(Rounds(m)) = 0
    <3>1. Rounds(m) = {}
      BY <1>2, NoJobType, NilApart DEF Rounds
    <3>2. QED
      BY <3>1, FS_EmptySet
  <2>2. QED
    BY <1>2, <2>1 DEF RoundsBounded
<1>11. QED
  BY <1>3, <1>4, <1>5, <1>6, <1>7, <1>8, <1>9, <1>10 DEF IInv

\* Every step keeps the invariant.
LEMMA NextInv == IInv /\ [Next]_vars => IInv'
<1> SUFFICES ASSUME IInv, [Next]_vars PROVE IInv'
  OBVIOUS
<1>0. /\ TypeOK /\ Manned /\ (~astray => LocksHeld) /\ StraySeen /\ RoundsHaveModes
      /\ IdleFree /\ Chosen /\ Decided /\ Announced
      /\ Heading /\ OneTimer /\ ReportsCounted /\ LateCounted /\ RoundsBounded
  BY DEF IInv
<1>1. CASE Next /\ Act
  <2>1. TypeOK'
    BY <1>0, <1>1, TypesKept
  <2>2. Manned' /\ RoundsHaveModes' /\ IdleFree' /\ Chosen'
    BY <1>0, <1>1, MannedKept, JobsKept
  <2>3. (~astray => LocksHeld)' /\ StraySeen'
    BY <1>0, <1>1, AstrayGrows, LocksHeldKept
  <2>4. Decided' /\ Announced' /\ Heading'
    BY <1>0, <1>1, DecidedKept, AnnouncedKept, HeadingKept
  <2>5. OneTimer' /\ ReportsCounted' /\ LateCounted' /\ RoundsBounded'
    BY <1>0, <1>1, OneTimerKept, ReportsCountedKept, LateCountedKept, RoundsBoundedKept
  <2>6. QED
    BY <2>1, <2>2, <2>3, <2>4, <2>5 DEF IInv
<1>2. CASE HolderExpires /\ astray' = TRUE
  <2>1. /\ tlock' \in {tlock, Nil} /\ llock' \in {llock, Nil}
        /\ faults < MaxFaults /\ faults' = faults + 1
        /\ UNCHANGED <<listed, state, ctr, period, cblock, sub, view, inbox, pc, job, pend>>
        /\ UNCHANGED <<redis, torn, reports, admin, late, missed>>
    BY <1>0, <1>2, HolderStays
  <2>2. faults \in 0..MaxFaults /\ faults' \in 0..MaxFaults /\ \A m \in Mode : late[m] \in Nat
    BY <1>0, <2>1, CheckerAssumption DEF TypeOK
  <2>3. TypeOK'
    BY <1>0, <1>2, <2>1, <2>2 DEF TypeOK
  <2>4. Manned' /\ RoundsHaveModes' /\ IdleFree' /\ Chosen'
    BY <1>0, <2>1 DEF Manned, RoundsHaveModes, IdleFree, Chosen
  <2>5. (~astray => LocksHeld)' /\ StraySeen' /\ Decided' /\ Announced' /\ Heading'
    BY <1>2 DEF StraySeen, Decided, Announced, Heading
  <2>6. OneTimer' /\ ReportsCounted' /\ RoundsBounded'
    BY <1>0, <2>1 DEF OneTimer, ReportsCounted, Waiting, RoundsBounded, Rounds
  <2>7. LateCounted'
    BY <1>0, <2>1, <2>2 DEF LateCounted
  <2>8. QED
    BY <2>3, <2>4, <2>5, <2>6, <2>7 DEF IInv
<1>3. CASE UNCHANGED vars
  <2>1. /\ UNCHANGED <<listed, state, ctr, tlock, llock, period, cblock, sub, view, inbox>>
        /\ UNCHANGED <<pc, job, pend, redis, torn, reports, admin, faults, late, missed, astray>>
    BY <1>3 DEF vars, shm, locks, workers, proc, writer, bounds
  <2>2. TypeOK'
    BY <1>0, <2>1 DEF TypeOK
  <2>3. Manned' /\ (~astray => LocksHeld)' /\ StraySeen' /\ RoundsHaveModes' /\ IdleFree' /\ Chosen'
    BY <1>0, <2>1 DEF Manned, LocksHeld, StraySeen, RoundsHaveModes, IdleFree, Chosen
  <2>4. Decided' /\ Announced'
    BY <1>0, <2>1 DEF Decided, LimitOf, Announced
  <2>5. Heading' /\ OneTimer'
    BY <1>0, <2>1 DEF Heading, Following, Final, Truth, OneTimer
  <2>6. ReportsCounted' /\ LateCounted' /\ RoundsBounded'
    BY <1>0, <2>1 DEF ReportsCounted, Waiting, LateCounted, RoundsBounded, Rounds
  <2>7. QED
    BY <2>2, <2>3, <2>4, <2>5, <2>6 DEF IInv
<1>4. QED
  BY <1>1, <1>2, <1>3 DEF Next

\* The invariant always holds.
LEMMA Invariant == Spec => []IInv
<1>1. QED
  BY InitInv, NextInv, PTL DEF Spec

\* The state of a target, its counters, its locks, the copies and the queues
\* of the workers and the timers of Writer keep their types, whatever the
\* number of workers and threads: the counters never count a report twice, so
\* they stay below the number of reports.
THEOREM TypeCorrect == Spec => []TypeOK
<1>1. IInv => TypeOK
  BY DEF IInv
<1>2. QED
  BY <1>1, Invariant, PTL

\* Concurrent reports, from any number of workers with stale copies, change
\* the state in shared memory and every worker's copy in one order: once the
\* events are handled they agree.
THEOREM CopiesAgreeCorrect == Spec => []CopiesAgree
<1>1. IInv => CopiesAgree
  <2>1. SUFFICES ASSUME Heading, Settled, ~astray, NEW w \in Worker, sub[w] = "on", w \notin missed
                 PROVE  view[w] = IF listed THEN state ELSE Nil
    BY DEF IInv, CopiesAgree
  <2>2. \A p \in Proc : pc[p] \notin Unannounced
    BY <2>1 DEF Settled, Unannounced
  <2>3. Final(w) = Truth
    BY <2>1, <2>2 DEF Heading, Following
  <2>4. inbox[w] = <<>>
    BY <2>1 DEF Settled
  <2>5. QED
    BY <2>3, <2>4 DEF Final, Truth
<1>2. QED
  BY <1>1, Invariant, PTL

\* Rounds of active checks of one mode overlap only when the lock of the mode
\* ran out under one of them, for any number of workers and timers, although
\* the round that is late releases a lock that is not its own.
THEOREM RoundsBoundedCorrect == Spec => []RoundsBounded
<1>1. IInv => RoundsBounded
  BY DEF IInv
<1>2. QED
  BY <1>1, Invariant, PTL

\* When no timer of Writer runs and none of the events on record spoiled it,
\* Redis has the class of the target in Writer's copy.
THEOREM RedisFollowsCorrect == Spec => []RedisFollows
<1>1. IInv => RedisFollows
  <2>1. SUFFICES ASSUME OneTimer, view[Writer] # Nil, pend = NoTimers, ~torn
                 PROVE  redis = Class(view[Writer])
    BY DEF IInv, RedisFollows
  <2>2. \A m \in Mode : pend # [NoTimers EXCEPT ![m] = 1]
    BY <2>1 DEF NoTimers
  <2>3. QED
    BY <2>1, <2>2 DEF OneTimer
<1>2. QED
  BY <1>1, Invariant, PTL

\* Only Store takes a process from the decision to the event.
LEMMA OnlyStore ==
  ASSUME TypeOK, Act, NEW p \in Proc, pc[p] = "store", pc'[p] = "post"
  PROVE  Store(p)
<1>1. ASSUME NEW q \in Proc, NEW l \in Label, NEW y \in Job, Moves(q, l, y) PROVE q = p /\ l = "post"
  BY <1>1 DEF Moves
<1>2. ASSUME NEW q \in Proc, Return(q) PROVE FALSE
  <2>1. PICK l \in {"idle", "ending"}, y \in Job : Moves(q, l, y)
    BY <1>2, ReturnMoves
  <2>2. QED
    BY <1>1, <2>1 DEF Label
<1>3. ASSUME NEW q \in Proc, Walks(q), ~Store(q) PROVE FALSE
  <2>1. CASE Passive(q) \/ SetStatus(q) \/ AddTarget(q)
    BY <1>1, <2>1, PassiveMoves, SetStatusMoves, AddTargetMoves DEF Label
  <2>2. CASE Count(q)
    BY <1>1, <1>2, <2>2, CountMoves DEF Label
  <2>3. CASE LockTimeout(q) \/ Post(q) \/ Announce(q)
    BY <1>2, <2>3 DEF LockTimeout, Post, Announce
  <2>4. CASE AddList(q) \/ RemoveTarget(q) \/ ClearState(q) \/ ClearCounters(q)
    <3>1. PICK y \in Job : y = job[q]
      BY JobTyped
    <3>2. PICK l \in Label \ {"post"} : Moves(q, l, y)
      BY <2>4, <3>1, PlainMoves DEF Label
    <3>3. QED
      BY <1>1, <3>2
  <2>5. CASE Check(q)
    <3>1. PICK l \in {"lock", "ending"}, y \in Job : Moves(q, l, y)
      BY <2>5, CheckMoves, JobTyped
    <3>2. QED
      BY <1>1, <3>1 DEF Label
  <2>6. CASE EndRound(q) \/ \E m \in Mode : Tick(q, m)
    <3>1. PICK l \in {"idle", "check"}, y \in Job : Moves(q, l, y)
      BY <2>6, RoundMoves, NoJobType
    <3>2. QED
      BY <1>1, <3>1 DEF Label
  <2>7. QED
    BY <1>3, <2>1, <2>2, <2>3, <2>4, <2>5, <2>6 DEF Walks, Step, Call
<1>4. ASSUME NEW q \in Proc, Store(q) PROVE q = p
  <2>1. PICK y \in Job : y = job[q]
    BY JobTyped
  <2>2. QED
    BY <1>1, <1>4, <2>1, PlainMoves DEF Label
<1>5. ASSUME NEW w \in Worker, Crash(w) PROVE FALSE
  BY <1>5, CrashMoves
<1>6. QED
  BY <1>3, <1>4, <1>5, ActCases, BackgroundStays

\* A report from an up-to-date copy turns a target from usable to unusable,
\* or back, only when its counter stands at the threshold: the counters that
\* the decision was taken from are still those of the moment it is stored.
THEOREM ChangesNeedCountsCorrect == Spec => ChangesNeedCounts
<1> DEFINE A == \A p \in Proc :
                  /\ pc[p] = "store" /\ pc'[p] = "post" /\ job[p].kind # Nil /\ ~astray
                  /\ job[p].snap = state /\ Class(state') # Class(state)
                  => ctr[job[p].kind] >= LimitOf(p, job[p].kind)
<1>1. IInv /\ [Next]_vars => [A]_vars
  <2>1. SUFFICES ASSUME IInv, Next, NEW p \in Proc,
                        pc[p] = "store", pc'[p] = "post", job[p].kind # Nil, ~astray,
                        job[p].snap = state, Class(state') # Class(state)
                 PROVE  ctr[job[p].kind] >= LimitOf(p, job[p].kind)
    OBVIOUS
  <2>2. TypeOK /\ Decided /\ Act
    BY <2>1, HolderStays DEF IInv, Next
  <2>3. state' = job[p].new
    BY <2>1, <2>2, OnlyStore DEF Store
  <2>4. \/ ctr[job[p].kind] >= LimitOf(p, job[p].kind)
        \/ job[p].new = "mostly_healthy" /\ job[p].snap = "healthy"
        \/ job[p].new = "mostly_unhealthy" /\ job[p].snap = "unhealthy"
    BY <2>1, <2>2 DEF Decided
  <2>5. Class("mostly_healthy") = Class("healthy") /\ Class("mostly_unhealthy") = Class("unhealthy")
    BY DEF Class, Up, Down
  <2>6. QED
    BY <2>1, <2>3, <2>4, <2>5
<1>2. Spec => [][A]_vars
  BY <1>1, Invariant, PTL DEF Spec
<1>3. QED
  BY <1>2 DEF ChangesNeedCounts
=============================================================================
