----------------------------- MODULE ConfReload -----------------------------
(***************************************************************************)
(* How the rule file reaches the workers: init/init_conf.lua (the master,  *)
(* at start and at every HUP) and init/init_worker_phase_entrance.lua (the *)
(* worker with id 0, once in init_worker and then from a timer that        *)
(* re-arms itself every 60 seconds).  Worker 0 compares the modification   *)
(* time of the file with the one recorded in the shared dictionary "conf", *)
(* records the new one, and only then reads the file and copies it, one    *)
(* domain at a time, into the dictionary every request reads.              *)
(*                                                                         *)
(* Several processes can be "worker 0": after a HUP the old one still runs *)
(* its pending timer (the handler does not look at the premature flag)     *)
(* while the new one starts.  The resty.lock they take does not keep them  *)
(* apart: its answer only decides whether it is unlocked afterwards, so it *)
(* has no effect on any other state and is left out.                       *)
(***************************************************************************)
EXTENDS Integers, FiniteSets

CONSTANTS Domain,    \* the domains a rule file may have a section for
          MaxGen,    \* bound: processes that are worker 0, one after the other
          MaxMtime,  \* bound: modification times
          MaxEdits,  \* bound: versions of the file
          MaxFaults  \* bound: crashes and timers that cannot be created

ASSUME BoundAssumption == /\ IsFiniteSet(Domain)
                          /\ MaxGen \in Nat \ {0} /\ MaxMtime \in Nat \ {0}
                          /\ MaxEdits \in Nat \ {0} /\ MaxFaults \in Nat

VARIABLES file,      \* the rule file: its state, mtime, version and domains
          shm,       \* version of each domain's section in "conf", 0 = none
          recorded,  \* "conf:last:modified<path>", 0 = not set
          state,     \* life of each process
          pc,        \* where it is in read_conf_file
          init,      \* it is still inside init_worker_by_lua
          timer,     \* its timer is pending
          mtime,     \* attribute.modification as it read it
          buf,       \* the version and the domains still to be copied
          faults,
          doubt      \* history: something happened since the modification
                     \* time was recorded that the next comparison cannot see

worker == <<state, pc, init, timer, mtime, buf>>
vars   == <<file, shm, recorded, worker, faults, doubt>>

Gen == 1..MaxGen

\* good: an array of sections.  flawed: one of them has no domain, which
\* throws in the middle of the loop.  broken: not JSON.  unreadable: it can
\* be examined and not opened.
Kind == {"good", "flawed", "broken", "unreadable", "absent"}

\* Files that init_conf.lua survives: it decodes the rule file too, and an
\* error there keeps nginx from starting or from obeying a HUP.
Parseable == {"good", "flawed"}

Readable == {"good", "flawed", "broken"}

Nothing == [rev |-> 0, todo |-> {}, flawed |-> FALSE]

\* doms: the domains of its sections, where it has any.
Files(rev) == [kind : Parseable, mtime : 1..MaxMtime, rev : {rev}, doms : SUBSET Domain]
        \cup [kind : Kind \ Parseable, mtime : 1..MaxMtime, rev : {rev}, doms : {{}}]

Init == /\ file \in {f \in Files(1) : f.kind \in Parseable /\ f.mtime = 1}
        /\ shm = [d \in Domain |-> 0]
        /\ recorded = 0
        /\ state = [p \in Gen |-> "unborn"]
        /\ pc = [p \in Gen |-> "idle"]
        /\ init = [p \in Gen |-> FALSE]
        /\ timer = [p \in Gen |-> FALSE]
        /\ mtime = [p \in Gen |-> 0]
        /\ buf = [p \in Gen |-> Nothing]
        /\ faults = 0
        /\ doubt = FALSE

Fault(bad) == /\ bad => faults < MaxFaults
              /\ faults' = faults + (IF bad THEN 1 ELSE 0)

Running(p) == state[p] \in {"up", "exiting"}

\* The ways out of read_conf_file.  Back in the handler the timer is armed
\* again, which fails in a process that is exiting and may fail in any
\* other; after init_worker the first timer is pending already.
Return(p) ==
    /\ pc' = [pc EXCEPT ![p] = "idle"]
    /\ init' = [init EXCEPT ![p] = FALSE]
    /\ buf' = [buf EXCEPT ![p] = Nothing]
    /\ \E created \in BOOLEAN :
         /\ created => state[p] = "up"
         /\ Fault(~init[p] /\ state[p] = "up" /\ ~created)
         /\ timer' = [timer EXCEPT ![p] = IF init[p] THEN @ ELSE created]
    /\ UNCHANGED <<state, mtime>>

\* An error nobody catches: the handler ends before it arms the timer.
Throw(p) == /\ pc' = [pc EXCEPT ![p] = "idle"]
            /\ init' = [init EXCEPT ![p] = FALSE]
            /\ buf' = [buf EXCEPT ![p] = Nothing]
            /\ UNCHANGED <<state, timer, mtime, faults>>

Goto(p, l) == pc' = [pc EXCEPT ![p] = l]

(***************************************************************************)
(* Processes.                                                              *)
(***************************************************************************)

\* A process starts: the module arms its timer (delay 0) and init_worker
\* calls update_lua_conf.
Enter(p) == /\ pc' = [pc EXCEPT ![p] = "stat"]
            /\ init' = [init EXCEPT ![p] = TRUE]
            /\ timer' = [timer EXCEPT ![p] = TRUE]
            /\ UNCHANGED <<mtime, buf>>

NextGen(p) == state[p] = "unborn" /\ \A q \in Gen : q < p => state[q] # "unborn"

\* Seeded fault: a new worker starts from an empty dictionary.
SpawnFlushes(p) == /\ NextGen(p)
                   /\ \A q \in Gen : state[q] # "up"
                   /\ state' = [state EXCEPT ![p] = "up"]
                   /\ Enter(p)
                   /\ shm' = [d \in Domain |-> 0]
                   /\ UNCHANGED <<file, recorded, faults, doubt>>

\* The first start, or the master replaces a worker that died.
Spawn(p) == /\ NextGen(p)
            /\ \A q \in Gen : state[q] # "up"
            /\ state' = [state EXCEPT ![p] = "up"]
            /\ Enter(p)
            /\ UNCHANGED <<file, shm, recorded, faults, doubt>>

\* HUP: init_conf.lua runs in the master and must survive the rule file.
Hup(p) == /\ NextGen(p)
          /\ file.kind \in Parseable
          /\ \E q \in Gen : state[q] = "up"
          /\ state' = [q \in Gen |-> IF q = p THEN "up"
                                     ELSE IF state[q] = "up" THEN "exiting"
                                     ELSE state[q]]
          /\ Enter(p)
          /\ UNCHANGED <<file, shm, recorded, faults, doubt>>

Crash(p) == /\ Running(p)
            /\ Fault(TRUE)
            /\ state' = [state EXCEPT ![p] = "gone"]
            /\ pc' = [pc EXCEPT ![p] = "idle"]
            /\ init' = [init EXCEPT ![p] = FALSE]
            /\ timer' = [timer EXCEPT ![p] = FALSE]
            /\ buf' = [buf EXCEPT ![p] = Nothing]
            /\ doubt' = (doubt \/ pc[p] \in {"read", "write"})
            /\ UNCHANGED <<file, shm, recorded, mtime>>

\* The timer fires, in an exiting process at once and prematurely.
handler(p) == /\ Running(p) /\ pc[p] = "idle" /\ timer[p]
              /\ timer' = [timer EXCEPT ![p] = FALSE]
              /\ Goto(p, "stat")
              /\ UNCHANGED <<file, shm, recorded, state, init, mtime, buf, faults, doubt>>

(***************************************************************************)
(* read_conf_file.                                                         *)
(***************************************************************************)

\* isconfread, lfs.attributes: a file that is not there ends the attempt.
Stat(p) ==
    /\ pc[p] = "stat"
    /\ \/ file.kind = "absent" /\ Return(p)
       \/ /\ file.kind # "absent"
          /\ mtime' = [mtime EXCEPT ![p] = file.mtime]
          /\ Goto(p, "compare")
          /\ UNCHANGED <<state, init, timer, buf, faults>>
    /\ UNCHANGED <<file, shm, recorded, doubt>>

\* Seeded faults: only a younger file counts as modified; something else
\* than the modification time is recorded.
CompareWith(p, changed, stamp) ==
    /\ pc[p] = "compare"
    /\ \/ ~changed /\ Return(p) /\ UNCHANGED <<recorded, doubt>>
       \/ /\ changed
          /\ recorded' = stamp
          /\ doubt' = \E q \in Gen \ {p} : pc[q] = "write"
          /\ Goto(p, "read")
          /\ UNCHANGED <<state, init, timer, mtime, buf, faults>>
    /\ UNCHANGED <<file, shm>>
CompareOnlyNewer(p) == CompareWith(p, recorded < mtime[p], mtime[p])
CompareRecordsSize(p) == CompareWith(p, recorded # mtime[p], file.rev)

\* isconfread, the rest: any other time than the recorded one is a change,
\* and it is recorded before the file is read.  A new load clears the
\* doubt, unless another process is copying an earlier one.
Compare(p) ==
    /\ pc[p] = "compare"
    /\ \/ recorded = mtime[p] /\ Return(p) /\ UNCHANGED <<recorded, doubt>>
       \/ /\ recorded # mtime[p]
          /\ recorded' = mtime[p]
          /\ doubt' = \E q \in Gen \ {p} : pc[q] = "write"
          /\ Goto(p, "read")
          /\ UNCHANGED <<state, init, timer, mtime, buf, faults>>
    /\ UNCHANGED <<file, shm>>

\* Seeded fault: the first section is taken for a header.
ReadSkipsOne(p) ==
    /\ pc[p] = "read" /\ file.kind \in Parseable
    /\ \E d \in Domain :
         buf' = [buf EXCEPT ![p] = [rev |-> file.rev, todo |-> file.doms \ {d},
                                    flawed |-> file.kind = "flawed"]]
    /\ Goto(p, "write")
    /\ UNCHANGED <<file, shm, recorded, state, init, timer, mtime, faults, doubt>>

\* io.open, read and cjson.decode.  A file that does not open is left for
\* the next modification; decode throws on anything but JSON, so the branch
\* for a nil result (line 114) is never taken.
Read(p) ==
    /\ pc[p] = "read"
    /\ \/ file.kind \notin Readable /\ Return(p) /\ doubt' = TRUE
       \/ file.kind = "broken" /\ Throw(p) /\ doubt' = TRUE
       \/ /\ file.kind \in Parseable
          /\ buf' = [buf EXCEPT ![p] = [rev |-> file.rev, todo |-> file.doms,
                                        flawed |-> file.kind = "flawed"]]
          /\ Goto(p, "write")
          /\ UNCHANGED <<state, init, timer, mtime, faults, doubt>>
    /\ UNCHANGED <<file, shm, recorded>>

\* One turn of the loop: pairs() yields the sections in any order.
Write(p) ==
    /\ pc[p] = "write"
    /\ \E d \in buf[p].todo :
         /\ shm' = [shm EXCEPT ![d] = buf[p].rev]
         /\ buf' = [buf EXCEPT ![p].todo = @ \ {d}]
    /\ UNCHANGED <<file, recorded, state, pc, init, timer, mtime, faults, doubt>>

\* The section without a domain: the log line concatenates nil.
WriteThrows(p) == /\ pc[p] = "write" /\ buf[p].flawed
                  /\ Throw(p)
                  /\ doubt' = TRUE
                  /\ UNCHANGED <<file, shm, recorded>>

\* The loop is over.
Finish(p) == /\ pc[p] = "write" /\ ~buf[p].flawed /\ buf[p].todo = {}
             /\ Return(p)
             /\ UNCHANGED <<file, shm, recorded, doubt>>

(***************************************************************************)
(* The operator.                                                           *)
(***************************************************************************)

\* The file is replaced, removed or left unreadable.  Modification times
\* have a resolution of a second and need not grow (cp -p, a checkout).  An
\* edit that ends up with the recorded time cannot be told from no edit.
Edit == /\ file.rev < MaxEdits
        /\ file' \in Files(file.rev + 1)
        /\ doubt' = (doubt \/ file'.mtime = recorded)
        /\ UNCHANGED <<shm, recorded, worker, faults>>

Step(p) == \/ handler(p) \/ Stat(p) \/ Compare(p) \/ Read(p)
           \/ Write(p) \/ WriteThrows(p) \/ Finish(p)

Next == \/ \E p \in Gen : Spawn(p) \/ Hup(p) \/ Crash(p) \/ Step(p)
        \/ Edit

\* Processes are scheduled, timers fire and the master replaces a dead
\* worker.  Edits, HUPs and crashes need not happen.
Fairness == \A p \in Gen : WF_vars(Step(p)) /\ WF_vars(Spawn(p))

Spec == Init /\ [][Next]_vars /\ Fairness

-----------------------------------------------------------------------------

Label == {"idle", "stat", "compare", "read", "write"}

TypeOK == /\ file \in UNION {Files(r) : r \in 1..MaxEdits}
          /\ shm \in [Domain -> 0..MaxEdits]
          /\ recorded \in 0..MaxMtime
          /\ state \in [Gen -> {"unborn", "up", "exiting", "gone"}]
          /\ pc \in [Gen -> Label]
          /\ init \in [Gen -> BOOLEAN]
          /\ timer \in [Gen -> BOOLEAN]
          /\ mtime \in [Gen -> 0..MaxMtime]
          /\ buf \in [Gen -> [rev : 0..MaxEdits, todo : SUBSET Domain,
                              flawed : BOOLEAN]]
          /\ faults \in 0..MaxFaults
          /\ doubt \in BOOLEAN

Loaded == \A d \in file.doms : shm[d] = file.rev

\* A process between recording a modification time and its last domain.
Loading(p) == pc[p] \in {"read", "write"}

\* isconfread's bet: when the recorded time is the time of the file and
\* nobody is loading, the dictionary holds what the file says.  It is won
\* unless a process died or threw in the middle, the file did not open, two
\* processes loaded at once, or an edit kept the modification time.
RecordedMeansLoaded ==
    recorded = file.mtime /\ file.kind # "absent"
        /\ ~doubt /\ (\A p \in Gen : ~Loading(p))
      => Loaded

\* The process is in the handler or will come back to it.
LoopAlive(p) == state[p] = "up" /\ (timer[p] \/ pc[p] # "idle")

\* A section goes back to an earlier version of the file only when two
\* processes load at once, and then it does not go unnoticed: either the
\* next poll sees another modification time and loads again, or the load is
\* one of those RecordedMeansLoaded makes no promise about.
RollbackNoticed ==
    [][(\E d \in Domain : shm'[d] < shm[d]) => doubt \/ recorded # file.mtime]_vars

\* Once the edits stop, a loop that is still alive brings a good file into
\* the dictionary, whatever happened before, unless the recorded time hides
\* the last change.
Converges == <>[](file.kind = "good" /\ ~doubt /\ (\E p \in Gen : LoopAlive(p))
                    => Loaded)

\* init_worker_phase_entrance.lua:114-118 means to survive a file that is
\* not JSON: log it, free the lock and go on.  As long as timers can be
\* created, worker 0 never loses its loop.
ReloadSurvives == \A p \in Gen : state[p] = "up" => LoopAlive(p)
=============================================================================
