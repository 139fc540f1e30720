-------------------------- MODULE ConfReloadProofs --------------------------
(***************************************************************************)
(* Proofs about ConfReload for every set of domains, any number of worker  *)
(* processes, edits and faults.  RecordedMeansLoaded speaks only of states *)
(* in which nobody loads; the inductive invariant adds what is true while  *)
(* processes load: none of them is copying anything but the present file,  *)
(* and what it has left behind is in the dictionary.                       *)
(***************************************************************************)
EXTENDS ConfReload, TLAPS

\* The recorded time is trusted: the next comparison will report no change
\* and nothing has happened that it should have reported.
Trusted == recorded = file.mtime /\ ~doubt

\* A process has not left the loop before it was born.
UnbornIdle == \A p \in Gen : state[p] = "unborn" => pc[p] = "idle"

\* No version is newer than the file's.
NothingNewer == /\ \A d \in Domain : shm[d] <= file.rev
                /\ \A p \in Gen : buf[p].rev <= file.rev

\* While the recorded time is trusted, every process in the copying loop
\* copies the present file, and its finished domains are in the dictionary.
CopiesPresent ==
    Trusted => \A p \in Gen : pc[p] = "write" =>
        /\ buf[p].rev = file.rev
        /\ \A d \in file.doms : d \in buf[p].todo \/ shm[d] = file.rev

\* While the recorded time is trusted, the dictionary holds the file or
\* somebody is still loading it.
LoadedOrLoading == Trusted => Loaded \/ \E p \in Gen : Loading(p)

\* The inductive invariant.
IInv == TypeOK /\ UnbornIdle /\ NothingNewer /\ CopiesPresent /\ LoadedOrLoading

-----------------------------------------------------------------------------

\* What a rule file is made of.
LEMMA FileParts ==
  ASSUME NEW r \in 1..MaxEdits, NEW f \in Files(r)
  PROVE  /\ f.rev = r /\ f.mtime \in 1..MaxMtime
         /\ f.kind \in Kind /\ f.doms \in SUBSET Domain
BY DEF Files, Kind, Parseable

\* The same of the file of a typed state.
LEMMA FileType ==
  ASSUME TypeOK
  PROVE  /\ file.rev \in 1..MaxEdits /\ file.mtime \in 1..MaxMtime
         /\ file.kind \in Kind /\ file.doms \in SUBSET Domain
<1>1. PICK r \in 1..MaxEdits : file \in Files(r)
  BY DEF TypeOK
<1>2. QED
  BY <1>1, FileParts

\* A counted fault stays within its bound.
LEMMA FaultType ==
  ASSUME TypeOK, NEW bad \in BOOLEAN, Fault(bad)
  PROVE  faults' \in 0..MaxFaults
<1>1. faults \in 0..MaxFaults /\ MaxFaults \in Nat
  BY BoundAssumption DEF TypeOK
<1>2. CASE bad = TRUE
  BY <1>1, <1>2 DEF Fault
<1>3. CASE bad = FALSE
  BY <1>1, <1>3 DEF Fault
<1>4. QED
  BY <1>2, <1>3

\* Nothing is a buffer.
LEMMA NothingType ==
  Nothing \in [rev : 0..MaxEdits, todo : SUBSET Domain, flawed : BOOLEAN]
<1>1. 0 \in 0..MaxEdits
  BY BoundAssumption
<1>2. QED
  BY <1>1, Zenon DEF Nothing

\* The part of the state a process keeps for itself.
WorkerType == /\ state \in [Gen -> {"unborn", "up", "exiting", "gone"}]
              /\ pc \in [Gen -> Label]
              /\ init \in [Gen -> BOOLEAN]
              /\ timer \in [Gen -> BOOLEAN]
              /\ mtime \in [Gen -> 0..MaxMtime]
              /\ buf \in [Gen -> [rev : 0..MaxEdits, todo : SUBSET Domain,
                                  flawed : BOOLEAN]]

\* A return from read_conf_file keeps the types.
LEMMA ReturnType ==
  ASSUME TypeOK, NEW p \in Gen, Return(p)
  PROVE  WorkerType' /\ faults' \in 0..MaxFaults
<1>1. PICK created \in BOOLEAN :
        /\ Fault(~init[p] /\ state[p] = "up" /\ ~created)
        /\ timer' = [timer EXCEPT ![p] = IF init[p] THEN @ ELSE created]
  BY Zenon DEF Return
<1>2. faults' \in 0..MaxFaults
  <2>1. (~init[p] /\ state[p] = "up" /\ ~created) \in BOOLEAN
    OBVIOUS
  <2>2. QED
    BY <1>1, <2>1, FaultType
<1>3. timer' \in [Gen -> BOOLEAN]
  BY <1>1, Zenon DEF TypeOK
<1>4. pc' \in [Gen -> Label] /\ init' \in [Gen -> BOOLEAN]
  BY Zenon DEF TypeOK, Return, Label
<1>5. buf' \in [Gen -> [rev : 0..MaxEdits, todo : SUBSET Domain, flawed : BOOLEAN]]
  BY NothingType, Zenon DEF TypeOK, Return
<1>6. /\ state' \in [Gen -> {"unborn", "up", "exiting", "gone"}]
      /\ mtime' \in [Gen -> 0..MaxMtime]
  BY Zenon DEF TypeOK, Return
<1>7. QED
  BY <1>2, <1>3, <1>4, <1>5, <1>6, Zenon DEF WorkerType

\* So does an uncaught error.
LEMMA ThrowType ==
  ASSUME TypeOK, NEW p \in Gen, Throw(p)
  PROVE  WorkerType' /\ faults' \in 0..MaxFaults
<1>1. pc' \in [Gen -> Label] /\ init' \in [Gen -> BOOLEAN]
  BY Zenon DEF TypeOK, Throw, Label
<1>2. buf' \in [Gen -> [rev : 0..MaxEdits, todo : SUBSET Domain, flawed : BOOLEAN]]
  BY NothingType, Zenon DEF TypeOK, Throw
<1>3. /\ state' \in [Gen -> {"unborn", "up", "exiting", "gone"}]
      /\ timer' \in [Gen -> BOOLEAN] /\ mtime' \in [Gen -> 0..MaxMtime]
      /\ faults' \in 0..MaxFaults
  BY Zenon DEF TypeOK, Throw
<1>4. QED
  BY <1>1, <1>2, <1>3, Zenon DEF WorkerType

\* A new process keeps the types.
LEMMA EnterType ==
  ASSUME TypeOK, NEW p \in Gen, Enter(p),
         state' \in [Gen -> {"unborn", "up", "exiting", "gone"}]
  PROVE  WorkerType'
BY Zenon DEF TypeOK, Enter, WorkerType, Label

\* Every step keeps the types.
LEMMA TypePreserved ==
  ASSUME TypeOK, [Next]_vars
  PROVE  TypeOK'
<1>0. TypeOK <=> /\ file \in UNION {Files(r) : r \in 1..MaxEdits}
                 /\ shm \in [Domain -> 0..MaxEdits]
                 /\ recorded \in 0..MaxMtime
                 /\ WorkerType
                 /\ faults \in 0..MaxFaults
                 /\ doubt \in BOOLEAN
  BY Zenon DEF TypeOK, WorkerType
<1>00. TypeOK' <=> /\ (file \in UNION {Files(r) : r \in 1..MaxEdits})'
                   /\ (shm \in [Domain -> 0..MaxEdits])'
                   /\ (recorded \in 0..MaxMtime)'
                   /\ WorkerType'
                   /\ (faults \in 0..MaxFaults)'
                   /\ (doubt \in BOOLEAN)'
  BY Zenon DEF TypeOK, WorkerType
<1> USE <1>0, <1>00
<1>1. ASSUME NEW p \in Gen, Spawn(p) PROVE TypeOK'
  <2>1. state' \in [Gen -> {"unborn", "up", "exiting", "gone"}]
    BY <1>1, Zenon DEF Spawn, TypeOK
  <2>2. QED
    BY <1>1, <2>1, EnterType, Zenon DEF Spawn
<1>2. ASSUME NEW p \in Gen, Hup(p) PROVE TypeOK'
  <2>1. state' \in [Gen -> {"unborn", "up", "exiting", "gone"}]
    BY <1>2, Zenon DEF Hup, TypeOK
  <2>2. QED
    BY <1>2, <2>1, EnterType, Zenon DEF Hup
<1>3. ASSUME NEW p \in Gen, Crash(p) PROVE TypeOK'
  <2>1. WorkerType'
    BY <1>3, NothingType, Zenon DEF Crash, WorkerType, Label
  <2>2. faults' \in 0..MaxFaults
    BY <1>3, FaultType DEF Crash
  <2>3. doubt' \in BOOLEAN
    BY <1>3, Zenon DEF Crash
  <2>4. QED
    BY <1>3, <2>1, <2>2, <2>3, Zenon DEF Crash
<1>4. ASSUME NEW p \in Gen, handler(p) PROVE TypeOK'
  <2>1. WorkerType'
    BY <1>4, Zenon DEF handler, Goto, WorkerType, Label
  <2>2. QED
    BY <1>4, <2>1, Zenon DEF handler
<1>5. ASSUME NEW p \in Gen, Stat(p) PROVE TypeOK'
  <2>1. CASE file.kind = "absent" /\ Return(p)
    BY <1>5, <2>1, ReturnType, Zenon DEF Stat
  <2>2. CASE /\ mtime' = [mtime EXCEPT ![p] = file.mtime]
             /\ Goto(p, "compare")
             /\ UNCHANGED <<state, init, timer, buf, faults>>
    <3>1. file.mtime \in 0..MaxMtime
      BY FileType, BoundAssumption
    <3>2. WorkerType'
      BY <2>2, <3>1, Zenon DEF Goto, WorkerType, Label
    <3>3. QED
      BY <1>5, <2>2, <3>2, Zenon DEF Stat
  <2>3. QED
    BY <1>5, <2>1, <2>2, Zenon DEF Stat
<1>6. ASSUME NEW p \in Gen, Compare(p) PROVE TypeOK'
  <2>1. CASE Return(p) /\ UNCHANGED <<recorded, doubt>>
    BY <1>6, <2>1, ReturnType, Zenon DEF Compare
  <2>2. CASE /\ recorded' = mtime[p]
             /\ doubt' = \E q \in Gen \ {p} : pc[q] = "write"
             /\ Goto(p, "read")
             /\ UNCHANGED <<state, init, timer, mtime, buf, faults>>
    <3>1. recorded' \in 0..MaxMtime
      BY <2>2, Zenon DEF WorkerType
    <3>2. WorkerType'
      BY <2>2, Zenon DEF Goto, WorkerType, Label
    <3>3. doubt' \in BOOLEAN
      BY <2>2, Zenon
    <3>4. QED
      BY <1>6, <2>2, <3>1, <3>2, <3>3, Zenon DEF Compare
  <2>3. QED
    BY <1>6, <2>1, <2>2, Zenon DEF Compare
<1>7. ASSUME NEW p \in Gen, Read(p) PROVE TypeOK'
  <2>1. CASE Return(p) /\ doubt' = TRUE
    BY <1>7, <2>1, ReturnType, Zenon DEF Read
  <2>2. CASE Throw(p) /\ doubt' = TRUE
    BY <1>7, <2>2, ThrowType, Zenon DEF Read
  <2>3. CASE /\ buf' = [buf EXCEPT ![p] = [rev |-> file.rev, todo |-> file.doms,
                                           flawed |-> file.kind = "flawed"]]
             /\ Goto(p, "write")
             /\ UNCHANGED <<state, init, timer, mtime, faults, doubt>>
    <3>1. file.rev \in 0..MaxEdits /\ file.doms \in SUBSET Domain
      BY FileType, BoundAssumption
    <3>2. (file.kind = "flawed") \in BOOLEAN
      BY Zenon
    <3>3. [rev |-> file.rev, todo |-> file.doms, flawed |-> file.kind = "flawed"]
            \in [rev : 0..MaxEdits, todo : SUBSET Domain, flawed : BOOLEAN]
      BY <3>1, <3>2, Zenon
    <3>4. WorkerType'
      BY <2>3, <3>3, Zenon DEF Goto, WorkerType, Label
    <3>5. QED
      BY <1>7, <2>3, <3>4, Zenon DEF Read
  <2>4. QED
    BY <1>7, <2>1, <2>2, <2>3, Zenon DEF Read
<1>8. ASSUME NEW p \in Gen, Write(p) PROVE TypeOK'
  <2>1. PICK d \in buf[p].todo :
          /\ shm' = [shm EXCEPT ![d] = buf[p].rev]
          /\ buf' = [buf EXCEPT ![p].todo = @ \ {d}]
    BY <1>8, Zenon DEF Write
  <2>2. buf[p] \in [rev : 0..MaxEdits, todo : SUBSET Domain, flawed : BOOLEAN]
    BY Zenon DEF WorkerType
  <2>3. shm' \in [Domain -> 0..MaxEdits]
    BY <2>1, <2>2
  <2>4. buf' \in [Gen -> [rev : 0..MaxEdits, todo : SUBSET Domain, flawed : BOOLEAN]]
    BY <2>1, <2>2 DEF WorkerType
  <2>5. WorkerType'
    BY <1>8, <2>4, Zenon DEF Write, WorkerType
  <2>6. QED
    BY <1>8, <2>3, <2>5, Zenon DEF Write
<1>9. ASSUME NEW p \in Gen, WriteThrows(p) PROVE TypeOK'
  BY <1>9, ThrowType, Zenon DEF WriteThrows
<1>10. ASSUME NEW p \in Gen, Finish(p) PROVE TypeOK'
  BY <1>10, ReturnType, Zenon DEF Finish
<1>11. CASE Edit
  <2>1. file.rev + 1 \in 1..MaxEdits
    BY <1>11, FileType, BoundAssumption DEF Edit
  <2>2. file' \in UNION {Files(r) : r \in 1..MaxEdits}
    BY <1>11, <2>1, Zenon DEF Edit
  <2>3. doubt' \in BOOLEAN
    BY <1>11, Zenon DEF Edit
  <2>4. WorkerType'
    BY <1>11, Zenon DEF Edit, worker, WorkerType
  <2>5. QED
    BY <1>11, <2>2, <2>3, <2>4, Zenon DEF Edit
<1>12. CASE UNCHANGED vars
  BY <1>12, Zenon DEF vars, worker, WorkerType
<1>13. QED
  BY <1>1, <1>2, <1>3, <1>4, <1>5, <1>6, <1>7, <1>8, <1>9, <1>10, <1>11, <1>12, Zenon
  DEF Next, Step

-----------------------------------------------------------------------------

\* The parts of the invariant beyond the types.
Promises == UnbornIdle /\ NothingNewer /\ CopiesPresent /\ LoadedOrLoading

\* A process leaves read_conf_file, or moves inside it without loading,
\* and empties its buffer or keeps it: the promises survive when it was not
\* loading, and in any case when the recorded time is not trusted any more.
LEMMA Leaving ==
  ASSUME IInv, NEW p \in Gen, NEW l \in {"idle", "stat", "compare"},
         file' = file, shm' = shm, recorded' = recorded,
         pc' = [pc EXCEPT ![p] = l],
         buf' = buf \/ buf' = [buf EXCEPT ![p] = Nothing],
         l # "idle" => state'[p] # "unborn",
         \A q \in Gen : state'[q] = "unborn" => state[q] = "unborn",
         doubt' \/ (~doubt /\ (~Loading(p) \/ Loaded)) \/ doubt
                \/ recorded # file.mtime,
         doubt => doubt'
  PROVE  Promises'
<1> USE DEF IInv, TypeOK
<1>1. /\ pc'[p] = l
      /\ \A q \in Gen : q # p => pc'[q] = pc[q]
      /\ \A q \in Gen : q # p => buf'[q] = buf[q]
      /\ buf'[p].rev = buf[p].rev \/ buf'[p].rev = 0
  BY DEF Nothing
<1>2. UnbornIdle'
  BY <1>1 DEF UnbornIdle
<1>3. NothingNewer'
  <2>1. \A q \in Gen : buf'[q].rev <= file.rev
    BY <1>1, FileType DEF NothingNewer
  <2>2. QED
    BY <2>1 DEF NothingNewer
<1>4. CopiesPresent'
  BY <1>1 DEF CopiesPresent, Trusted
<1>5. LoadedOrLoading'
  BY <1>1 DEF LoadedOrLoading, Trusted, Loading, Loaded
<1>6. QED
  BY <1>2, <1>3, <1>4, <1>5 DEF Promises

\* A process begins: it was idle until then.
LEMMA Entering ==
  ASSUME IInv, NEW p \in Gen, state[p] = "unborn", Enter(p),
         state'[p] # "unborn",
         \A q \in Gen : state'[q] = "unborn" => state[q] = "unborn",
         UNCHANGED <<file, shm, recorded, doubt>>
  PROVE  Promises'
<1>1. ~Loading(p)
  BY DEF IInv, UnbornIdle, Loading
<1>2. pc' = [pc EXCEPT ![p] = "stat"] /\ buf' = buf
  BY DEF Enter
<1>3. QED
  BY <1>1, <1>2, Leaving

\* The steps keep the promises.
LEMMA PromisesPreserved ==
  ASSUME IInv, [Next]_vars
  PROVE  Promises'
<1>1. ASSUME NEW p \in Gen, Spawn(p) PROVE Promises'
  <2>1. /\ state'[p] # "unborn"
        /\ \A q \in Gen : state'[q] = "unborn" => state[q] = "unborn"
    BY <1>1 DEF Spawn, IInv, TypeOK
  <2>2. QED
    BY <1>1, <2>1, Entering DEF Spawn, NextGen
<1>2. ASSUME NEW p \in Gen, Hup(p) PROVE Promises'
  <2>1. /\ state'[p] # "unborn"
        /\ \A q \in Gen : state'[q] = "unborn" => state[q] = "unborn"
    BY <1>2 DEF Hup, IInv, TypeOK
  <2>2. QED
    BY <1>2, <2>1, Entering DEF Hup, NextGen
<1>3. ASSUME NEW p \in Gen, Crash(p) PROVE Promises'
  <2>1. \A q \in Gen : state'[q] = "unborn" => state[q] = "unborn"
    BY <1>3 DEF Crash, IInv, TypeOK
  <2>2. doubt => doubt'
    BY <1>3, Zenon DEF Crash
  <2>3. doubt' \/ (~doubt /\ ~Loading(p)) \/ doubt
    BY <1>3, Zenon DEF Crash, Loading
  <2>4. QED
    BY <1>3, <2>1, <2>2, <2>3, Leaving DEF Crash
<1>4. ASSUME NEW p \in Gen, handler(p) PROVE Promises'
  <2>1. ~Loading(p) /\ state[p] # "unborn"
    BY <1>4 DEF handler, Loading, Running
  <2>2. QED
    BY <1>4, <2>1, Leaving DEF handler, Goto
<1>5. ASSUME NEW p \in Gen, Stat(p) PROVE Promises'
  <2>1. ~Loading(p) /\ state[p] # "unborn"
    BY <1>5 DEF Stat, Loading, IInv, UnbornIdle
  <2>2. CASE Return(p)
    BY <1>5, <2>1, <2>2, Leaving DEF Stat, Return
  <2>3. CASE Goto(p, "compare") /\ UNCHANGED <<state, init, timer, buf, faults>>
    BY <1>5, <2>1, <2>3, Leaving DEF Stat, Goto
  <2>4. QED
    BY <1>5, <2>2, <2>3, Zenon DEF Stat
<1>6. ASSUME NEW p \in Gen, Compare(p) PROVE Promises'
  <2>1. ~Loading(p) /\ state[p] # "unborn"
    BY <1>6 DEF Compare, Loading, IInv, UnbornIdle
  <2>2. CASE Return(p) /\ UNCHANGED <<recorded, doubt>>
    BY <1>6, <2>1, <2>2, Leaving DEF Compare, Return
  <2>3. CASE /\ doubt' = \E q \in Gen \ {p} : pc[q] = "write"
             /\ Goto(p, "read")
             /\ UNCHANGED <<state, init, timer, mtime, buf, faults>>
    <3>1. /\ pc'[p] = "read"
          /\ \A q \in Gen : q # p => pc'[q] = pc[q]
          /\ file' = file /\ shm' = shm /\ buf' = buf /\ state' = state
      BY <1>6, <2>3 DEF Compare, Goto, IInv, TypeOK
    <3>2. doubt' \/ \A q \in Gen : pc'[q] # "write"
      <4>1. doubt' \/ \A q \in Gen \ {p} : pc[q] # "write"
        BY <2>3, Zenon
      <4>2. QED
        BY <3>1, <4>1
    <3>3. UnbornIdle' /\ NothingNewer'
      BY <2>1, <3>1 DEF IInv, UnbornIdle, NothingNewer
    <3>4. CopiesPresent'
      BY <3>2, Zenon DEF CopiesPresent, Trusted
    <3>5. LoadedOrLoading'
      BY <3>1 DEF LoadedOrLoading, Loading
    <3>6. QED
      BY <3>3, <3>4, <3>5 DEF Promises
  <2>4. QED
    BY <1>6, <2>2, <2>3, Zenon DEF Compare
<1>7. ASSUME NEW p \in Gen, Read(p) PROVE Promises'
  <2>1. CASE Return(p) /\ doubt' = TRUE
    BY <1>7, <2>1, Leaving DEF Read, Return
  <2>2. CASE Throw(p) /\ doubt' = TRUE
    BY <1>7, <2>2, Leaving DEF Read, Throw
  <2>3. CASE /\ buf' = [buf EXCEPT ![p] = [rev |-> file.rev, todo |-> file.doms,
                                           flawed |-> file.kind = "flawed"]]
             /\ Goto(p, "write")
             /\ UNCHANGED <<state, init, timer, mtime, faults, doubt>>
    <3>1. /\ pc'[p] = "write" /\ pc[p] # "idle"
          /\ \A q \in Gen : q # p => pc'[q] = pc[q]
          /\ file' = file /\ shm' = shm /\ state' = state /\ doubt' = doubt
          /\ recorded' = recorded
          /\ \A q \in Gen : q # p => buf'[q] = buf[q]
          /\ buf'[p].rev = file.rev /\ buf'[p].todo = file.doms
      BY <1>7, <2>3 DEF Read, Goto, IInv, TypeOK
    <3>2. UnbornIdle'
      BY <3>1 DEF IInv, UnbornIdle
    <3>3. NothingNewer'
      BY <3>1, FileType DEF IInv, NothingNewer
    <3>4. CopiesPresent'
      BY <3>1 DEF IInv, CopiesPresent, Trusted
    <3>5. LoadedOrLoading'
      BY <3>1 DEF LoadedOrLoading, Loading
    <3>6. QED
      BY <3>2, <3>3, <3>4, <3>5 DEF Promises
  <2>4. QED
    BY <1>7, <2>1, <2>2, <2>3, Zenon DEF Read
<1>8. ASSUME NEW p \in Gen, Write(p) PROVE Promises'
  <2>1. PICK d \in buf[p].todo :
          /\ shm' = [shm EXCEPT ![d] = buf[p].rev]
          /\ buf' = [buf EXCEPT ![p].todo = @ \ {d}]
    BY <1>8, Zenon DEF Write
  <2>2. buf[p] \in [rev : 0..MaxEdits, todo : SUBSET Domain, flawed : BOOLEAN]
    BY DEF IInv, TypeOK
  <2>3. /\ shm'[d] = buf[p].rev
        /\ \A e \in Domain : e # d => shm'[e] = shm[e]
        /\ \A q \in Gen : q # p => buf'[q] = buf[q]
        /\ buf'[p].rev = buf[p].rev /\ buf'[p].todo = buf[p].todo \ {d}
    BY <2>1, <2>2 DEF IInv, TypeOK
  <2>4. /\ file' = file /\ recorded' = recorded /\ pc' = pc /\ doubt' = doubt
        /\ state' = state /\ pc[p] = "write"
    BY <1>8 DEF Write
  <2>5. UnbornIdle'
    BY <2>4 DEF IInv, UnbornIdle
  <2>6. NothingNewer'
    BY <2>3, <2>4 DEF IInv, NothingNewer
  <2>7. CopiesPresent'
    <3>1. SUFFICES ASSUME Trusted', NEW q \in Gen, pc'[q] = "write"
                   PROVE  /\ buf'[q].rev = file'.rev
                          /\ \A e \in file'.doms :
                               e \in buf'[q].todo \/ shm'[e] = file'.rev
      BY DEF CopiesPresent
    <3>2. Trusted
      BY <2>4, <3>1 DEF Trusted
    <3>3. buf[p].rev = file.rev
      BY <2>4, <3>2 DEF IInv, CopiesPresent
    <3>4. /\ buf[q].rev = file.rev
          /\ \A e \in file.doms : e \in buf[q].todo \/ shm[e] = file.rev
      BY <2>4, <3>1, <3>2 DEF IInv, CopiesPresent
    <3>5. \A e \in file.doms : e \in Domain
      BY FileType DEF IInv
    <3>6. QED
      BY <2>3, <2>4, <3>3, <3>4, <3>5
  <2>8. LoadedOrLoading'
    BY <2>4 DEF LoadedOrLoading, Loading
  <2>9. QED
    BY <2>5, <2>6, <2>7, <2>8 DEF Promises
<1>9. ASSUME NEW p \in Gen, WriteThrows(p) PROVE Promises'
  BY <1>9, Leaving DEF WriteThrows, Throw
<1>10. ASSUME NEW p \in Gen, Finish(p) PROVE Promises'
  <2>1. Loaded \/ ~Trusted
    BY <1>10 DEF Finish, IInv, CopiesPresent, Loaded
  <2>2. (~doubt /\ Loaded) \/ doubt \/ recorded # file.mtime
    BY <2>1 DEF Trusted
  <2>3. QED
    BY <1>10, <2>2, Leaving DEF Finish, Return
<1>11. CASE Edit
  <2>1. /\ shm' = shm /\ pc' = pc /\ buf' = buf /\ state' = state
        /\ recorded' = recorded
    BY <1>11 DEF Edit, worker
  <2>2. ~Trusted'
    BY <1>11, <2>1, Zenon DEF Edit, Trusted
  <2>3. file'.rev = file.rev + 1
    BY <1>11 DEF Edit, Files
  <2>4. file.rev \in Nat
    BY FileType DEF IInv
  <2>5. NothingNewer'
    <3>1. \A d \in Domain : shm[d] \in Nat
      BY DEF IInv, TypeOK
    <3>2. \A p \in Gen : buf[p].rev \in Nat
      BY DEF IInv, TypeOK
    <3>3. QED
      BY <2>1, <2>3, <2>4, <3>1, <3>2 DEF IInv, NothingNewer
  <2>6. UnbornIdle'
    BY <2>1 DEF IInv, UnbornIdle
  <2>7. QED
    BY <2>2, <2>5, <2>6 DEF Promises, CopiesPresent, LoadedOrLoading
<1>12. CASE UNCHANGED vars
  <2>1. /\ file' = file /\ shm' = shm /\ pc' = pc /\ buf' = buf /\ state' = state
        /\ recorded' = recorded /\ doubt' = doubt
    BY <1>12 DEF vars, worker
  <2>2. QED
    BY <2>1 DEF IInv, Promises, UnbornIdle, NothingNewer, CopiesPresent,
                LoadedOrLoading, Trusted, Loaded, Loading
<1>13. QED
  BY <1>1, <1>2, <1>3, <1>4, <1>5, <1>6, <1>7, <1>8, <1>9, <1>10, <1>11, <1>12, Zenon
  DEF Next, Step

\* Initially nothing is recorded, and no file has the time 0.
LEMMA InitEstablishes == Init => IInv
<1> SUFFICES ASSUME Init PROVE IInv
  OBVIOUS
<1>1. file \in Files(1) /\ file.mtime = 1
  BY DEF Init
<1>2. 1 \in 1..MaxEdits /\ 0 \in 0..MaxEdits /\ 0 \in 0..MaxMtime /\ 0 \in 0..MaxFaults
  BY BoundAssumption
<1>3. TypeOK
  <2>1. file \in UNION {Files(r) : r \in 1..MaxEdits}
    BY <1>1, <1>2, Zenon
  <2>2. shm \in [Domain -> 0..MaxEdits] /\ recorded \in 0..MaxMtime
    BY <1>2, Zenon DEF Init
  <2>3. /\ state \in [Gen -> {"unborn", "up", "exiting", "gone"}]
        /\ pc \in [Gen -> Label] /\ init \in [Gen -> BOOLEAN]
        /\ timer \in [Gen -> BOOLEAN]
    BY Zenon DEF Init, Label
  <2>4. /\ mtime \in [Gen -> 0..MaxMtime]
        /\ buf \in [Gen -> [rev : 0..MaxEdits, todo : SUBSET Domain, flawed : BOOLEAN]]
    BY <1>2, NothingType, Zenon DEF Init
  <2>5. faults \in 0..MaxFaults /\ doubt \in BOOLEAN
    BY <1>2, Zenon DEF Init
  <2>6. QED
    BY <2>1, <2>2, <2>3, <2>4, <2>5, Zenon DEF TypeOK
<1>4. NothingNewer
  <2>1. file.rev = 1
    BY <1>1, <1>2, FileParts
  <2>2. QED
    BY <2>1 DEF NothingNewer, Init, Nothing
<1>5. UnbornIdle /\ ~Trusted
  BY <1>1 DEF Init, UnbornIdle, Trusted
<1>6. QED
  BY <1>3, <1>4, <1>5 DEF IInv, CopiesPresent, LoadedOrLoading

\* The invariant is inductive.
LEMMA NextPreserves ==
  ASSUME IInv, [Next]_vars
  PROVE  IInv'
BY TypePreserved, PromisesPreserved DEF IInv, Promises

\* It holds in every reachable state.
LEMMA InvariantHolds == Spec => []IInv
BY InitEstablishes, NextPreserves, PTL DEF Spec

\* The types of init_worker_phase_entrance.lua's state.
THEOREM TypeCorrect == Spec => []TypeOK
<1>1. IInv => TypeOK
  BY DEF IInv
<1>2. QED
  BY <1>1, InvariantHolds, PTL

\* isconfread's bet (init_worker_phase_entrance.lua:28-75): a recorded time
\* that is the file's means that the dictionary holds the file, however
\* many processes were worker 0 and whatever was edited in between, unless
\* one of the named accidents happened.
THEOREM RecordedMeansLoadedCorrect == Spec => []RecordedMeansLoaded
<1>1. IInv => RecordedMeansLoaded
  BY DEF IInv, LoadedOrLoading, Trusted, RecordedMeansLoaded
<1>2. QED
  BY <1>1, InvariantHolds, PTL

\* A section of the dictionary goes back to an earlier version of the file
\* only when the next poll will see a difference, or when an accident has
\* already been noticed.
THEOREM RollbackNoticedCorrect == Spec => RollbackNoticed
<1>1. ASSUME IInv, [Next]_vars
      PROVE  [(\E d \in Domain : shm'[d] < shm[d])
                 => doubt \/ recorded # file.mtime]_vars
  <2>1. ASSUME NEW d \in Domain, shm'[d] < shm[d]
        PROVE  doubt \/ recorded # file.mtime
    <3>1. shm[d] \in Nat
      BY <1>1 DEF IInv, TypeOK
    <3>2. shm' # shm
      BY <2>1, <3>1
    <3>3. PICK p \in Gen : Write(p)
      BY <1>1, <3>2, Zenon
      DEF Next, Step, vars, Spawn, Hup, Crash, handler, Stat, Compare, Read,
          WriteThrows, Finish, Edit
    <3>4. PICK e \in buf[p].todo : shm' = [shm EXCEPT ![e] = buf[p].rev]
      BY <3>3 DEF Write
    <3>5. shm \in [Domain -> 0..MaxEdits]
      BY <1>1 DEF IInv, TypeOK
    <3>6. shm'[d] = buf[p].rev
      BY <2>1, <3>1, <3>4, <3>5
    <3>7. buf[p].rev < shm[d] /\ shm[d] <= file.rev
      BY <1>1, <2>1, <3>6 DEF IInv, NothingNewer
    <3>8. buf[p].rev # file.rev
      BY <1>1, <3>1, <3>7, FileType DEF IInv
    <3>9. ~Trusted
      BY <1>1, <3>3, <3>8 DEF IInv, CopiesPresent, Write
    <3>10. QED
      BY <3>9 DEF Trusted
  <2>2. QED
    BY <2>1
<1>2. QED
  BY <1>1, InvariantHolds, PTL DEF RollbackNoticed, Spec
=============================================================================
