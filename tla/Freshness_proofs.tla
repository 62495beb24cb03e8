-------------------------- MODULE Freshness_proofs --------------------------
(***************************************************************************)
(* Theorems about Freshness: no event leaves the ledger before the graph   *)
(* has what it stands for, no edit is forgotten, but for a file that a     *)
(* failure nobody noticed has left unstored, and whoever raised the        *)
(* in-flight flag answers for it, for any number of files and processes,   *)
(* whatever is killed or fails.                                            *)
(***************************************************************************)
EXTENDS Freshness, TLAPS

(* Where only a drain gets, and where the locks are held. *)
DrainPoints == {"event", "refresh", "refreshWrite", "prior", "empty",
                "emptyWrite", "inFlight", "inFlightWrite", "sleep"}
                    \cup StampPoints
LeasePoints == ScanPoints \cup StampPoints \cup {"release", "failRelease"}
MutexPoints == {"refreshWrite", "emptyWrite", "inFlightWrite", "clearing",
                "doneWrite", "failWrite"}

Roles ==
    \A p \in Proc :
        /\ pc[p] \in DrainPoints => p \in Hooks
        /\ pc[p] \in {"idle", "event", "refresh", "refreshWrite"} => attempt[p] = 0
        /\ pc[p] = "prior" => attempt[p] < MaxAttempts

Locks ==
    /\ \A p \in Proc : p \in lease <=> pc[p] \in LeasePoints
    /\ \A p \in Proc : p \in mutex <=> pc[p] \in MutexPoints
    /\ \A p, q \in lease : p = q
    /\ \A p, q \in mutex : p = q

(* A hook's event is there, or in a snapshot, only after it was written. *)
Written ==
    /\ \A e \in ledger : pc[e.by] \notin {"idle", "event"}
    /\ \A p \in Proc : \A e \in snap[p] : pc[e.by] \notin {"idle", "event"}

(* Nobody writes the stamp between the two halves of a refresh. *)
RefreshIsCurrent == \A p \in Proc : pc[p] = "refreshWrite" => prior[p] = stamp

MarkedWasEdited == \A f \in File : marked[f] <= disk[f]

(* f has an event that p did not capture, or an edit that no event tells of *)
(* yet: p's scan need not have seen f as it is.                             *)
Late(p, f) == \E e \in ledger \ snap[p] : e.file = f
Unmarked(f) == \E p \in Hooks : file[p] = f /\ pc[p] \in {"event", "dead"}
Owed(p, f) == Late(p, f) \/ Unmarked(f)

(* The stored graph lacks f: it has nothing of it, or a scan failed to       *)
(* store it.  Whoever takes f out of the store is at it, or is put down.    *)
Lacks(f) == f \in unstored \/ graph[f] = 0
EmptiedKnown == \A f \in File : graph[f] = 0 => Unstored(f)

(* What the scan of p knows before it stores the graph, ... *)
Walks(p) ==
    /\ pc[p] = "wipe" => walk[p] = File
    /\ pc[p] \in {"wipe", "analyse", "store", "fill"} => Dirty(snap[p]) \subseteq walk[p]
    /\ pc[p] \in {"wipe", "analyse", "store"} =>
          \A f \in File \ walk[p] : graph[f] # disk[f] => Owed(p, f) \/ Lacks(f)
(* ... of the graph it is to store, ... *)
Fresh(p, f, v) == /\ v # disk[f] => Owed(p, f)
                  /\ v >= marked[f] \/ Late(p, f)
Reads(p) ==
    pc[p] \in {"store", "fill"} =>
        \A f \in File : \/ new[p][f] = 0
                        \/ f \notin walk[p] /\ f \in unstored
                        \/ Fresh(p, f, new[p][f])
(* ... and from then on until the snapshot is cleared. *)
Stores(p) ==
    pc[p] \in {"hash", "clear", "clearing"} =>
        \A f \in File :
            \/ Lacks(f)
            \/ /\ graph[f] # disk[f] => Owed(p, f)
               /\ f \in Dirty(snap[p]) => graph[f] >= marked[f] \/ Late(p, f)
ScanKnows == \A p \in Proc : Walks(p) /\ Reads(p) /\ Stores(p)

(* ClearedOnceScanned and NothingForgotten, but for what the graph lacks. *)
Cleared ==
    \A f \in File :
        f \notin Dirty(ledger) => graph[f] >= marked[f] \/ Lacks(f)
Remembered ==
    \A f \in File : graph[f] # disk[f] =>
        hash[f] # disk[f] \/ f \in Dirty(ledger) \/ Unmarked(f) \/ Lacks(f)

FreshIInv ==
    /\ TypeOK /\ Roles /\ Locks /\ Written
    /\ RefreshIsCurrent /\ MarkedWasEdited /\ ScanKnows
    /\ EmptiedKnown /\ Cleared /\ Remembered /\ OwnEditDrained
    /\ FlightHasACause

-----------------------------------------------------------------------------
(* Types. *)

LEMMA KindsApart ==
    /\ Hooks \subseteq Proc /\ Refreshers \subseteq Proc /\ Scans \subseteq Proc
    /\ \A p \in Proc : p \in Hooks => p \notin Refreshers /\ p \notin Scans
    /\ MaxAttempts \in Nat \ {0}
  BY KindAssumption, AttemptAssumption
     DEF Proc, KindAssumption, AttemptAssumption

LEMMA AttemptsLeft ==
    \A n \in 0..MaxAttempts : n # MaxAttempts => n < MaxAttempts
  BY KindsApart

LEMMA FreshBegins == Init => FreshIInv
<1> SUFFICES ASSUME Init PROVE FreshIInv
  OBVIOUS
<1> USE DEF Init
<1>1. TypeOK
  <2>1. Nowhere \in [File -> Nat] /\ NoStamp \in Stamp /\ stamp \in Stamp
    BY DEF Nowhere, NoStamp, Stamp
  <2>2. /\ pc \in [Proc -> Points] /\ prior \in [Proc -> Stamp]
        /\ new \in [Proc -> [File -> Nat]] /\ attempt \in [Proc -> 0..MaxAttempts]
    BY <2>1, KindsApart DEF Points
  <2>3. ledger \in SUBSET Event /\ snap \in [Proc -> SUBSET Event]
    OBVIOUS
  <2> QED
    BY <2>1, <2>2, <2>3 DEF TypeOK
<1>2. Roles /\ Locks /\ Written
  BY KindsApart
     DEF Roles, Locks, Written, DrainPoints, LeasePoints, MutexPoints,
         ScanPoints, StampPoints
<1>3. RefreshIsCurrent /\ MarkedWasEdited
  BY DEF RefreshIsCurrent, MarkedWasEdited, Nowhere
<1>4. ScanKnows
  BY DEF ScanKnows, Walks, Reads, Stores
<1>5. EmptiedKnown /\ Cleared /\ Remembered /\ OwnEditDrained
  BY KindsApart
     DEF EmptiedKnown, Cleared, Remembered, Lacks, OwnEditDrained, Nowhere
<1>6. FlightHasACause
  BY DEF FlightHasACause
<1> QED
  BY <1>1, <1>2, <1>3, <1>4, <1>5, <1>6 DEF FreshIInv

(* Taking a lock, and giving it back. *)
LEMMA LockSteps ==
    /\ \A p : Lease!Acquire(p) => lease = {} /\ lease' = {p}
    /\ \A p : Lease!Release(p) => lease = {p} /\ lease' = {}
    /\ \A p : Mutex!Acquire(p) => mutex = {} /\ mutex' = {p}
    /\ \A p : Mutex!Release(p) => mutex = {p} /\ mutex' = {}
  BY DEF Lease!Acquire, Lease!Release, Mutex!Acquire, Mutex!Release

LEMMA StampTypes ==
    /\ \A s \in Stamp : Aged(s) \in Stamp /\ Aged(s).flight = s.flight
    /\ \A s \in Stamp : s.flight \in BOOLEAN /\ s.age \in {"none", "old", "recent"}
    /\ \A age \in {"none", "old", "recent"}, flight \in BOOLEAN :
          [age |-> age, flight |-> flight] \in Stamp
    /\ NoStamp \in Stamp
  BY DEF Stamp, Aged, NoStamp

LEMMA Unchanged ==
    UNCHANGED vars =>
        UNCHANGED <<disk, graph, hash, unstored, ledger, marked, stamp, lease,
                    mutex, pc, file, snap, walk, new, prior, quiet, attempt,
                    slept>>
  BY DEF vars, filesVars, callVars, scanVars, loopVars

LEMMA PointsApart ==
    Points = {"idle", "event", "refresh", "refreshWrite", "prior", "capture",
              "captureRead", "empty", "emptyWrite", "lease", "failRelease",
              "release", "check", "sleep", "inFlight", "inFlightWrite",
              "detect", "wipe", "analyse", "store", "fill", "hash", "clear",
              "clearing", "done", "doneWrite", "failStamp", "failWrite", "ended",
              "gaveUp", "failed", "dead"}
  BY DEF Points, ScanPoints, StampPoints, Gone

LEMMA PointTypes ==
    ASSUME NEW p \in Proc, NEW l \in Points, TypeOK, Go(p, l)
    PROVE  pc' \in [Proc -> Points]
  BY DEF Go, TypeOK

LEMMA ScannedTypes ==
    ASSUME NEW p \in Proc, TypeOK, Scanned(p)
    PROVE  /\ walk' \in [Proc -> SUBSET File]
           /\ new' \in [Proc -> [File -> Nat]]
<1>1. Nowhere \in [File -> Nat]
  BY DEF Nowhere
<1> QED
  BY <1>1 DEF Scanned, TypeOK

LEMMA ForgetTypes ==
    ASSUME NEW p \in Proc, TypeOK, Forget(p)
    PROVE  /\ snap' \in [Proc -> SUBSET Event] /\ walk' \in [Proc -> SUBSET File]
           /\ new' \in [Proc -> [File -> Nat]] /\ prior' \in [Proc -> Stamp]
           /\ quiet' \in [Proc -> BOOLEAN]
<1>1. NoStamp \in Stamp
  BY StampTypes
<1> QED
  BY <1>1, ScannedTypes DEF Forget, TypeOK

LEMMA SleepTypes ==
    ASSUME NEW p \in Proc, NEW short \in BOOLEAN, TypeOK, Sleep(p, short)
    PROVE  /\ pc' \in [Proc -> Points]
           /\ snap' \in [Proc -> SUBSET Event] /\ walk' \in [Proc -> SUBSET File]
           /\ new' \in [Proc -> [File -> Nat]] /\ prior' \in [Proc -> Stamp]
           /\ quiet' \in [Proc -> BOOLEAN] /\ slept' \in [Proc -> BOOLEAN]
<1>1. "sleep" \in Points
  BY PointsApart
<1>2. slept' \in [Proc -> BOOLEAN]
  BY DEF Sleep, TypeOK
<1> QED
  BY <1>1, <1>2, PointTypes, ForgetTypes DEF Sleep

LEMMA FlagTypes ==
    ASSUME NEW p \in Proc, TypeOK, quiet' = [quiet EXCEPT ![p] = (ledger = {})]
    PROVE  quiet' \in [Proc -> BOOLEAN]
<1>1. (ledger = {}) \in BOOLEAN
  OBVIOUS
<1> QED
  BY <1>1 DEF TypeOK

LEMMA ReadForStampTypes ==
    ASSUME NEW p \in Proc, NEW from, NEW to \in Points, TypeOK,
           ReadForStamp(p, from, to)
    PROVE  TypeOK'
<1>1. pc' \in [Proc -> Points] /\ quiet' \in [Proc -> BOOLEAN]
  BY PointTypes, FlagTypes DEF ReadForStamp
<1>2. mutex' \in SUBSET Proc
  BY LockSteps DEF ReadForStamp
<1> QED
  BY <1>1, <1>2 DEF ReadForStamp, TypeOK, filesVars, scanVars, loopVars

LEMMA WriteStampTypes ==
    ASSUME NEW p \in Proc, NEW from, NEW to \in Points, TypeOK,
           NEW age \in {"none", "old", "recent"}, NEW flight \in BOOLEAN,
           WriteStamp(p, from, to, age, flight)
    PROVE  TypeOK'
<1>1. pc' \in [Proc -> Points] /\ quiet' \in [Proc -> BOOLEAN]
  BY PointTypes DEF WriteStamp, TypeOK
<1> QED
  BY <1>1, LockSteps, StampTypes
     DEF WriteStamp, TypeOK, filesVars, scanVars, loopVars

LEMMA KeptType ==
    ASSUME TypeOK, NEW p \in Proc
    PROVE  Kept(p) \in {"none", "old", "recent"}
  BY StampTypes DEF Kept, TypeOK

LEMMA StepTypes ==
    ASSUME TypeOK, Roles, NEW p \in Proc, Step(p)
    PROVE  TypeOK'
<1> USE PointsApart
<1>1. CASE WriteEvent(p)
  <2>1. p \in Hooks
    BY <1>1 DEF WriteEvent, Roles, DrainPoints
  <2>2. ledger' \in SUBSET Event
    BY <1>1, <2>1 DEF WriteEvent, TypeOK, Event
  <2>3. pc' \in [Proc -> Points] /\ marked' \in [File -> Nat]
    BY <1>1, <2>1, PointTypes DEF WriteEvent, TypeOK
  <2> QED
    BY <1>1, <2>2, <2>3 DEF WriteEvent, TypeOK, filesVars, callVars,
         scanVars, loopVars
<1>2. CASE RefreshRead(p)
  <2>1. pc' \in [Proc -> Points]
    BY <1>2, PointTypes DEF RefreshRead
  <2>2. mutex' \in SUBSET Proc /\ prior' \in [Proc -> Stamp]
    BY <1>2, LockSteps DEF RefreshRead, TypeOK
  <2> QED
    BY <1>2, <2>1, <2>2 DEF RefreshRead, TypeOK, filesVars, scanVars, loopVars
<1>3. CASE RefreshWrite(p)
  <2>1. pc' \in [Proc -> Points] /\ mutex' \in SUBSET Proc
    BY <1>3, PointTypes, LockSteps DEF RefreshWrite
  <2>2. stamp' \in Stamp
    BY <1>3 DEF RefreshWrite, TypeOK
  <2> QED
    BY <1>3, <2>1, <2>2, ForgetTypes DEF RefreshWrite, TypeOK, filesVars, loopVars
<1>4. CASE ReadPrior(p)
  <2>1. attempt' \in [Proc -> 0..MaxAttempts]
    BY <1>4, KindsApart DEF ReadPrior, TypeOK, Roles
  <2>2. CASE Sleep(p, FALSE)
    BY <1>4, <2>1, <2>2, SleepTypes DEF ReadPrior, TypeOK, filesVars
  <2>3. CASE stamp.age # "recent"
    <3>1. pc' \in [Proc -> Points] /\ prior' \in [Proc -> Stamp]
      BY <1>4, <2>3, PointTypes DEF ReadPrior, TypeOK
    <3> QED
      BY <1>4, <2>1, <2>3, <3>1 DEF ReadPrior, TypeOK, filesVars, scanVars
  <2> QED
    BY <1>4, <2>2, <2>3 DEF ReadPrior
<1>5. CASE CaptureList(p)
  BY <1>5, PointTypes, ForgetTypes, SleepTypes, LockSteps
     DEF CaptureList, TypeOK, filesVars, callVars,
         scanVars, loopVars
<1>6. CASE CaptureRead(p)
  BY <1>6, PointTypes, ForgetTypes, SleepTypes, LockSteps
     DEF CaptureRead, TypeOK, filesVars, callVars,
         scanVars, loopVars
<1>7. CASE EmptyRead(p)
  BY <1>7, ReadForStampTypes DEF EmptyRead
<1>8. CASE EmptyWrite(p)
  <2>1. CASE quiet[p]
    BY <1>8, <2>1, WriteStampTypes DEF EmptyWrite, Sleep
  <2>2. CASE ~quiet[p]
    <3>1. mutex' \in SUBSET Proc
      BY <1>8, <2>2, LockSteps DEF EmptyWrite
    <3> QED
      BY <1>8, <2>2, <3>1, SleepTypes DEF EmptyWrite, TypeOK, filesVars
  <2> QED
    BY <2>1, <2>2
<1>9. CASE TakeLease(p)
  <2>1. pc' \in [Proc -> Points]
    BY <1>9, PointTypes DEF TakeLease
  <2>2. lease' \in SUBSET Proc
    BY <1>9, LockSteps DEF TakeLease
  <2> QED
    BY <1>9, <2>1, <2>2 DEF TakeLease, TypeOK, filesVars, callVars, scanVars,
         loopVars
<1>10. CASE Busy(p)
  BY <1>10, PointTypes, ForgetTypes, SleepTypes, LockSteps
     DEF Busy, TypeOK, filesVars, callVars,
         scanVars, loopVars
<1>11. CASE InFlightRead(p)
  BY <1>11, ReadForStampTypes DEF InFlightRead
<1>12. CASE InFlightWrite(p)
  BY <1>12, WriteStampTypes, KeptType DEF InFlightWrite
<1>13. CASE Detect(p)
  <2>1. PICK w \in {{f \in File : disk[f] # hash[f]} \cup Dirty(snap[p]), File} :
          walk' = [walk EXCEPT ![p] = w]
    BY <1>13 DEF Detect
  <2>2. w \in SUBSET File
    BY DEF Dirty, Event, TypeOK
  <2>3. pc' \in [Proc -> Points]
    <3>1. \E l \in {"hash", "analyse", "wipe"} : Go(p, l)
      BY <1>13 DEF Detect
    <3> QED
      BY <3>1, PointTypes
  <2> QED
    BY <1>13, <2>1, <2>2, <2>3 DEF Detect, TypeOK, filesVars, loopVars
<1>14. CASE Analyse(p)
  <2>1. PICK unread \in SUBSET walk[p] :
          new' = [new EXCEPT ![p] =
                    [f \in File |-> IF f \in unread THEN 0
                                   ELSE IF f \in walk[p] THEN disk[f]
                                   ELSE graph[f]]]
    BY <1>14 DEF Analyse
  <2>2. new' \in [Proc -> [File -> Nat]]
    BY <2>1 DEF TypeOK
  <2>3. pc' \in [Proc -> Points]
    BY <1>14, PointTypes DEF Analyse
  <2> QED
    BY <1>14, <2>2, <2>3 DEF Analyse, TypeOK, filesVars, loopVars
<1>15. CASE Store(p)
  <2>1. pc' \in [Proc -> Points]
    BY <1>15, PointTypes DEF Store
  <2>2. graph' \in [File -> Nat] /\ unstored' \in SUBSET File
    BY <1>15 DEF Store, TypeOK
  <2> QED
    BY <1>15, <2>1, <2>2, ScannedTypes DEF Store, TypeOK, loopVars
<1>28. CASE Wipe(p)
  <2>1. pc' \in [Proc -> Points]
    BY <1>28, PointTypes DEF Wipe
  <2>2. graph' \in [File -> Nat]
    BY <1>28 DEF Wipe, TypeOK, Nowhere
  <2> QED
    BY <1>28, <2>1, <2>2 DEF Wipe, TypeOK, callVars, scanVars, loopVars
<1>29. CASE Truncate(p)
  <2>1. pc' \in [Proc -> Points]
    <3>1. \E l \in {"fill", "hash"} : Go(p, l)
      BY <1>29 DEF Truncate
    <3> QED
      BY <3>1, PointTypes
  <2>2. graph' \in [File -> Nat] /\ unstored' \in SUBSET File
    BY <1>29 DEF Truncate, TypeOK, Nowhere
  <2>3. walk' \in [Proc -> SUBSET File] /\ new' \in [Proc -> [File -> Nat]]
    BY <1>29, ScannedTypes DEF Truncate, TypeOK, scanVars
  <2> QED
    BY <1>29, <2>1, <2>2, <2>3 DEF Truncate, TypeOK, loopVars
<1>16. CASE SaveHashes(p)
  BY <1>16, PointTypes, ForgetTypes, SleepTypes, LockSteps
     DEF SaveHashes, TypeOK, filesVars, callVars,
         scanVars, loopVars
<1>17. CASE ClearBegin(p)
  <2>1. pc' \in [Proc -> Points] /\ mutex' \in SUBSET Proc
    BY <1>17, PointTypes, LockSteps DEF ClearBegin
  <2> QED
    BY <1>17, <2>1 DEF ClearBegin, TypeOK, filesVars, callVars, scanVars, loopVars
<1>18. CASE ClearOne(p)
  BY <1>18, PointTypes, ForgetTypes, SleepTypes, LockSteps
     DEF ClearOne, TypeOK, filesVars, callVars,
         scanVars, loopVars
<1>19. CASE ClearEnd(p)
  BY <1>19, PointTypes, ForgetTypes, SleepTypes, LockSteps
     DEF ClearEnd, TypeOK, filesVars, callVars,
         scanVars, loopVars
<1>20. CASE DoneRead(p)
  BY <1>20, ReadForStampTypes DEF DoneRead
<1>21. CASE DoneWrite(p)
  <2>1. (IF quiet[p] THEN "recent" ELSE Kept(p)) \in {"none", "old", "recent"}
    BY KeptType
  <2> QED
    BY <1>21, <2>1, WriteStampTypes DEF DoneWrite
<1>22. CASE Release(p)
  BY <1>22, PointTypes, ForgetTypes, SleepTypes, LockSteps
     DEF Release, TypeOK, filesVars, callVars,
         scanVars, loopVars
<1>23. CASE Check(p)
  BY <1>23, PointTypes, ForgetTypes, SleepTypes, LockSteps
     DEF Check, TypeOK, filesVars, callVars,
         scanVars, loopVars
<1>24. CASE Wake(p)
  <2>1. pc' \in [Proc -> Points]
    BY <1>24, PointTypes DEF Wake
  <2>2. slept' \in [Proc -> BOOLEAN]
    BY <1>24 DEF Wake, TypeOK
  <2> QED
    BY <1>24, <2>1, <2>2 DEF Wake, TypeOK, filesVars, callVars, scanVars
<1>25. CASE FailRead(p)
  BY <1>25, ReadForStampTypes DEF FailRead
<1>26. CASE FailWrite(p)
  BY <1>26, WriteStampTypes, KeptType DEF FailWrite
<1>27. CASE FailRelease(p)
  BY <1>27, PointTypes, ForgetTypes, SleepTypes, LockSteps
     DEF FailRelease, TypeOK, filesVars, callVars,
         scanVars, loopVars
<1> QED
  BY <1>1, <1>2, <1>3, <1>4, <1>5, <1>6, <1>7, <1>8, <1>9, <1>10, <1>11, <1>12, <1>13, <1>14, <1>15, <1>16, <1>17, <1>18, <1>19, <1>20, <1>21, <1>22, <1>23, <1>24, <1>25, <1>26, <1>27, <1>28, <1>29
     DEF Step

LEMMA Moves ==
    ASSUME NEW p \in Proc, NEW l, TypeOK, Go(p, l)
    PROVE  pc'[p] = l /\ \A q \in Proc : q # p => pc'[q] = pc[q]
  BY DEF Go, TypeOK

LEMMA OtherTypes ==
    ASSUME TypeOK, NEW p \in Proc, Edit(p) \/ Begin(p) \/ Throw(p) \/ Crash(p)
    PROVE  TypeOK'
<1> USE PointsApart
<1>1. CASE Edit(p)
  <2>1. pc' \in [Proc -> Points]
    BY <1>1, PointTypes DEF Edit
  <2>2. file[p] \in File /\ disk' = [disk EXCEPT ![file[p]] = disk[file[p]] + 1]
    BY <1>1 DEF Edit, TypeOK
  <2>3. disk' \in [File -> Nat]
    BY <2>2 DEF TypeOK
  <2> QED
    BY <1>1, <2>1, <2>3 DEF Edit, TypeOK, callVars, scanVars, loopVars
<1>2. CASE Begin(p)
  <2>1. pc' \in [Proc -> Points]
    BY <1>2, PointTypes DEF Begin
  <2> QED
    BY <1>2, <2>1 DEF Begin, TypeOK, filesVars, callVars, scanVars, loopVars
<1>3. CASE Throw(p)
  <2>1. pc' \in [Proc -> Points]
    BY <1>3, PointTypes DEF Throw
  <2>2. unstored' \in SUBSET File
    BY <1>3 DEF Throw, Cut, TypeOK
  <2> QED
    BY <1>3, <2>1, <2>2, ScannedTypes DEF Throw, TypeOK, loopVars
<1>4. CASE Crash(p)
  <2>1. pc' \in [Proc -> Points]
    BY <1>4, PointTypes DEF Crash
  <2>2. unstored' \in SUBSET File
    BY <1>4 DEF Crash, Cut, TypeOK
  <2>3. attempt' \in [Proc -> 0..MaxAttempts] /\ slept' \in [Proc -> BOOLEAN]
    BY <1>4, KindsApart DEF Crash, TypeOK
  <2> QED
    BY <1>4, <2>1, <2>2, <2>3, ForgetTypes DEF Crash, TypeOK
<1> QED
  BY <1>1, <1>2, <1>3, <1>4

LEMMA TickTypes ==
    ASSUME TypeOK, Tick
    PROVE  TypeOK'
<1>1. stamp' \in Stamp /\ prior' \in [Proc -> Stamp]
  BY StampTypes DEF Tick, TypeOK
<1>2. slept' \in [Proc -> BOOLEAN]
  <2>1. \A q \in Proc : (slept[q] \/ pc[q] = "sleep") \in BOOLEAN
    OBVIOUS
  <2> QED
    BY <2>1 DEF Tick
<1> QED
  BY <1>1, <1>2 DEF Tick, TypeOK, filesVars, scanVars

-----------------------------------------------------------------------------
(* Who is where, and who holds the locks. *)

LEMMA RolesMove ==
    ASSUME NEW p \in Proc, NEW l, TypeOK, Roles, Go(p, l),
           l \in DrainPoints => p \in Hooks,
           l \in {"idle", "event", "refresh", "refreshWrite"} => attempt'[p] = 0,
           l = "prior" => attempt'[p] < MaxAttempts,
           \A q \in Proc : q # p => attempt'[q] = attempt[q]
    PROVE  Roles'
  BY Moves DEF Roles

LEMMA PointSets ==
    /\ DrainPoints = {"event", "refresh", "refreshWrite", "prior", "empty",
                      "emptyWrite", "inFlight", "inFlightWrite", "sleep",
                      "failStamp", "failWrite"}
    /\ LeasePoints = {"inFlight", "inFlightWrite", "detect", "wipe", "analyse",
                      "store", "fill", "hash", "clear", "clearing", "done", "doneWrite",
                      "failStamp", "failWrite", "release", "failRelease"}
    /\ MutexPoints = {"refreshWrite", "emptyWrite", "inFlightWrite", "clearing",
                      "doneWrite", "failWrite"}
    /\ ScanPoints = {"inFlight", "inFlightWrite", "detect", "wipe", "analyse",
                     "store", "fill", "hash", "clear", "clearing", "done", "doneWrite"}
    /\ StampPoints = {"failStamp", "failWrite"}
  BY DEF DrainPoints, LeasePoints, MutexPoints, ScanPoints, StampPoints

LEMMA StepRoles ==
    ASSUME TypeOK, Roles, NEW p \in Proc,
           Step(p) \/ Edit(p) \/ Begin(p) \/ Throw(p) \/ Crash(p)
    PROVE  Roles'
<1> USE PointSets, KindsApart DEF TypeOK, loopVars
<1>1. CASE WriteEvent(p)
  <2>1. /\ p \in Hooks /\ 0 < MaxAttempts
        /\ attempt' = attempt /\ attempt[p] = 0
    BY <1>1 DEF WriteEvent, Roles
  <2>2. \E l \in {"refresh", "prior"} : Go(p, l)
    BY <1>1 DEF WriteEvent
  <2> QED
    BY <2>1, <2>2, RolesMove
<1>2. CASE RefreshRead(p)
  <2>1. /\ p \in Hooks /\ 0 < MaxAttempts
        /\ attempt' = attempt /\ attempt[p] = 0
    BY <1>2 DEF RefreshRead, Roles
  <2>2. \E l \in {"refreshWrite", "prior"} : Go(p, l)
    BY <1>2 DEF RefreshRead
  <2> QED
    BY <2>1, <2>2, RolesMove
<1>3. CASE RefreshWrite(p)
  <2>1. /\ p \in Hooks /\ 0 < MaxAttempts
        /\ attempt' = attempt /\ attempt[p] = 0 /\ Go(p, "prior")
    BY <1>3 DEF RefreshWrite, Roles
  <2> QED
    BY <2>1, RolesMove
<1>4. CASE ReadPrior(p)
  <2>1. p \in Hooks /\ attempt[p] < MaxAttempts
    BY <1>4 DEF ReadPrior, Roles
  <2>2. \E l \in {"sleep", "capture"} : Go(p, l)
    BY <1>4 DEF ReadPrior, Sleep
  <2>3. \A q \in Proc : q # p => attempt'[q] = attempt[q]
    BY <1>4 DEF ReadPrior
  <2> QED
    BY <2>1, <2>2, <2>3, RolesMove
<1>5. CASE CaptureList(p)
  BY <1>5, RolesMove DEF CaptureList, Roles
<1>6. CASE CaptureRead(p)
  BY <1>6, RolesMove DEF CaptureRead, Roles
<1>7. CASE EmptyRead(p)
  BY <1>7, RolesMove DEF EmptyRead, ReadForStamp, Roles
<1>8. CASE EmptyWrite(p)
  BY <1>8, RolesMove DEF EmptyWrite, WriteStamp, Sleep, Roles
<1>9. CASE TakeLease(p)
  BY <1>9, RolesMove DEF TakeLease, Roles
<1>10. CASE Busy(p)
  BY <1>10, RolesMove DEF Busy, Sleep, Roles
<1>11. CASE InFlightRead(p)
  BY <1>11, RolesMove DEF InFlightRead, ReadForStamp, Roles
<1>12. CASE InFlightWrite(p)
  BY <1>12, RolesMove DEF InFlightWrite, WriteStamp, Roles
<1>13. CASE Detect(p)
  BY <1>13, RolesMove DEF Detect, Roles
<1>14. CASE Analyse(p)
  BY <1>14, RolesMove DEF Analyse, Roles
<1>15. CASE Store(p)
  BY <1>15, RolesMove DEF Store, Roles
<1>16. CASE SaveHashes(p)
  BY <1>16, RolesMove DEF SaveHashes, Roles
<1>17. CASE ClearBegin(p)
  BY <1>17, RolesMove DEF ClearBegin, Roles
<1>18. CASE ClearOne(p)
  BY <1>18 DEF ClearOne, Roles
<1>19. CASE ClearEnd(p)
  BY <1>19, RolesMove DEF ClearEnd, Roles
<1>20. CASE DoneRead(p)
  BY <1>20, RolesMove DEF DoneRead, ReadForStamp, Roles
<1>21. CASE DoneWrite(p)
  BY <1>21, RolesMove DEF DoneWrite, WriteStamp, Roles
<1>22. CASE Release(p)
  BY <1>22, RolesMove DEF Release, Roles
<1>23. CASE Check(p)
  BY <1>23, RolesMove DEF Check, Sleep, Roles
<1>24. CASE Wake(p)
  <2>1. p \in Hooks /\ attempt' = attempt /\ attempt[p] \in 0..MaxAttempts
    BY <1>24 DEF Wake, Roles
  <2>2. CASE attempt[p] = MaxAttempts
    <3>1. Go(p, "gaveUp")
      BY <1>24, <2>2 DEF Wake
    <3> QED
      BY <2>1, <3>1, RolesMove
  <2>3. CASE attempt[p] # MaxAttempts
    <3>1. Go(p, "prior")
      BY <1>24, <2>3 DEF Wake
    <3>2. attempt[p] < MaxAttempts
      BY <2>1, <2>3, AttemptsLeft
    <3> QED
      BY <2>1, <3>1, <3>2, RolesMove
  <2> QED
    BY <2>2, <2>3
<1>25. CASE FailRead(p)
  BY <1>25, RolesMove DEF FailRead, ReadForStamp, Roles
<1>26. CASE FailWrite(p)
  BY <1>26, RolesMove DEF FailWrite, WriteStamp, Roles
<1>27. CASE FailRelease(p)
  BY <1>27, RolesMove DEF FailRelease, Roles
<1>28. CASE Edit(p)
  BY <1>28, RolesMove DEF Edit, Roles
<1>29. CASE Begin(p)
  BY <1>29, RolesMove DEF Begin, Roles
<1>30. CASE Throw(p)
  BY <1>30, RolesMove DEF Throw, Roles
<1>31. CASE Crash(p)
  <2>1. \A q \in Proc : q # p => attempt'[q] = attempt[q]
    BY <1>31 DEF Crash
  <2> QED
    BY <1>31, <2>1, RolesMove DEF Crash, Roles
<1>32. CASE Wipe(p)
  BY <1>32, RolesMove DEF Wipe, Roles
<1>33. CASE Truncate(p)
  <2>1. \E l \in {"fill", "hash"} : Go(p, l)
    BY <1>33 DEF Truncate
  <2> QED
    BY <1>33, <2>1, RolesMove DEF Truncate, Roles
<1> QED
  BY <1>1, <1>2, <1>3, <1>4, <1>5, <1>6, <1>7, <1>8, <1>9, <1>10, <1>11,
     <1>12, <1>13, <1>14, <1>15, <1>16, <1>17, <1>18, <1>19, <1>20,
     <1>21, <1>22, <1>23, <1>24, <1>25, <1>26, <1>27, <1>28, <1>29,
     <1>30, <1>31, <1>32, <1>33 DEF Step

(* p goes from one point to another, and takes or leaves the locks that the *)
(* points ask for.                                                          *)
LEMMA LocksMove ==
    ASSUME NEW p \in Proc, NEW l, TypeOK, Locks, Go(p, l),
           lease' = IF l \in LeasePoints THEN lease \cup {p} ELSE lease \ {p},
           mutex' = IF l \in MutexPoints THEN mutex \cup {p} ELSE mutex \ {p},
           l \in LeasePoints => p \in lease \/ lease = {},
           l \in MutexPoints => p \in mutex \/ mutex = {}
    PROVE  Locks'
<1>1. \A q \in Proc : q # p => pc'[q] = pc[q]
  BY Moves
<1>2. pc'[p] = l
  BY Moves
<1>3. \A q \in Proc : q \in lease' <=> pc'[q] \in LeasePoints
  BY <1>1, <1>2 DEF Locks
<1>4. \A q \in Proc : q \in mutex' <=> pc'[q] \in MutexPoints
  BY <1>1, <1>2 DEF Locks
<1>5. \A q, r \in lease' : q = r
  BY DEF Locks
<1>6. \A q, r \in mutex' : q = r
  BY DEF Locks
<1> QED
  BY <1>3, <1>4, <1>5, <1>6 DEF Locks

LEMMA StepLocks ==
    ASSUME TypeOK, Roles, Locks, NEW p \in Proc,
           Step(p) \/ Edit(p) \/ Begin(p) \/ Throw(p) \/ Crash(p)
    PROVE  Locks'
<1> USE PointSets, LockSteps, KindsApart
<1>0. /\ p \in lease <=> pc[p] \in LeasePoints
      /\ p \in mutex <=> pc[p] \in MutexPoints
      /\ \A q \in lease : p \in lease => q = p
      /\ \A q \in mutex : p \in mutex => q = p
  BY DEF Locks
<1>1. CASE WriteEvent(p)
  BY <1>1, <1>0, LocksMove DEF WriteEvent
<1>2. CASE RefreshRead(p)
  BY <1>2, <1>0, LocksMove DEF RefreshRead
<1>3. CASE RefreshWrite(p)
  BY <1>3, <1>0, LocksMove DEF RefreshWrite
<1>4. CASE ReadPrior(p)
  BY <1>4, <1>0, LocksMove DEF ReadPrior, Sleep
<1>5. CASE CaptureList(p)
  BY <1>5, <1>0, LocksMove DEF CaptureList
<1>6. CASE CaptureRead(p)
  BY <1>6, <1>0, LocksMove DEF CaptureRead
<1>7. CASE EmptyRead(p)
  BY <1>7, <1>0, LocksMove DEF EmptyRead, ReadForStamp
<1>8. CASE EmptyWrite(p)
  BY <1>8, <1>0, LocksMove DEF EmptyWrite, WriteStamp, Sleep
<1>9. CASE TakeLease(p)
  BY <1>9, <1>0, LocksMove DEF TakeLease
<1>10. CASE Busy(p)
  BY <1>10, <1>0, LocksMove DEF Busy, Sleep
<1>11. CASE InFlightRead(p)
  BY <1>11, <1>0, LocksMove DEF InFlightRead, ReadForStamp
<1>12. CASE InFlightWrite(p)
  BY <1>12, <1>0, LocksMove DEF InFlightWrite, WriteStamp
<1>13. CASE Detect(p)
  BY <1>13, <1>0, LocksMove DEF Detect
<1>14. CASE Analyse(p)
  BY <1>14, <1>0, LocksMove DEF Analyse
<1>15. CASE Store(p)
  BY <1>15, <1>0, LocksMove DEF Store
<1>16. CASE SaveHashes(p)
  BY <1>16, <1>0, LocksMove DEF SaveHashes
<1>17. CASE ClearBegin(p)
  BY <1>17, <1>0, LocksMove DEF ClearBegin
<1>18. CASE ClearOne(p)
  BY <1>18 DEF ClearOne, Locks
<1>19. CASE ClearEnd(p)
  BY <1>19, <1>0, LocksMove DEF ClearEnd
<1>20. CASE DoneRead(p)
  BY <1>20, <1>0, LocksMove DEF DoneRead, ReadForStamp
<1>21. CASE DoneWrite(p)
  BY <1>21, <1>0, LocksMove DEF DoneWrite, WriteStamp
<1>22. CASE Release(p)
  BY <1>22, <1>0, LocksMove DEF Release
<1>23. CASE Check(p)
  BY <1>23, <1>0, LocksMove DEF Check, Sleep
<1>24. CASE Wake(p)
  BY <1>24, <1>0, LocksMove DEF Wake
<1>25. CASE FailRead(p)
  BY <1>25, <1>0, LocksMove DEF FailRead, ReadForStamp
<1>26. CASE FailWrite(p)
  BY <1>26, <1>0, LocksMove DEF FailWrite, WriteStamp
<1>27. CASE FailRelease(p)
  BY <1>27, <1>0, LocksMove DEF FailRelease
<1>28. CASE Edit(p)
  BY <1>28, <1>0, LocksMove DEF Edit
<1>29. CASE Begin(p)
  BY <1>29, <1>0, LocksMove DEF Begin
<1>30. CASE Throw(p)
  BY <1>30, <1>0, LocksMove DEF Throw
<1>31. CASE Crash(p)
  BY <1>31, <1>0, LocksMove DEF Crash
<1>32. CASE Wipe(p)
  BY <1>32, <1>0, LocksMove DEF Wipe
<1>33. CASE Truncate(p)
  <2>1. \E l \in {"fill", "hash"} : Go(p, l)
    BY <1>33 DEF Truncate
  <2> QED
    BY <1>33, <2>1, <1>0, LocksMove DEF Truncate
<1> QED
  BY <1>1, <1>2, <1>3, <1>4, <1>5, <1>6, <1>7, <1>8, <1>9, <1>10, <1>11,
     <1>12, <1>13, <1>14, <1>15, <1>16, <1>17, <1>18, <1>19, <1>20,
     <1>21, <1>22, <1>23, <1>24, <1>25, <1>26, <1>27, <1>28, <1>29,
     <1>30, <1>31, <1>32, <1>33 DEF Step

-----------------------------------------------------------------------------
(* What the scans know of the files. *)

FilesInv == /\ Written /\ MarkedWasEdited /\ ScanKnows
            /\ EmptiedKnown /\ Cleared /\ Remembered

AtStore == {"analyse", "store", "fill"}
AtFiles == {"wipe", "analyse", "store", "fill", "hash", "clear", "clearing"}

(* What p does when it neither writes nor clears an event, reads or writes  *)
(* the graph or the hashes.  When it stops, what it emptied is unstored.    *)
Aside(p) ==
    /\ UNCHANGED <<disk, graph, hash, ledger, marked, file>>
    /\ unstored \subseteq unstored'
    /\ \A f \in File : f \in unstored' => Lacks(f)
    /\ \A f \in File : Emptied(p, f) => f \in unstored'
    /\ \A q \in Proc : q # p =>
         UNCHANGED <<pc[q], snap[q], walk[q], new[q]>>
    /\ pc'[p] \notin {"idle", "event"} \cup AtFiles
    /\ pc[p] \in {"event", "dead"} => pc'[p] = "dead"
    /\ snap'[p] \subseteq snap[p] \cup ledger

LEMMA ForgetsOwn ==
    ASSUME TypeOK, NEW p \in Proc, Forget(p)
    PROVE  /\ snap'[p] = {}
           /\ \A q \in Proc : q # p =>
                UNCHANGED <<snap[q], walk[q], new[q]>>
  BY DEF TypeOK, Forget, Scanned

LEMMA CutAside ==
    ASSUME TypeOK, NEW p \in Proc, Cut(p)
    PROVE  /\ unstored \subseteq unstored'
           /\ \A f \in File : f \in unstored' => Lacks(f)
           /\ \A f \in File : Emptied(p, f) => f \in unstored'
  BY DEF Cut, Lacks, Emptied

LEMMA NotEmptied ==
    ASSUME NEW p \in Proc, pc[p] \notin AtStore, UNCHANGED unstored
    PROVE  /\ unstored \subseteq unstored'
           /\ \A f \in File : f \in unstored' => Lacks(f)
           /\ \A f \in File : Emptied(p, f) => f \in unstored'
  BY DEF AtStore, Emptied, Lacks

LEMMA StepAside ==
    ASSUME TypeOK, NEW p \in Proc,
           \/ RefreshRead(p) \/ RefreshWrite(p) \/ ReadPrior(p)
           \/ CaptureList(p) \/ CaptureRead(p) \/ EmptyRead(p) \/ EmptyWrite(p)
           \/ TakeLease(p) \/ Busy(p) \/ InFlightRead(p) \/ InFlightWrite(p)
           \/ ClearEnd(p) \/ DoneRead(p) \/ DoneWrite(p) \/ Release(p)
           \/ Check(p) \/ Wake(p) \/ FailRead(p) \/ FailWrite(p)
           \/ FailRelease(p) \/ Begin(p) \/ Throw(p) \/ Crash(p)
    PROVE  Aside(p)
<1> USE DEF Aside, filesVars, callVars, scanVars, AtFiles, AtStore
<1>1. CASE RefreshRead(p)
  BY <1>1, Moves, ForgetsOwn, NotEmptied DEF RefreshRead
<1>2. CASE RefreshWrite(p)
  BY <1>2, Moves, ForgetsOwn, NotEmptied DEF RefreshWrite
<1>3. CASE ReadPrior(p)
  BY <1>3, Moves, ForgetsOwn, NotEmptied DEF ReadPrior, Sleep
<1>4. CASE CaptureList(p)
  <2>1. snap'[p] = ledger /\ \A q \in Proc : q # p => snap'[q] = snap[q]
    BY <1>4 DEF CaptureList, TypeOK
  <2> QED
    BY <1>4, <2>1, Moves, NotEmptied DEF CaptureList
<1>5. CASE CaptureRead(p)
  <2>1. /\ snap'[p] = snap[p] \cap ledger
        /\ \A q \in Proc : q # p => snap'[q] = snap[q]
    BY <1>5 DEF CaptureRead, TypeOK
  <2>2. \E l \in {"empty", "lease"} : Go(p, l)
    BY <1>5 DEF CaptureRead
  <2>3. pc'[p] \in {"empty", "lease"} /\ \A q \in Proc : q # p => pc'[q] = pc[q]
    BY <2>2, Moves
  <2> QED
    BY <1>5, <2>1, <2>3, NotEmptied DEF CaptureRead
<1>6. CASE EmptyRead(p)
  BY <1>6, Moves, ForgetsOwn, NotEmptied DEF EmptyRead, ReadForStamp
<1>7. CASE EmptyWrite(p)
  BY <1>7, Moves, ForgetsOwn, NotEmptied DEF EmptyWrite, WriteStamp, Sleep
<1>8. CASE TakeLease(p)
  BY <1>8, Moves, ForgetsOwn, NotEmptied DEF TakeLease
<1>9. CASE Busy(p)
  BY <1>9, Moves, ForgetsOwn, NotEmptied DEF Busy, Sleep
<1>10. CASE InFlightRead(p)
  BY <1>10, Moves, ForgetsOwn, NotEmptied DEF InFlightRead, ReadForStamp
<1>11. CASE InFlightWrite(p)
  BY <1>11, Moves, ForgetsOwn, NotEmptied DEF InFlightWrite, WriteStamp
<1>12. CASE ClearEnd(p)
  BY <1>12, Moves, ForgetsOwn, NotEmptied DEF ClearEnd
<1>13. CASE DoneRead(p)
  BY <1>13, Moves, ForgetsOwn, NotEmptied DEF DoneRead, ReadForStamp
<1>14. CASE DoneWrite(p)
  BY <1>14, Moves, ForgetsOwn, NotEmptied DEF DoneWrite, WriteStamp
<1>15. CASE Release(p)
  BY <1>15, Moves, ForgetsOwn, NotEmptied DEF Release
<1>16. CASE Check(p)
  BY <1>16, Moves, ForgetsOwn, NotEmptied DEF Check, Sleep
<1>17. CASE Wake(p)
  BY <1>17, Moves, ForgetsOwn, NotEmptied DEF Wake
<1>18. CASE FailRead(p)
  BY <1>18, Moves, ForgetsOwn, NotEmptied DEF FailRead, ReadForStamp
<1>19. CASE FailWrite(p)
  BY <1>19, Moves, ForgetsOwn, NotEmptied DEF FailWrite, WriteStamp
<1>20. CASE FailRelease(p)
  BY <1>20, Moves, ForgetsOwn, NotEmptied DEF FailRelease
<1>21. CASE Begin(p)
  BY <1>21, Moves, ForgetsOwn, NotEmptied DEF Begin
<1>22. CASE Throw(p)
  <2>1. \A q \in Proc : q # p => walk'[q] = walk[q] /\ new'[q] = new[q]
    BY <1>22 DEF Throw, Scanned, TypeOK
  <2>2. \E l \in {"failStamp", "failRelease", "failed"} : Go(p, l)
    BY <1>22 DEF Throw
  <2>3. /\ pc'[p] \in {"failStamp", "failRelease", "failed"}
        /\ \A q \in Proc : q # p => pc'[q] = pc[q]
    BY <2>2, Moves
  <2>4. pc[p] \notin {"event", "dead"}
    BY <1>22 DEF Throw, ScanPoints, StampPoints
  <2>5. UNCHANGED <<disk, graph, hash, ledger, marked, file, snap>> /\ Cut(p)
    BY <1>22 DEF Throw
  <2> QED
    BY <2>1, <2>3, <2>4, <2>5, CutAside
<1>23. CASE Crash(p)
  <2>1. UNCHANGED <<disk, graph, hash, ledger, marked, file>> /\ Cut(p)
        /\ Forget(p) /\ Go(p, "dead")
    BY <1>23 DEF Crash
  <2> QED
    BY <2>1, Moves, ForgetsOwn, CutAside
<1> QED
  BY <1>1, <1>2, <1>3, <1>4, <1>5, <1>6, <1>7, <1>8, <1>9, <1>10, <1>11,
     <1>12, <1>13, <1>14, <1>15, <1>16, <1>17, <1>18, <1>19, <1>20,
     <1>21, <1>22, <1>23

LEMMA EventTypes ==
    ASSUME TypeOK
    PROVE  /\ \A e \in ledger : e.by \in Proc /\ e.file \in File
           /\ \A q \in Proc : \A e \in snap[q] : e.by \in Proc /\ e.file \in File
  BY KindsApart DEF TypeOK, Event

LEMMA AsideKeeps ==
    ASSUME TypeOK, FilesInv, NEW p \in Proc, Aside(p)
    PROVE  FilesInv'
<1>1. Written'
  <2>1. ASSUME NEW h \in Proc, pc[h] \notin {"idle", "event"}
        PROVE  pc'[h] \notin {"idle", "event"}
    BY <2>1 DEF Aside
  <2>2. \A e \in ledger' : pc'[e.by] \notin {"idle", "event"}
    BY <2>1, EventTypes DEF FilesInv, Written, Aside
  <2>3. ASSUME NEW q \in Proc, NEW e \in snap'[q]
        PROVE  pc'[e.by] \notin {"idle", "event"}
    <3>1. e \in ledger \/ e \in snap[q]
      BY <2>3 DEF Aside
    <3> QED
      BY <2>1, <3>1, EventTypes DEF FilesInv, Written
  <2> QED
    BY <2>2, <2>3 DEF Written
<1>2. MarkedWasEdited'
  BY DEF FilesInv, MarkedWasEdited, Aside
<1>3. \A f \in File : Unmarked(f) => Unmarked(f)'
  <2> SUFFICES ASSUME NEW f \in File, Unmarked(f)
               PROVE  Unmarked(f)'
    OBVIOUS
  <2>1. PICK h \in Hooks : file[h] = f /\ pc[h] \in {"event", "dead"}
    BY DEF Unmarked
  <2>2. pc'[h] \in {"event", "dead"} /\ file'[h] = f
    BY <2>1, KindsApart DEF Aside
  <2> QED
    BY <2>2 DEF Unmarked
<1>4. \A f \in File : Lacks(f) => Lacks(f)'
  BY DEF Lacks, Aside
<1>5. ScanKnows'
  <2> SUFFICES ASSUME NEW q \in Proc, pc'[q] \in AtFiles
               PROVE  Walks(q)' /\ Reads(q)' /\ Stores(q)'
    BY DEF ScanKnows, Walks, Reads, Stores, AtFiles
  <2>1. q # p /\ pc'[q] = pc[q] /\ snap'[q] = snap[q] /\ walk'[q] = walk[q]
        /\ new'[q] = new[q]
    BY DEF Aside
  <2>2. \A f \in File : /\ Late(q, f)' <=> Late(q, f)
                        /\ Owed(q, f) => Owed(q, f)'
    BY <1>3, <2>1 DEF Late, Owed, Aside
  <2>3. walk[q] \subseteq File /\ Dirty(snap[q]) \subseteq File
        /\ Dirty(snap[q])' = Dirty(snap[q])
    BY <2>1 DEF TypeOK, Dirty, Event
  <2>4. Walks(q) /\ Reads(q) /\ Stores(q)
    BY DEF FilesInv, ScanKnows
  <2>5. Walks(q)'
    BY <1>4, <2>1, <2>2, <2>3, <2>4 DEF Walks, Aside
  <2>6. Reads(q)'
    BY <2>1, <2>2, <2>3, <2>4 DEF Reads, Fresh, Aside
  <2>7. Stores(q)'
    BY <1>4, <2>1, <2>2, <2>3, <2>4 DEF Stores, Aside
  <2> QED
    BY <2>5, <2>6, <2>7
<1>6. EmptiedKnown'
  <2> SUFFICES ASSUME NEW f \in File, graph'[f] = 0
               PROVE  Unstored(f)'
    BY DEF EmptiedKnown
  <2>1. Unstored(f)
    BY DEF FilesInv, EmptiedKnown, Aside
  <2>2. CASE f \in unstored'
    BY <2>2 DEF Unstored
  <2>3. CASE f \notin unstored'
    <3>1. PICK q \in Proc : Emptied(q, f)
      BY <2>1, <2>3 DEF Unstored, Aside
    <3>2. q # p
      BY <2>3, <3>1 DEF Aside
    <3>3. Emptied(q, f)'
      BY <3>1, <3>2 DEF Aside, Emptied
    <3> QED
      BY <3>3 DEF Unstored
  <2> QED
    BY <2>2, <2>3
<1>7. Cleared'
  BY <1>4 DEF FilesInv, Cleared, Aside, Dirty
<1>8. Remembered'
  BY <1>3, <1>4 DEF FilesInv, Remembered, Aside, Dirty
<1> QED
  BY <1>1, <1>2, <1>5, <1>6, <1>7, <1>8 DEF FilesInv

(* Only the holder of the lease is at its scan. *)
LEMMA Alone ==
    ASSUME Locks, NEW p \in Proc, pc[p] \in LeasePoints
    PROVE  \A q \in Proc : q # p => pc[q] \notin AtFiles
  BY PointSets DEF Locks, AtFiles

(* So what the others know need not be looked at when it goes on. *)
LEMMA OnlyTheScan ==
    ASSUME TypeOK, Locks, NEW p \in Proc, pc[p] \in LeasePoints,
           \A q \in Proc : q # p => pc'[q] = pc[q],
           Walks(p)', Reads(p)', Stores(p)'
    PROVE  ScanKnows'
  BY Alone DEF ScanKnows, Walks, Reads, Stores, AtFiles

LEMMA StillUnmarked ==
    ASSUME NEW p \in Proc, pc[p] \notin {"event", "dead"}, UNCHANGED file,
           \A q \in Proc : q # p => pc'[q] = pc[q]
    PROVE  \A f \in File : Unmarked(f) => Unmarked(f)'
  BY KindsApart DEF Unmarked

(* Written is kept when p goes on and captures nothing.                     *)
LEMMA StillWritten ==
    ASSUME TypeOK, Written, NEW p \in Proc, pc'[p] \notin {"idle", "event"},
           \A q \in Proc : q # p => pc'[q] = pc[q],
           ledger' \subseteq ledger, UNCHANGED snap
    PROVE  Written'
  BY EventTypes DEF Written

(* And EmptiedKnown when p has not emptied the store.                       *)
LEMMA StillEmptied ==
    ASSUME EmptiedKnown, NEW p \in Proc, pc[p] \notin AtStore,
           \A q \in Proc : q # p => pc'[q] = pc[q] /\ walk'[q] = walk[q],
           UNCHANGED <<graph, unstored>>
    PROVE  EmptiedKnown'
<1> SUFFICES ASSUME NEW f \in File, graph[f] = 0, f \notin unstored
             PROVE  \E q \in Proc : Emptied(q, f)'
  BY DEF EmptiedKnown, Unstored
<1>1. PICK q \in Proc : Emptied(q, f)
  BY DEF EmptiedKnown, Unstored
<1>2. q # p
  BY <1>1 DEF Emptied, AtStore
<1> QED
  BY <1>1, <1>2 DEF Emptied

LEMMA EditKeeps ==
    ASSUME TypeOK, FilesInv, NEW p \in Proc, Edit(p)
    PROVE  FilesInv'
<1>1. /\ pc[p] = "idle" /\ p \in Hooks /\ pc'[p] = "event"
      /\ \A q \in Proc : q # p => pc'[q] = pc[q]
      /\ UNCHANGED <<graph, hash, unstored, ledger, marked, file, snap, walk, new>>
  BY Moves DEF Edit, callVars, scanVars
<1>2. \A f \in File : \/ disk'[f] = disk[f] /\ f # file[p]
                      \/ disk'[f] = disk[f] + 1 /\ f = file[p] /\ Unmarked(f)'
  BY <1>1 DEF Edit, TypeOK, Unmarked
<1>3. \A f \in File : /\ Unmarked(f) => Unmarked(f)'
                      /\ Lacks(f) => Lacks(f)'
                      /\ \A q \in Proc : /\ Late(q, f)' <=> Late(q, f)
                                         /\ Owed(q, f) => Owed(q, f)'
                                         /\ Unmarked(f)' => Owed(q, f)'
  BY <1>1, KindsApart DEF Unmarked, Late, Owed, Lacks
<1>4. Written'
  <2>1. ASSUME NEW e, e.by \in Proc, pc[e.by] \notin {"idle", "event"}
        PROVE  pc'[e.by] \notin {"idle", "event"}
    BY <1>1, <2>1
  <2> QED
    BY <1>1, <2>1, EventTypes DEF FilesInv, Written
<1>5. MarkedWasEdited'
  <2>1. \A f \in File : disk[f] \in Nat /\ marked[f] \in Nat /\ marked[f] <= disk[f]
    BY DEF FilesInv, MarkedWasEdited, TypeOK
  <2>2. \A f \in File : marked[f] <= disk'[f]
    BY <1>2, <2>1
  <2> QED
    BY <1>1, <2>2 DEF MarkedWasEdited
<1>6. ASSUME NEW q \in Proc
      PROVE  Walks(q)' /\ Reads(q)' /\ Stores(q)'
  <2>1. q # p \/ pc'[q] = "event"
    BY <1>1
  <2>2. Walks(q) /\ Reads(q) /\ Stores(q) /\ walk[q] \subseteq File
    BY DEF FilesInv, ScanKnows, TypeOK
  <2>3. Dirty(snap[q])' = Dirty(snap[q])
    BY <1>1 DEF Dirty
  <2>4. Walks(q)'
    BY <1>1, <1>2, <1>3, <2>1, <2>2, <2>3 DEF Walks
  <2>5. Reads(q)'
    BY <1>1, <1>2, <1>3, <2>1, <2>2 DEF Reads, Fresh
  <2>6. Stores(q)'
    BY <1>1, <1>2, <1>3, <2>1, <2>2, <2>3 DEF Stores
  <2> QED
    BY <2>4, <2>5, <2>6
<1>7. EmptiedKnown'
  BY <1>1, StillEmptied DEF FilesInv, AtStore
<1>8. Cleared'
  BY <1>1, <1>3 DEF FilesInv, Cleared, Dirty
<1>9. Remembered'
  BY <1>1, <1>2, <1>3 DEF FilesInv, Remembered, Dirty
<1> QED
  BY <1>4, <1>5, <1>6, <1>7, <1>8, <1>9 DEF FilesInv, ScanKnows

LEMMA WriteEventKeeps ==
    ASSUME TypeOK, FilesInv, Roles, NEW p \in Proc, WriteEvent(p)
    PROVE  FilesInv'
<1> DEFINE own == [by |-> p, file |-> file[p]]
<1>1. /\ pc[p] = "event" /\ p \in Hooks /\ pc'[p] \in {"prior", "refresh"}
      /\ \A q \in Proc : q # p => pc'[q] = pc[q]
      /\ UNCHANGED <<disk, graph, hash, unstored, file, snap, walk, new>>
      /\ ledger' = ledger \cup {own} /\ own.by = p /\ own.file = file[p]
  <2>1. \E l \in {"prior", "refresh"} : Go(p, l)
    BY DEF WriteEvent
  <2>2. p \in Hooks
    BY PointSets DEF WriteEvent, Roles
  <2> QED
    BY <2>1, <2>2, Moves DEF WriteEvent, filesVars, callVars, scanVars
<1> HIDE DEF own
<1>2. \A f \in File : \/ marked'[f] = marked[f] /\ f # file[p]
                      \/ marked'[f] = disk[f] /\ f = file[p]
  BY <1>1 DEF WriteEvent, TypeOK
<1>3. \A q \in Proc : own \notin snap[q]
  BY <1>1 DEF FilesInv, Written
<1>4. \A f \in File, q \in Proc :
         /\ Late(q, f) => Late(q, f)'
         /\ f = file[p] => Late(q, f)'
         /\ Owed(q, f) => Owed(q, f)'
  <2> SUFFICES ASSUME NEW f \in File, NEW q \in Proc
               PROVE  /\ Late(q, f) => Late(q, f)'
                      /\ f = file[p] => Late(q, f)'
                      /\ Unmarked(f) => Late(q, f)' \/ Unmarked(f)'
    BY DEF Owed
  <2>1. Late(q, f) => Late(q, f)'
    BY <1>1 DEF Late
  <2>2. f = file[p] => Late(q, f)'
    BY <1>1, <1>3 DEF Late
  <2>3. Unmarked(f) => f = file[p] \/ Unmarked(f)'
    BY <1>1, KindsApart DEF Unmarked
  <2> QED
    BY <2>1, <2>2, <2>3
<1>5. Written'
  <2>1. ASSUME NEW e, e.by \in Proc, pc[e.by] \notin {"idle", "event"} \/ e.by = p
        PROVE  pc'[e.by] \notin {"idle", "event"}
    BY <1>1, <2>1
  <2>2. \A e \in ledger' : pc'[e.by] \notin {"idle", "event"}
    BY <1>1, <2>1, EventTypes DEF FilesInv, Written
  <2>3. \A q \in Proc : \A e \in snap'[q] : pc'[e.by] \notin {"idle", "event"}
    BY <1>1, <2>1, EventTypes DEF FilesInv, Written
  <2> QED
    BY <2>2, <2>3 DEF Written
<1>6. MarkedWasEdited'
  BY <1>1, <1>2 DEF FilesInv, MarkedWasEdited, TypeOK
<1>7. \A f \in File : Lacks(f) => Lacks(f)'
  BY <1>1 DEF Lacks
<1>8. ASSUME NEW q \in Proc
      PROVE  Walks(q)' /\ Reads(q)' /\ Stores(q)'
  <2>1. q # p \/ pc'[q] \in {"prior", "refresh"}
    BY <1>1
  <2>2. Walks(q) /\ Reads(q) /\ Stores(q) /\ walk[q] \subseteq File
    BY DEF FilesInv, ScanKnows, TypeOK
  <2>3. Dirty(snap[q])' = Dirty(snap[q])
    BY <1>1 DEF Dirty
  <2>4. Walks(q)'
    BY <1>1, <1>4, <1>7, <2>1, <2>2, <2>3 DEF Walks
  <2>5. Reads(q)'
    BY <1>1, <1>2, <1>4, <2>1, <2>2 DEF Reads, Fresh
  <2>6. Stores(q)'
    BY <1>1, <1>2, <1>4, <1>7, <2>1, <2>2, <2>3 DEF Stores
  <2> QED
    BY <2>4, <2>5, <2>6
<1>9. Dirty(ledger)' = Dirty(ledger) \cup {file[p]}
  BY <1>1 DEF Dirty
<1>10. EmptiedKnown'
  BY <1>1, StillEmptied DEF FilesInv, AtStore
<1>11. Cleared'
  BY <1>1, <1>2, <1>7, <1>9 DEF FilesInv, Cleared
<1>12. Remembered'
  <2>1. \A f \in File : Unmarked(f) => f = file[p] \/ Unmarked(f)'
    BY <1>1, KindsApart DEF Unmarked
  <2> QED
    BY <1>1, <1>7, <1>9, <2>1 DEF FilesInv, Remembered
<1> QED
  BY <1>5, <1>6, <1>8, <1>10, <1>11, <1>12 DEF FilesInv, ScanKnows

(* What holds of the files when p goes on with its scan, and leaves them,   *)
(* the graph and the events as they are.                                    *)
LEMMA ScanGoesOn ==
    ASSUME TypeOK, FilesInv, Locks, NEW p \in Proc, pc[p] \in LeasePoints,
           \A q \in Proc : q # p => pc'[q] = pc[q],
           pc[p] \notin {"event", "dead"}, pc'[p] \notin {"idle", "event"},
           UNCHANGED <<disk, graph, unstored, ledger, marked, file, snap>>,
           Walks(p)', Reads(p)', Stores(p)', EmptiedKnown', Remembered'
    PROVE  FilesInv'
<1>1. ScanKnows'
  BY OnlyTheScan
<1>2. Written' /\ MarkedWasEdited'
  BY StillWritten DEF FilesInv, MarkedWasEdited
<1>3. Cleared'
  BY DEF FilesInv, Cleared, Lacks, Dirty
<1> QED
  BY <1>1, <1>2, <1>3 DEF FilesInv

LEMMA StillRemembered ==
    ASSUME Remembered, NEW p \in Proc, pc[p] \notin {"event", "dead"},
           \A q \in Proc : q # p => pc'[q] = pc[q],
           UNCHANGED <<disk, graph, hash, unstored, ledger, file>>
    PROVE  Remembered'
<1>1. \A f \in File : Unmarked(f) => Unmarked(f)'
  BY StillUnmarked
<1> QED
  BY <1>1 DEF Remembered, Lacks, Dirty

LEMMA DetectKeeps ==
    ASSUME TypeOK, FilesInv, Locks, NEW p \in Proc, Detect(p)
    PROVE  FilesInv'
<1> DEFINE changed == {f \in File : disk[f] # hash[f]}
<1>1. PICK w \in {changed \cup Dirty(snap[p]), File} :
         /\ walk' = [walk EXCEPT ![p] = w]
         /\ \/ Go(p, IF w = {} THEN "hash" ELSE "analyse")
            \/ w = File /\ Go(p, "wipe")
  BY DEF Detect
<1>2. /\ pc[p] = "detect" /\ pc'[p] \in {"hash", "analyse", "wipe"}
      /\ pc'[p] = "hash" => w = {}
      /\ pc'[p] = "wipe" => w = File
      /\ \A q \in Proc : q # p => pc'[q] = pc[q]
      /\ UNCHANGED <<disk, graph, hash, unstored, ledger, marked, file, snap, new>>
  <2>1. \E l \in {"hash", "analyse", "wipe"} :
          /\ Go(p, l)
          /\ l = "hash" => w = {}
          /\ l = "wipe" => w = File
    BY <1>1
  <2> QED
    BY <2>1, Moves DEF Detect, filesVars
<1>3. w \in SUBSET File /\ Dirty(snap[p]) \subseteq w /\ changed \subseteq w
  BY EventTypes DEF Dirty
<1>4. walk'[p] = w /\ \A q \in Proc : q # p => walk'[q] = walk[q]
  BY <1>1 DEF TypeOK
<1>5. \A f \in File : Unmarked(f) => Unmarked(f)'
  BY <1>2, StillUnmarked
<1>6. \A f \in File : Lacks(f) => Lacks(f)'
  BY <1>2 DEF Lacks
<1>7. \A f \in File \ w : graph[f] # disk[f] => Owed(p, f)' \/ Lacks(f)'
  <2> SUFFICES ASSUME NEW f \in File \ w, graph[f] # disk[f]
               PROVE  Owed(p, f)' \/ Lacks(f)'
    OBVIOUS
  <2>1. f \in Dirty(ledger) \/ Unmarked(f) \/ Lacks(f)
    BY <1>3 DEF FilesInv, Remembered
  <2>2. f \notin Dirty(snap[p])
    BY <1>3
  <2>3. f \in Dirty(ledger) => Late(p, f)'
    BY <1>2, <2>2 DEF Dirty, Late
  <2> QED
    BY <1>5, <1>6, <2>1, <2>3 DEF Owed
<1>8. Dirty(snap[p])' = Dirty(snap[p])
  BY <1>2 DEF Dirty
<1>9. Walks(p)' /\ Reads(p)'
  BY <1>2, <1>3, <1>4, <1>7, <1>8 DEF Walks, Reads
<1>10. Stores(p)'
  BY <1>2, <1>3, <1>7, <1>8 DEF Stores
<1>11. EmptiedKnown'
  BY <1>2, <1>4, StillEmptied DEF FilesInv, AtStore
<1>12. Remembered'
  BY <1>2, StillRemembered DEF FilesInv
<1> QED
  BY <1>2, <1>9, <1>10, <1>11, <1>12, ScanGoesOn, PointSets

(* What holds of the files when p empties the store, or writes it, or fails *)
(* to.                                                                      *)
LEMMA ScanWrites ==
    ASSUME TypeOK, FilesInv, Locks, NEW p \in Proc, pc[p] \in LeasePoints,
           \A q \in Proc : q # p => pc'[q] = pc[q],
           pc[p] \notin {"event", "dead"}, pc'[p] \notin {"idle", "event"},
           UNCHANGED <<disk, hash, ledger, marked, file, snap>>,
           Walks(p)', Reads(p)', Stores(p)', EmptiedKnown',
           \A f \in File : \/ graph'[f] = graph[f] /\ (Lacks(f) => Lacks(f)')
                           \/ Lacks(f)'
                           \/ Fresh(p, f, graph'[f])
    PROVE  FilesInv'
<1>1. ScanKnows'
  BY OnlyTheScan
<1>2. Written' /\ MarkedWasEdited'
  BY StillWritten DEF FilesInv, MarkedWasEdited
<1>3. \A f \in File : Unmarked(f) => Unmarked(f)'
  BY StillUnmarked
<1>4. \A f \in File : Late(p, f) => f \in Dirty(ledger)
  BY DEF Late, Dirty
<1>5. Dirty(ledger)' = Dirty(ledger)
  BY DEF Dirty
<1>6. Cleared'
  <2> SUFFICES ASSUME NEW f \in File, f \notin Dirty(ledger)
               PROVE  graph'[f] >= marked[f] \/ Lacks(f)'
    BY <1>5 DEF Cleared
  <2>1. CASE graph'[f] = graph[f] /\ (Lacks(f) => Lacks(f)')
    BY <2>1 DEF FilesInv, Cleared
  <2>2. CASE Fresh(p, f, graph'[f])
    BY <1>4, <2>2 DEF Fresh
  <2> QED
    BY <2>1, <2>2
<1>7. Remembered'
  <2> SUFFICES ASSUME NEW f \in File, graph'[f] # disk[f], hash[f] = disk[f]
               PROVE  f \in Dirty(ledger) \/ Unmarked(f)' \/ Lacks(f)'
    BY <1>5 DEF Remembered
  <2>1. CASE graph'[f] = graph[f] /\ (Lacks(f) => Lacks(f)')
    BY <1>3, <2>1 DEF FilesInv, Remembered
  <2>2. CASE Fresh(p, f, graph'[f])
    BY <1>3, <1>4, <2>2 DEF Fresh, Owed
  <2> QED
    BY <2>1, <2>2
<1> QED
  BY <1>1, <1>2, <1>6, <1>7 DEF FilesInv

LEMMA WipeKeeps ==
    ASSUME TypeOK, FilesInv, Locks, NEW p \in Proc, Wipe(p)
    PROVE  FilesInv'
<1>1. /\ pc[p] = "wipe" /\ pc'[p] = "analyse"
      /\ \A q \in Proc : q # p => pc'[q] = pc[q]
      /\ UNCHANGED <<disk, hash, unstored, ledger, marked, file, snap, walk, new>>
  BY Moves DEF Wipe, callVars, scanVars
<1>2. walk[p] = File /\ Dirty(snap[p]) \subseteq walk[p]
  BY <1>1 DEF FilesInv, ScanKnows, Walks
<1>3. Dirty(snap[p])' = Dirty(snap[p])
  BY <1>1 DEF Dirty
<1>4. Walks(p)' /\ Reads(p)' /\ Stores(p)'
  BY <1>1, <1>2, <1>3 DEF Walks, Reads, Stores
<1>5. CASE graph' = Nowhere
  <2>1. \A f \in File : graph'[f] = 0 /\ Lacks(f)' /\ Emptied(p, f)'
    BY <1>1, <1>2, <1>5 DEF Nowhere, Lacks, Emptied
  <2>2. EmptiedKnown'
    BY <2>1 DEF EmptiedKnown, Unstored
  <2> QED
    BY <1>1, <1>4, <2>1, <2>2, ScanWrites, PointSets
<1>6. CASE graph' = graph
  <2>1. EmptiedKnown'
    BY <1>1, <1>6, StillEmptied DEF FilesInv, AtStore
  <2>2. Remembered'
    BY <1>1, <1>6, StillRemembered DEF FilesInv
  <2> QED
    BY <1>1, <1>4, <1>6, <2>1, <2>2, ScanGoesOn, PointSets
<1> QED
  BY <1>5, <1>6 DEF Wipe

LEMMA AnalyseKeeps ==
    ASSUME TypeOK, FilesInv, Locks, NEW p \in Proc, Analyse(p)
    PROVE  FilesInv'
<1>1. /\ pc[p] = "analyse" /\ pc'[p] = "store"
      /\ \A q \in Proc : q # p => pc'[q] = pc[q]
      /\ UNCHANGED <<disk, graph, hash, unstored, ledger, marked, file, snap, walk>>
  BY Moves DEF Analyse, filesVars
<1>2. \A f \in File : \/ new'[p][f] = 0
                      \/ f \in walk[p] /\ new'[p][f] = disk[f]
                      \/ f \notin walk[p] /\ new'[p][f] = graph[f]
  <2>1. PICK unread \in SUBSET walk[p] :
          new' = [new EXCEPT ![p] =
                    [f \in File |-> IF f \in unread THEN 0
                                   ELSE IF f \in walk[p] THEN disk[f]
                                   ELSE graph[f]]]
    BY DEF Analyse
  <2>2. new'[p] = [f \in File |-> IF f \in unread THEN 0
                                 ELSE IF f \in walk[p] THEN disk[f]
                                 ELSE graph[f]]
    BY <2>1 DEF TypeOK
  <2> QED
    BY <2>2
<1>3. \A f \in File : Unmarked(f) => Unmarked(f)'
  BY <1>1, StillUnmarked
<1>4. \A f \in File : /\ Owed(p, f) => Owed(p, f)'
                      /\ Late(p, f) => Late(p, f)'
                      /\ Lacks(f) => Lacks(f)'
  BY <1>1, <1>3 DEF Owed, Late, Lacks
<1>5. walk[p] \subseteq File /\ Walks(p) /\ Dirty(snap[p])' = Dirty(snap[p])
  BY <1>1 DEF FilesInv, ScanKnows, TypeOK, Dirty
<1>6. Walks(p)' /\ Stores(p)'
  BY <1>1, <1>4, <1>5 DEF Walks, Stores
<1>7. \A f \in File : disk[f] >= marked[f]
  BY DEF FilesInv, MarkedWasEdited, TypeOK
<1>8. Reads(p)'
  <2> SUFFICES ASSUME NEW f \in File, new'[p][f] # 0,
                      ~(f \notin walk[p] /\ f \in unstored)
               PROVE  Fresh(p, f, new[p][f])'
    BY <1>1 DEF Reads
  <2>1. CASE f \in walk[p] /\ new'[p][f] = disk[f]
    BY <1>1, <1>7, <2>1 DEF Fresh
  <2>2. CASE f \notin walk[p] /\ new'[p][f] = graph[f]
    <3>1. ~Lacks(f)
      BY <2>2 DEF Lacks
    <3>2. graph[f] # disk[f] => Owed(p, f)
      BY <1>1, <1>5, <2>2, <3>1 DEF Walks
    <3>3. f \notin Dirty(snap[p])
      BY <1>1, <1>5, <2>2 DEF Walks
    <3>4. f \in Dirty(ledger) => Late(p, f)
      BY <3>3 DEF Dirty, Late
    <3>5. graph[f] >= marked[f] \/ Late(p, f)
      BY <3>1, <3>4 DEF FilesInv, Cleared
    <3> QED
      BY <1>1, <1>4, <2>2, <3>2, <3>5 DEF Fresh
  <2> QED
    BY <1>2, <2>1, <2>2
<1>9. EmptiedKnown'
  <2>1. \A f \in File : \A q \in Proc : Emptied(q, f) => Emptied(q, f)'
    BY <1>1 DEF Emptied
  <2> QED
    BY <1>1, <2>1 DEF FilesInv, EmptiedKnown, Unstored
<1>10. Remembered'
  BY <1>1, StillRemembered DEF FilesInv
<1> QED
  BY <1>1, <1>6, <1>8, <1>9, <1>10, ScanGoesOn, PointSets

(* The store is emptied, or cannot be opened.                               *)
LEMMA TruncateKeeps ==
    ASSUME TypeOK, FilesInv, Locks, NEW p \in Proc, Truncate(p)
    PROVE  FilesInv'
<1>1. \E l \in {"fill", "hash"} : Go(p, l)
  BY DEF Truncate
<1>2. /\ pc[p] = "store" /\ pc'[p] \in {"fill", "hash"}
      /\ \A q \in Proc : q # p => pc'[q] = pc[q]
      /\ UNCHANGED <<disk, hash, ledger, marked, file, snap>>
  BY <1>1, Moves DEF Truncate
<1>3. Walks(p) /\ Reads(p) /\ walk[p] \subseteq File /\ Dirty(snap[p])' = Dirty(snap[p])
  BY <1>2 DEF FilesInv, ScanKnows, TypeOK, Dirty
<1>4. \A f \in File : Unmarked(f) => Unmarked(f)'
  BY <1>2, StillUnmarked
<1>5. \A f \in File : /\ Owed(p, f) => Owed(p, f)'
                      /\ Late(p, f) => Late(p, f)'
  BY <1>2, <1>4 DEF Owed, Late
<1>6. CASE Go(p, "fill") /\ graph' = Nowhere /\ UNCHANGED <<unstored, scanVars>>
  <2>1. pc'[p] = "fill" /\ UNCHANGED <<unstored, walk, new>>
    BY <1>6, Moves DEF scanVars
  <2>2. \A f \in File : graph'[f] = 0 /\ Lacks(f)' /\ Emptied(p, f)'
    BY <1>6, <2>1 DEF Nowhere, Lacks, Emptied
  <2>3. EmptiedKnown'
    BY <2>2 DEF EmptiedKnown, Unstored
  <2>4. Walks(p)' /\ Stores(p)'
    BY <1>2, <1>3, <2>1 DEF Walks, Stores
  <2>5. Reads(p)'
    BY <1>2, <1>3, <1>5, <2>1 DEF Reads, Fresh
  <2> QED
    BY <1>2, <2>2, <2>3, <2>4, <2>5, ScanWrites, PointSets
<1>7. CASE /\ Go(p, "hash") /\ Scanned(p)
           /\ unstored' = unstored \cup walk[p] /\ UNCHANGED graph
  <2>1. pc'[p] = "hash" /\ \A q \in Proc : q # p => walk'[q] = walk[q]
    BY <1>7, Moves DEF Scanned, TypeOK
  <2>2. \A f \in File : Lacks(f) \/ f \in walk[p] => Lacks(f)'
    BY <1>7 DEF Lacks
  <2>3. EmptiedKnown'
    <3> SUFFICES ASSUME NEW f \in File, graph[f] = 0, f \notin unstored'
                 PROVE  \E q \in Proc : Emptied(q, f)'
      BY <1>7 DEF EmptiedKnown, Unstored
    <3>1. PICK q \in Proc : Emptied(q, f)
      BY <1>7 DEF FilesInv, EmptiedKnown, Unstored
    <3>2. q # p
      BY <1>2, <1>7, <3>1 DEF Emptied
    <3> QED
      BY <1>2, <1>7, <2>1, <3>1, <3>2 DEF Emptied
  <2>4. Walks(p)' /\ Reads(p)'
    BY <2>1 DEF Walks, Reads
  <2>5. Stores(p)'
    BY <1>2, <1>3, <1>5, <1>7, <2>2 DEF Stores, Walks
  <2> QED
    BY <1>2, <1>7, <2>2, <2>3, <2>4, <2>5, ScanWrites, PointSets
<1> QED
  BY <1>6, <1>7 DEF Truncate

(* It is filled, or not.                                                    *)
LEMMA StoreKeeps ==
    ASSUME TypeOK, FilesInv, Locks, NEW p \in Proc, Store(p)
    PROVE  FilesInv'
<1>1. /\ pc[p] = "fill" /\ pc'[p] = "hash"
      /\ \A q \in Proc : q # p => pc'[q] = pc[q]
      /\ UNCHANGED <<disk, hash, ledger, marked, file, snap>>
  BY Moves DEF Store
<1>2. Walks(p) /\ Reads(p) /\ walk[p] \subseteq File /\ Dirty(snap[p])' = Dirty(snap[p])
  BY <1>1 DEF FilesInv, ScanKnows, TypeOK, Dirty
<1>3. \A f \in File : Unmarked(f) => Unmarked(f)'
  BY <1>1, StillUnmarked
<1>4. \A f \in File : /\ Owed(p, f) => Owed(p, f)'
                      /\ Late(p, f) => Late(p, f)'
  BY <1>1, <1>3 DEF Owed, Late
<1>5. Walks(p)' /\ Reads(p)'
  BY <1>1 DEF Walks, Reads
<1>6. CASE /\ graph' = new[p]
           /\ unstored' = (unstored \ walk[p]) \cup {f \in File : new[p][f] = 0}
  <2>1. \A f \in File : Lacks(f)' \/ Fresh(p, f, graph'[f])
    BY <1>1, <1>2, <1>6 DEF Reads, Lacks
  <2>2. EmptiedKnown'
    BY <1>6 DEF EmptiedKnown, Unstored
  <2>3. Stores(p)'
    BY <1>1, <1>4, <2>1 DEF Stores, Fresh
  <2> QED
    BY <1>1, <1>5, <2>1, <2>2, <2>3, ScanWrites, PointSets
<1>7. CASE unstored' = File /\ UNCHANGED graph
  <2>1. \A f \in File : Lacks(f)'
    BY <1>7 DEF Lacks
  <2>2. EmptiedKnown' /\ Stores(p)'
    BY <1>7, <2>1 DEF EmptiedKnown, Unstored, Stores
  <2> QED
    BY <1>1, <1>5, <2>1, <2>2, ScanWrites, PointSets
<1> QED
  BY <1>6, <1>7 DEF Store

LEMMA SaveHashesKeeps ==
    ASSUME TypeOK, FilesInv, Locks, NEW p \in Proc, SaveHashes(p)
    PROVE  FilesInv'
<1>1. /\ pc[p] = "hash" /\ pc'[p] \in {"release", "clear"}
      /\ \A q \in Proc : q # p => pc'[q] = pc[q]
      /\ UNCHANGED <<disk, graph, unstored, ledger, marked, file, snap, walk, new>>
      /\ hash' = disk
  <2>1. \E l \in {"release", "clear"} : Go(p, l)
    BY DEF SaveHashes
  <2> QED
    BY <2>1, Moves DEF SaveHashes, callVars, scanVars
<1>2. \A f \in File : Unmarked(f) => Unmarked(f)'
  BY <1>1, StillUnmarked
<1>3. \A f \in File : /\ Owed(p, f) => Owed(p, f)'
                      /\ Late(p, f) <=> Late(p, f)'
                      /\ Lacks(f) <=> Lacks(f)'
  BY <1>1, <1>2 DEF Owed, Late, Lacks
<1>4. Stores(p) /\ Dirty(snap[p])' = Dirty(snap[p])
  BY <1>1 DEF FilesInv, ScanKnows, Dirty
<1>5. Walks(p)' /\ Reads(p)' /\ Stores(p)'
  BY <1>1, <1>3, <1>4 DEF Walks, Reads, Stores
<1>6. EmptiedKnown'
  BY <1>1, StillEmptied DEF FilesInv, AtStore
<1>7. Remembered'
  <2> SUFFICES ASSUME NEW f \in File, graph[f] # disk[f]
               PROVE  f \in Dirty(ledger) \/ Unmarked(f)' \/ Lacks(f)'
    BY <1>1 DEF Remembered, Dirty
  <2> QED
    BY <1>1, <1>2, <1>3, <1>4 DEF Stores, Owed, Late, Dirty
<1> QED
  BY <1>1, <1>5, <1>6, <1>7, ScanGoesOn, PointSets

LEMMA ClearBeginKeeps ==
    ASSUME TypeOK, FilesInv, Locks, NEW p \in Proc, ClearBegin(p)
    PROVE  FilesInv'
<1>1. /\ pc[p] = "clear" /\ pc'[p] = "clearing"
      /\ \A q \in Proc : q # p => pc'[q] = pc[q]
      /\ UNCHANGED <<disk, graph, hash, unstored, ledger, marked, file, snap, walk, new>>
  BY Moves DEF ClearBegin, filesVars, callVars, scanVars
<1>2. \A f \in File : Unmarked(f) => Unmarked(f)'
  BY <1>1, StillUnmarked
<1>3. \A f \in File : /\ Owed(p, f) => Owed(p, f)'
                      /\ Late(p, f) <=> Late(p, f)'
                      /\ Lacks(f) <=> Lacks(f)'
  BY <1>1, <1>2 DEF Owed, Late, Lacks
<1>4. Stores(p) /\ Dirty(snap[p])' = Dirty(snap[p])
  BY <1>1 DEF FilesInv, ScanKnows, Dirty
<1>5. Walks(p)' /\ Reads(p)' /\ Stores(p)'
  BY <1>1, <1>3, <1>4 DEF Walks, Reads, Stores
<1>6. EmptiedKnown'
  BY <1>1, StillEmptied DEF FilesInv, AtStore
<1>7. Remembered'
  BY <1>1, StillRemembered DEF FilesInv
<1> QED
  BY <1>1, <1>5, <1>6, <1>7, ScanGoesOn, PointSets

(* The event that is unlinked was captured: what came since is still there. *)
LEMMA ClearOneKeeps ==
    ASSUME TypeOK, FilesInv, Locks, NEW p \in Proc, ClearOne(p)
    PROVE  FilesInv'
<1>1. PICK e \in snap[p] \cap ledger : ledger' = ledger \ {e}
  BY DEF ClearOne
<1>2. /\ pc[p] = "clearing" /\ UNCHANGED pc
      /\ UNCHANGED <<disk, graph, hash, unstored, marked, file, snap, walk, new>>
  BY DEF ClearOne, filesVars, callVars, scanVars
<1>3. \A f \in File : Unmarked(f) <=> Unmarked(f)'
  BY <1>2 DEF Unmarked
<1>4. \A f \in File : /\ Late(p, f) <=> Late(p, f)'
                      /\ Owed(p, f) <=> Owed(p, f)'
                      /\ Lacks(f) <=> Lacks(f)'
  BY <1>1, <1>2, <1>3 DEF Owed, Late, Lacks
<1>5. Stores(p) /\ Dirty(snap[p])' = Dirty(snap[p])
  BY <1>2 DEF FilesInv, ScanKnows, Dirty
<1>6. Walks(p)' /\ Reads(p)' /\ Stores(p)'
  BY <1>2, <1>4, <1>5 DEF Walks, Reads, Stores
<1>7. ScanKnows'
  BY <1>2, <1>6, OnlyTheScan, PointSets
<1>8. Written' /\ MarkedWasEdited'
  BY <1>1, <1>2, StillWritten DEF FilesInv, MarkedWasEdited
<1>9. \A f \in File : Late(p, f) => f \in Dirty(ledger)'
  BY <1>1 DEF Late, Dirty
<1>10. \A f \in File : f \in Dirty(ledger) /\ f \notin Dirty(ledger)' =>
                        f \in Dirty(snap[p])
  BY <1>1 DEF Dirty
<1>11. EmptiedKnown'
  BY <1>2, StillEmptied DEF FilesInv, AtStore
<1>12. Cleared'
  BY <1>2, <1>4, <1>5, <1>9, <1>10 DEF FilesInv, Cleared, Stores
<1>13. Remembered'
  <2> SUFFICES ASSUME NEW f \in File, graph[f] # disk[f]
               PROVE  f \in Dirty(ledger)' \/ Unmarked(f)' \/ Lacks(f)'
    BY <1>2 DEF Remembered
  <2> QED
    BY <1>2, <1>3, <1>4, <1>5, <1>9 DEF Stores, Owed
<1> QED
  BY <1>7, <1>8, <1>11, <1>12, <1>13 DEF FilesInv

-----------------------------------------------------------------------------
(* How a drain ends, and its stamp. *)

LEMMA EndedMove ==
    ASSUME TypeOK, OwnEditDrained, NEW p \in Proc, NEW l, Go(p, l),
           ledger' \subseteq ledger,
           l = "ended" /\ p \in Hooks => ledger' = {}
    PROVE  OwnEditDrained'
  BY Moves, KindsApart DEF OwnEditDrained

LEMMA StepEnded ==
    ASSUME TypeOK, Roles, OwnEditDrained, NEW p \in Proc,
           Step(p) \/ Edit(p) \/ Begin(p) \/ Throw(p) \/ Crash(p)
    PROVE  OwnEditDrained'
<1> USE PointSets, KindsApart DEF filesVars
<1>1. CASE WriteEvent(p)
  <2>1. p \in Hooks /\ pc[p] = "event" /\ \E l \in {"prior", "refresh"} : Go(p, l)
    BY <1>1 DEF WriteEvent, Roles
  <2>2. pc'[p] # "ended" /\ \A q \in Proc : q # p => pc'[q] = pc[q]
    BY <2>1, Moves
  <2>3. \A e \in ledger' : e \in ledger \/ e.by = p
    BY <1>1 DEF WriteEvent
  <2> QED
    BY <2>2, <2>3 DEF OwnEditDrained
<1>2. CASE RefreshRead(p)
  BY <1>2, EndedMove DEF RefreshRead
<1>3. CASE RefreshWrite(p)
  BY <1>3, EndedMove DEF RefreshWrite
<1>4. CASE ReadPrior(p)
  BY <1>4, EndedMove DEF ReadPrior, Sleep
<1>5. CASE CaptureList(p)
  BY <1>5, EndedMove DEF CaptureList
<1>6. CASE CaptureRead(p)
  <2>1. \E l \in {"empty", "lease"} : Go(p, l)
    BY <1>6 DEF CaptureRead
  <2> QED
    BY <1>6, <2>1, EndedMove DEF CaptureRead
<1>7. CASE EmptyRead(p)
  BY <1>7, EndedMove DEF EmptyRead, ReadForStamp
<1>8. CASE EmptyWrite(p)
  BY <1>8, EndedMove DEF EmptyWrite, WriteStamp, Sleep
<1>9. CASE TakeLease(p)
  BY <1>9, EndedMove DEF TakeLease
<1>10. CASE Busy(p)
  BY <1>10, EndedMove DEF Busy, Sleep
<1>11. CASE InFlightRead(p)
  BY <1>11, EndedMove DEF InFlightRead, ReadForStamp
<1>12. CASE InFlightWrite(p)
  BY <1>12, EndedMove DEF InFlightWrite, WriteStamp
<1>13. CASE Detect(p)
  <2>1. \E l \in {"hash", "analyse", "wipe"} : Go(p, l)
    BY <1>13 DEF Detect
  <2> QED
    BY <1>13, <2>1, EndedMove DEF Detect
<1>14. CASE Analyse(p)
  BY <1>14, EndedMove DEF Analyse
<1>15. CASE Store(p)
  BY <1>15, EndedMove DEF Store
<1>16. CASE SaveHashes(p)
  BY <1>16, EndedMove DEF SaveHashes
<1>17. CASE ClearBegin(p)
  BY <1>17, EndedMove DEF ClearBegin
<1>18. CASE ClearOne(p)
  BY <1>18 DEF ClearOne, OwnEditDrained
<1>19. CASE ClearEnd(p)
  BY <1>19, EndedMove DEF ClearEnd
<1>20. CASE DoneRead(p)
  BY <1>20, EndedMove DEF DoneRead, ReadForStamp
<1>21. CASE DoneWrite(p)
  BY <1>21, EndedMove DEF DoneWrite, WriteStamp
<1>22. CASE Release(p)
  BY <1>22, EndedMove DEF Release
<1>23. CASE Check(p)
  BY <1>23, EndedMove DEF Check, Sleep
<1>24. CASE Wake(p)
  BY <1>24, EndedMove DEF Wake
<1>25. CASE FailRead(p)
  BY <1>25, EndedMove DEF FailRead, ReadForStamp
<1>26. CASE FailWrite(p)
  BY <1>26, EndedMove DEF FailWrite, WriteStamp
<1>27. CASE FailRelease(p)
  BY <1>27, EndedMove DEF FailRelease
<1>28. CASE Edit(p)
  BY <1>28, EndedMove DEF Edit
<1>29. CASE Begin(p)
  BY <1>29, EndedMove DEF Begin
<1>30. CASE Throw(p)
  BY <1>30, EndedMove DEF Throw
<1>31. CASE Crash(p)
  BY <1>31, EndedMove DEF Crash
<1>32. CASE Wipe(p)
  BY <1>32, EndedMove DEF Wipe
<1>33. CASE Truncate(p)
  <2>1. \E l \in {"fill", "hash"} : Go(p, l)
    BY <1>33 DEF Truncate
  <2> QED
    BY <1>33, <2>1, EndedMove DEF Truncate
<1> QED
  BY <1>1, <1>2, <1>3, <1>4, <1>5, <1>6, <1>7, <1>8, <1>9, <1>10, <1>11,
     <1>12, <1>13, <1>14, <1>15, <1>16, <1>17, <1>18, <1>19, <1>20,
     <1>21, <1>22, <1>23, <1>24, <1>25, <1>26, <1>27, <1>28, <1>29,
     <1>30, <1>31, <1>32, <1>33 DEF Step

LEMMA RefreshMove ==
    ASSUME TypeOK, Locks, RefreshIsCurrent, NEW p \in Proc, NEW l, Go(p, l),
           l = "refreshWrite" => prior'[p] = stamp',
           stamp' = stamp \/ p \in mutex,
           \A q \in Proc : q # p => prior'[q] = prior[q]
    PROVE  RefreshIsCurrent'
<1> SUFFICES ASSUME NEW q \in Proc, pc'[q] = "refreshWrite", q # p
             PROVE  prior'[q] = stamp'
  BY Moves DEF RefreshIsCurrent
<1>1. pc[q] = "refreshWrite" /\ q \in mutex /\ prior'[q] = prior[q]
  BY Moves, PointSets DEF Locks
<1>2. p \notin mutex
  BY <1>1 DEF Locks
<1> QED
  BY <1>1, <1>2 DEF RefreshIsCurrent

LEMMA ForgetsPrior ==
    ASSUME TypeOK, NEW p \in Proc, Forget(p)
    PROVE  \A q \in Proc : q # p => prior'[q] = prior[q]
  BY DEF TypeOK, Forget

LEMMA StepRefresh ==
    ASSUME TypeOK, Locks, RefreshIsCurrent, NEW p \in Proc,
           Step(p) \/ Edit(p) \/ Begin(p) \/ Throw(p) \/ Crash(p)
    PROVE  RefreshIsCurrent'
<1> USE PointSets DEF filesVars, callVars
<1>0. p \in mutex <=> pc[p] \in MutexPoints
  BY DEF Locks
<1>1. CASE WriteEvent(p)
  BY <1>1, <1>0, RefreshMove, ForgetsPrior DEF WriteEvent
<1>2. CASE RefreshRead(p)
  <2>1. \A q \in Proc : q # p => prior'[q] = prior[q]
    BY <1>2 DEF RefreshRead, TypeOK
  <2>2. CASE Go(p, "prior")
    BY <1>2, <2>1, <2>2, RefreshMove DEF RefreshRead
  <2>3. CASE Go(p, "refreshWrite") /\ prior' = [prior EXCEPT ![p] = stamp]
    <3>1. prior'[p] = stamp
      BY <2>3 DEF TypeOK
    <3> QED
      BY <1>2, <2>1, <2>3, <3>1, RefreshMove DEF RefreshRead
  <2> QED
    BY <1>2, <2>2, <2>3 DEF RefreshRead
<1>3. CASE RefreshWrite(p)
  BY <1>3, <1>0, RefreshMove, ForgetsPrior DEF RefreshWrite
<1>4. CASE ReadPrior(p)
  <2>1. \A q \in Proc : q # p => prior'[q] = prior[q]
    BY <1>4, ForgetsPrior DEF ReadPrior, Sleep, TypeOK
  <2>2. \E l \in {"sleep", "capture"} : Go(p, l)
    BY <1>4 DEF ReadPrior, Sleep
  <2> QED
    BY <1>4, <2>1, <2>2, RefreshMove DEF ReadPrior
<1>5. CASE CaptureList(p)
  BY <1>5, <1>0, RefreshMove, ForgetsPrior DEF CaptureList
<1>6. CASE CaptureRead(p)
  <2>1. \E l \in {"empty", "lease"} : Go(p, l)
    BY <1>6 DEF CaptureRead
  <2> QED
    BY <1>6, <2>1, RefreshMove DEF CaptureRead
<1>7. CASE EmptyRead(p)
  BY <1>7, <1>0, RefreshMove, ForgetsPrior DEF EmptyRead, ReadForStamp
<1>8. CASE EmptyWrite(p)
  BY <1>8, <1>0, RefreshMove, ForgetsPrior DEF EmptyWrite, WriteStamp, Sleep
<1>9. CASE TakeLease(p)
  BY <1>9, <1>0, RefreshMove, ForgetsPrior DEF TakeLease
<1>10. CASE Busy(p)
  BY <1>10, <1>0, RefreshMove, ForgetsPrior DEF Busy, Sleep
<1>11. CASE InFlightRead(p)
  BY <1>11, <1>0, RefreshMove, ForgetsPrior DEF InFlightRead, ReadForStamp
<1>12. CASE InFlightWrite(p)
  BY <1>12, <1>0, RefreshMove, ForgetsPrior DEF InFlightWrite, WriteStamp
<1>13. CASE Detect(p)
  <2>1. \E l \in {"hash", "analyse", "wipe"} : Go(p, l)
    BY <1>13 DEF Detect
  <2> QED
    BY <1>13, <2>1, RefreshMove DEF Detect
<1>14. CASE Analyse(p)
  BY <1>14, <1>0, RefreshMove, ForgetsPrior DEF Analyse
<1>15. CASE Store(p)
  BY <1>15, <1>0, RefreshMove, ForgetsPrior DEF Store
<1>16. CASE SaveHashes(p)
  BY <1>16, <1>0, RefreshMove, ForgetsPrior DEF SaveHashes
<1>17. CASE ClearBegin(p)
  BY <1>17, <1>0, RefreshMove, ForgetsPrior DEF ClearBegin
<1>18. CASE ClearOne(p)
  BY <1>18 DEF ClearOne, RefreshIsCurrent
<1>19. CASE ClearEnd(p)
  <2>1. \A q \in Proc : q # p => prior'[q] = prior[q]
    BY <1>19 DEF ClearEnd, TypeOK
  <2> QED
    BY <1>19, <2>1, RefreshMove DEF ClearEnd
<1>20. CASE DoneRead(p)
  BY <1>20, <1>0, RefreshMove, ForgetsPrior DEF DoneRead, ReadForStamp
<1>21. CASE DoneWrite(p)
  BY <1>21, <1>0, RefreshMove, ForgetsPrior DEF DoneWrite, WriteStamp
<1>22. CASE Release(p)
  BY <1>22, <1>0, RefreshMove, ForgetsPrior DEF Release
<1>23. CASE Check(p)
  BY <1>23, <1>0, RefreshMove, ForgetsPrior DEF Check, Sleep
<1>24. CASE Wake(p)
  BY <1>24, <1>0, RefreshMove, ForgetsPrior DEF Wake
<1>25. CASE FailRead(p)
  BY <1>25, <1>0, RefreshMove, ForgetsPrior DEF FailRead, ReadForStamp
<1>26. CASE FailWrite(p)
  BY <1>26, <1>0, RefreshMove, ForgetsPrior DEF FailWrite, WriteStamp
<1>27. CASE FailRelease(p)
  BY <1>27, <1>0, RefreshMove, ForgetsPrior DEF FailRelease
<1>28. CASE Edit(p)
  BY <1>28, <1>0, RefreshMove, ForgetsPrior DEF Edit
<1>29. CASE Begin(p)
  BY <1>29, <1>0, RefreshMove, ForgetsPrior DEF Begin
<1>30. CASE Throw(p)
  BY <1>30, <1>0, RefreshMove, ForgetsPrior DEF Throw
<1>31. CASE Crash(p)
  BY <1>31, <1>0, RefreshMove, ForgetsPrior DEF Crash
<1>32. CASE Wipe(p)
  BY <1>32, <1>0, RefreshMove DEF Wipe
<1>33. CASE Truncate(p)
  <2>1. \E l \in {"fill", "hash"} : Go(p, l)
    BY <1>33 DEF Truncate
  <2> QED
    BY <1>33, <2>1, <1>0, RefreshMove DEF Truncate
<1> QED
  BY <1>1, <1>2, <1>3, <1>4, <1>5, <1>6, <1>7, <1>8, <1>9, <1>10, <1>11,
     <1>12, <1>13, <1>14, <1>15, <1>16, <1>17, <1>18, <1>19, <1>20,
     <1>21, <1>22, <1>23, <1>24, <1>25, <1>26, <1>27, <1>28, <1>29,
     <1>30, <1>31, <1>32, <1>33 DEF Step

(* Where a drain answers for the in-flight flag. *)
Causes == {"inFlight", "inFlightWrite", "detect", "wipe", "analyse", "store",
           "fill", "hash", "clear", "clearing", "done", "doneWrite", "failStamp", "failWrite",
           "failRelease", "failed", "dead"}

LEMMA FlightMeans ==
    FlightHasACause <=> (stamp.flight => \E h \in Hooks : pc[h] \in Causes)
  BY PointSets DEF FlightHasACause, Causes

(* The flag is raised by a drain that answers for it, and who stops to      *)
(* answer for it lowers it.                                                 *)
LEMMA FlightMove ==
    ASSUME TypeOK, FlightHasACause, NEW p \in Proc, NEW l, Go(p, l),
           stamp'.flight => stamp.flight \/ (p \in Hooks /\ l \in Causes),
           p \in Hooks /\ pc[p] \in Causes => l \in Causes \/ ~stamp'.flight
    PROVE  FlightHasACause'
<1> SUFFICES ASSUME stamp'.flight
             PROVE  \E h \in Hooks : pc'[h] \in Causes
  BY FlightMeans DEF FlightHasACause, Causes, ScanPoints, StampPoints
<1>1. CASE p \in Hooks /\ l \in Causes
  BY <1>1, Moves
<1>2. CASE stamp.flight /\ (p \in Hooks => pc[p] \notin Causes)
  <2>1. PICK h \in Hooks : pc[h] \in Causes
    BY <1>2, FlightMeans
  <2>2. h \in Proc /\ h # p
    BY <1>2, <2>1, KindsApart
  <2> QED
    BY <2>1, <2>2, Moves
<1> QED
  BY <1>1, <1>2

LEMMA StepFlight ==
    ASSUME TypeOK, Roles, RefreshIsCurrent, FlightHasACause, NEW p \in Proc,
           Step(p) \/ Edit(p) \/ Begin(p) \/ Throw(p) \/ Crash(p)
    PROVE  FlightHasACause'
<1> USE KindsApart DEF Causes
<1>1. CASE WriteEvent(p)
  <2>1. \E l \in {"prior", "refresh"} : Go(p, l)
    BY <1>1 DEF WriteEvent
  <2> QED
    BY <1>1, <2>1, FlightMove DEF WriteEvent
<1>2. CASE RefreshRead(p)
  BY <1>2, FlightMove DEF RefreshRead
<1>3. CASE RefreshWrite(p)
  <2>1. stamp' = stamp
    BY <1>3 DEF RefreshWrite, RefreshIsCurrent
  <2> QED
    BY <1>3, <2>1, FlightMove DEF RefreshWrite
<1>4. CASE ReadPrior(p)
  BY <1>4, FlightMove DEF ReadPrior, Sleep
<1>5. CASE CaptureList(p)
  BY <1>5, FlightMove DEF CaptureList
<1>6. CASE CaptureRead(p)
  <2>1. \E l \in {"empty", "lease"} : Go(p, l)
    BY <1>6 DEF CaptureRead
  <2> QED
    BY <1>6, <2>1, FlightMove DEF CaptureRead
<1>7. CASE EmptyRead(p)
  BY <1>7, FlightMove DEF EmptyRead, ReadForStamp
<1>8. CASE EmptyWrite(p)
  <2>1. CASE quiet[p]
    <3>1. ~stamp'.flight
      BY <1>8, <2>1 DEF EmptyWrite, WriteStamp
    <3> QED
      BY <1>8, <2>1, <3>1, FlightMove DEF EmptyWrite, WriteStamp
  <2>2. CASE ~quiet[p]
    BY <1>8, <2>2, FlightMove DEF EmptyWrite, Sleep
  <2> QED
    BY <2>1, <2>2
<1>9. CASE TakeLease(p)
  BY <1>9, FlightMove DEF TakeLease
<1>10. CASE Busy(p)
  BY <1>10, FlightMove DEF Busy, Sleep
<1>11. CASE InFlightRead(p)
  BY <1>11, FlightMove DEF InFlightRead, ReadForStamp
<1>12. CASE InFlightWrite(p)
  <2>1. p \in Hooks
    BY <1>12, PointSets DEF InFlightWrite, WriteStamp, Roles
  <2> QED
    BY <1>12, <2>1, FlightMove DEF InFlightWrite, WriteStamp
<1>13. CASE Detect(p)
  <2>1. \E l \in {"hash", "analyse", "wipe"} : Go(p, l)
    BY <1>13 DEF Detect
  <2> QED
    BY <1>13, <2>1, FlightMove DEF Detect
<1>14. CASE Analyse(p)
  BY <1>14, FlightMove DEF Analyse
<1>15. CASE Store(p)
  BY <1>15, FlightMove DEF Store
<1>16. CASE SaveHashes(p)
  BY <1>16, FlightMove DEF SaveHashes
<1>17. CASE ClearBegin(p)
  BY <1>17, FlightMove DEF ClearBegin
<1>18. CASE ClearOne(p)
  BY <1>18 DEF ClearOne, FlightHasACause
<1>19. CASE ClearEnd(p)
  BY <1>19, FlightMove DEF ClearEnd
<1>20. CASE DoneRead(p)
  BY <1>20, FlightMove DEF DoneRead, ReadForStamp
<1>21. CASE DoneWrite(p)
  <2>1. ~stamp'.flight
    BY <1>21 DEF DoneWrite, WriteStamp
  <2> QED
    BY <1>21, <2>1, FlightMove DEF DoneWrite, WriteStamp
<1>22. CASE Release(p)
  BY <1>22, FlightMove DEF Release
<1>23. CASE Check(p)
  BY <1>23, FlightMove DEF Check, Sleep
<1>24. CASE Wake(p)
  BY <1>24, FlightMove DEF Wake
<1>25. CASE FailRead(p)
  BY <1>25, FlightMove DEF FailRead, ReadForStamp
<1>26. CASE FailWrite(p)
  <2>1. ~stamp'.flight
    BY <1>26 DEF FailWrite, WriteStamp
  <2> QED
    BY <1>26, <2>1, FlightMove DEF FailWrite, WriteStamp
<1>27. CASE FailRelease(p)
  BY <1>27, FlightMove DEF FailRelease
<1>28. CASE Edit(p)
  BY <1>28, FlightMove DEF Edit
<1>29. CASE Begin(p)
  BY <1>29, FlightMove DEF Begin
<1>30. CASE Throw(p)
  BY <1>30, FlightMove DEF Throw, ScanPoints, StampPoints
<1>31. CASE Crash(p)
  BY <1>31, FlightMove DEF Crash, Gone
<1>32. CASE Wipe(p)
  BY <1>32, FlightMove DEF Wipe
<1>33. CASE Truncate(p)
  <2>1. \E l \in {"fill", "hash"} : Go(p, l)
    BY <1>33 DEF Truncate
  <2> QED
    BY <1>33, <2>1, FlightMove DEF Truncate
<1> QED
  BY <1>1, <1>2, <1>3, <1>4, <1>5, <1>6, <1>7, <1>8, <1>9, <1>10, <1>11,
     <1>12, <1>13, <1>14, <1>15, <1>16, <1>17, <1>18, <1>19, <1>20,
     <1>21, <1>22, <1>23, <1>24, <1>25, <1>26, <1>27, <1>28, <1>29,
     <1>30, <1>31, <1>32, <1>33 DEF Step

LEMMA TickKeeps ==
    ASSUME FreshIInv, Tick
    PROVE  FreshIInv'
<1>1. /\ UNCHANGED <<disk, graph, hash, unstored, ledger, marked, lease, mutex,
                    pc, file, snap, walk, new, quiet, attempt>>
      /\ stamp' = Aged(stamp) /\ TypeOK
      /\ \A p \in Proc : prior'[p] = Aged(prior[p])
  BY DEF Tick, filesVars, scanVars, FreshIInv
<1>2. TypeOK'
  BY <1>1, TickTypes DEF FreshIInv
<1>3. Roles' /\ Locks'
  BY <1>1 DEF FreshIInv, Roles, Locks
<1>4. Written' /\ MarkedWasEdited'
  BY <1>1 DEF FreshIInv, Written, MarkedWasEdited
<1>5. RefreshIsCurrent'
  BY <1>1 DEF FreshIInv, RefreshIsCurrent
<1>6. ScanKnows'
  BY <1>1 DEF FreshIInv, ScanKnows, Walks, Reads, Fresh, Stores, Owed, Late,
              Unmarked, Lacks, Dirty
<1>7. EmptiedKnown' /\ Cleared' /\ Remembered' /\ OwnEditDrained'
  BY <1>1 DEF FreshIInv, EmptiedKnown, Unstored, Emptied, Cleared, Remembered,
              OwnEditDrained, Unmarked, Lacks, Dirty
<1>8. FlightHasACause'
  <2>1. stamp'.flight = stamp.flight
    BY <1>1, StampTypes DEF TypeOK
  <2> QED
    BY <1>1, <2>1 DEF FreshIInv, FlightHasACause
<1> QED
  BY <1>2, <1>3, <1>4, <1>5, <1>6, <1>7, <1>8 DEF FreshIInv

LEMMA StutterKeeps ==
    ASSUME FreshIInv, UNCHANGED vars
    PROVE  FreshIInv'
<1> USE Unchanged
<1>1. TypeOK' /\ Roles' /\ Locks'
  BY DEF FreshIInv, TypeOK, Roles, Locks
<1>2. Written' /\ RefreshIsCurrent' /\ MarkedWasEdited'
  BY DEF FreshIInv, Written, RefreshIsCurrent, MarkedWasEdited
<1>3. ScanKnows'
  BY DEF FreshIInv, ScanKnows, Walks, Reads, Fresh, Stores, Owed, Late, Unmarked,
         Lacks, Dirty
<1>4. /\ EmptiedKnown' /\ Cleared' /\ Remembered'
      /\ OwnEditDrained' /\ FlightHasACause'
  BY DEF FreshIInv, EmptiedKnown, Unstored, Emptied, Cleared, Remembered,
         OwnEditDrained, FlightHasACause, Unmarked, Lacks, Dirty
<1> QED
  BY <1>1, <1>2, <1>3, <1>4 DEF FreshIInv

LEMMA StepFiles ==
    ASSUME TypeOK, Roles, Locks, FilesInv, NEW p \in Proc,
           Step(p) \/ Edit(p) \/ Begin(p) \/ Throw(p) \/ Crash(p)
    PROVE  FilesInv'
<1>1. CASE \/ WriteEvent(p) \/ Detect(p) \/ Wipe(p) \/ Analyse(p)
           \/ Truncate(p) \/ Store(p)
           \/ SaveHashes(p) \/ ClearBegin(p) \/ ClearOne(p) \/ Edit(p)
  BY <1>1, WriteEventKeeps, DetectKeeps, WipeKeeps, AnalyseKeeps, TruncateKeeps,
     StoreKeeps, SaveHashesKeeps, ClearBeginKeeps, ClearOneKeeps, EditKeeps
<1>2. CASE ~(\/ WriteEvent(p) \/ Detect(p) \/ Wipe(p) \/ Analyse(p)
             \/ Truncate(p) \/ Store(p)
             \/ SaveHashes(p) \/ ClearBegin(p) \/ ClearOne(p) \/ Edit(p))
  <2>1. Aside(p)
    BY <1>2, StepAside DEF Step
  <2> QED
    BY <2>1, AsideKeeps
<1> QED
  BY <1>1, <1>2

LEMMA FreshGoesOn == FreshIInv /\ [Next]_vars => FreshIInv'
<1> SUFFICES ASSUME FreshIInv, [Next]_vars
             PROVE  FreshIInv'
  OBVIOUS
<1>1. CASE Tick
  BY <1>1, TickKeeps
<1>2. CASE UNCHANGED vars
  BY <1>2, StutterKeeps
<1>3. ASSUME NEW p \in Proc,
             Step(p) \/ Edit(p) \/ Begin(p) \/ Throw(p) \/ Crash(p)
      PROVE  FreshIInv'
  <2>1. /\ TypeOK /\ Roles /\ Locks /\ RefreshIsCurrent /\ FilesInv
        /\ OwnEditDrained /\ FlightHasACause
    BY DEF FreshIInv, FilesInv
  <2>2. TypeOK'
    BY <1>3, <2>1, StepTypes, OtherTypes
  <2>3. Roles' /\ Locks'
    BY <1>3, <2>1, StepRoles, StepLocks
  <2>4. FilesInv'
    BY <1>3, <2>1, StepFiles
  <2>5. RefreshIsCurrent'
    BY <1>3, <2>1, StepRefresh
  <2>6. OwnEditDrained' /\ FlightHasACause'
    BY <1>3, <2>1, StepEnded, StepFlight
  <2> QED
    BY <2>2, <2>3, <2>4, <2>5, <2>6 DEF FreshIInv, FilesInv
<1> QED
  BY <1>1, <1>2, <1>3 DEF Next

LEMMA FreshInvariant == Spec => []FreshIInv
  BY FreshBegins, FreshGoesOn, PTL DEF Spec

-----------------------------------------------------------------------------
(* Every reachable state of the ledger, the scans and the stamp has its     *)
(* types.                                                                   *)
THEOREM FreshTypeCorrect == Spec => []TypeOK
<1>1. FreshIInv => TypeOK
  BY DEF FreshIInv
<1> QED
  BY <1>1, FreshInvariant, PTL

(* What the graph lacks is unstored.                                        *)
LEMMA LackIsKnown ==
    ASSUME FreshIInv, NEW f \in File, Lacks(f)
    PROVE  Unstored(f)
  BY DEF FreshIInv, EmptiedKnown, Lacks, Unstored

(* clearDirtySnapshot takes no event out of the ledger whose file the graph *)
(* does not have at least as new as its mark, but for a file a scan has     *)
(* failed to read or to store, or is about to: else an empty ledger means   *)
(* clean.                                                                   *)
THEOREM NothingClearedEarly == Spec => []ClearedOnceScanned
<1>1. FreshIInv => ClearedOnceScanned
  BY LackIsKnown DEF FreshIInv, Cleared, ClearedOnceScanned
<1> QED
  BY <1>1, FreshInvariant, PTL

(* Between the ledger and the saved hashes, an edit the graph lacks is      *)
(* always known, but for one whose hook has not written its event, and one  *)
(* a scan has failed to read or to store, or is about to store.             *)
THEOREM NoEditForgotten == Spec => []NothingForgotten
<1>1. FreshIInv => NothingForgotten
  BY LackIsKnown DEF FreshIInv, Remembered, Unmarked, NothingForgotten
<1> QED
  BY <1>1, FreshInvariant, PTL

(* drainUntilClean, when it settles, leaves no event of its own edit.       *)
THEOREM SettledDrainsOwn == Spec => []OwnEditDrained
<1>1. FreshIInv => OwnEditDrained
  BY DEF FreshIInv
<1> QED
  BY <1>1, FreshInvariant, PTL

(* A raised in-flight flag has a drain that is at it, or that was killed or *)
(* failed.                                                                  *)
THEOREM FlightIsExplained == Spec => []FlightHasACause
<1>1. FreshIInv => FlightHasACause
  BY DEF FreshIInv
<1> QED
  BY <1>1, FreshInvariant, PTL
=============================================================================
