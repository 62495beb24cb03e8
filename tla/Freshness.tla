----------------------------- MODULE Freshness -----------------------------
(***************************************************************************)
(* How edits reach the architecture graph: the dirty ledger, the drainer   *)
(* and the freshness stamp (src/freshness/), around the scans of           *)
(* scanner.ts.                                                             *)
(*                                                                         *)
(* An edit is recorded as an immutable event file in the ledger.  A drain  *)
(* captures the events it sees, scans under the scan lease, removes those  *)
(* events and publishes a stamp; a later event stays for the next drain.   *)
(* Three kinds of processes scan: HOOKS (`mark-dirty --drain` after an     *)
(* edit: it appends the event, refreshes the stamp, and leaves a detached  *)
(* `drain --until-clean` behind), REFRESHERS (autoRefreshIfStale, which    *)
(* captures and clears like a drain but writes no in-flight stamp) and     *)
(* SCANS (`navgator scan`, which does not look at the ledger).             *)
(*                                                                         *)
(* The scan lease and the ledger's mutation lock are the lock WriterLock,  *)
(* which ScanLease implements.  A scan is what the ledger can tell of it:  *)
(* it empties the store if it is a full one, reads the files of its walk   *)
(* set, rewrites the store in place, then saves the hashes of what is on   *)
(* disk by then.  The store is one file here, and an emptied one need not  *)
(* make the next scan a full one; its files and the choice of the scan are *)
(* ScanStore's subject.  A file's content is a version number, 0 where the *)
(* stored graph has nothing of it.  The stamp keeps its age and its        *)
(* in-flight flag; its copy of the dirty files is replaced by every reader *)
(* (runFreshness) and is left out, and so are git and the older ledger     *)
(* dirty.json.                                                             *)
(***************************************************************************)
EXTENDS Naturals, FiniteSets

CONSTANTS
    File,
    Hooks,        \* each edits one file, marks it, and drains
    Refreshers, Scans,
    MaxAttempts,  \* 12 in drainUntilClean
    Crashes,      \* TRUE if processes may be killed
    Errors        \* TRUE if a scan may throw, a mutation lock time out, or a
                  \* read or write fail whose failure is swallowed

Proc == Hooks \cup Refreshers \cup Scans

ASSUME KindAssumption ==
    Hooks \cap Refreshers = {} /\ Hooks \cap Scans = {}
        /\ Refreshers \cap Scans = {}
ASSUME AttemptAssumption == MaxAttempts \in Nat \ {0}
ASSUME FailureAssumption == Crashes \in BOOLEAN /\ Errors \in BOOLEAN

VARIABLES
    disk, graph, hash, \* each file's version: on disk, in the stored graph,
                       \* and in hashes.json
    unstored,          \* (history) the files a scan has walked, or taken out
                       \* of the store, and did not store
    ledger,            \* the event files under dirty.d/
    marked,            \* newest version of each file whose mark committed
    stamp,             \* freshness.json: [age, flight], age "none" if missing
    lease, mutex,      \* who holds the scan lease, and the mutation lock
    pc, file,          \* where each process is; the file its hook marks
    snap,              \* the events it captured
    walk, new,         \* the files its scan walks, and the graph it will store
    prior,             \* the stamp it read
    quiet,             \* the ledger was empty when it read it for a stamp
    attempt, slept     \* of drainUntilClean; its sleep is over

filesVars == <<disk, graph, hash, unstored>>
scanVars  == <<walk, new>>
loopVars  == <<attempt, slept>>
callVars == <<snap, scanVars, prior, quiet>>
vars == <<filesVars, ledger, marked, stamp, lease, mutex, pc, file, callVars,
          loopVars>>

Gone    == {"ended", "gaveUp", "failed", "dead"}
Up      == {p \in Proc : pc[p] \notin {"idle", "dead"}}
Event   == [by : Hooks, file : File]
Stamp   == [age : {"none", "old", "recent"}, flight : BOOLEAN]
Dirty(events) == {e.file : e \in events}

Lease == INSTANCE WriterLock WITH up <- Up, writers <- lease
Mutex == INSTANCE WriterLock WITH up <- Up, writers <- mutex

Go(p, l) == pc' = [pc EXCEPT ![p] = l]
NoStamp == [age |-> "none", flight |-> FALSE]
Nowhere == [f \in File |-> 0]
(* What a call had in its variables is gone when it returns, and what a     *)
(* scan was to store is when it has stored it.                              *)
Scanned(p) == /\ walk' = [walk EXCEPT ![p] = {}]
              /\ new' = [new EXCEPT ![p] = Nowhere]
Forget(p) == /\ Scanned(p)
             /\ snap' = [snap EXCEPT ![p] = {}]
             /\ prior' = [prior EXCEPT ![p] = NoStamp]
             /\ quiet' = [quiet EXCEPT ![p] = FALSE]

Init ==
    /\ disk = [f \in File |-> 1] /\ graph = disk /\ hash = disk
    /\ unstored = {} /\ ledger = {} /\ marked = Nowhere
    /\ stamp \in [age : {"none", "old"}, flight : {FALSE}]
    /\ lease = {} /\ mutex = {}
    /\ pc = [p \in Proc |-> "idle"]
    /\ file \in [Hooks -> File]
    /\ snap = [p \in Proc |-> {}]
    /\ walk = [p \in Proc |-> {}]
    /\ new = [p \in Proc |-> Nowhere]
    /\ prior = [p \in Proc |-> NoStamp]
    /\ quiet = [p \in Proc |-> FALSE]
    /\ attempt = [p \in Proc |-> 0]
    /\ slept = [p \in Proc |-> FALSE]

-----------------------------------------------------------------------------
(* mark-dirty. *)

(* A file is edited and the editor runs the hook. *)
Edit(p) ==
    /\ p \in Hooks /\ pc[p] = "idle"
    /\ disk' = [disk EXCEPT ![file[p]] = @ + 1]
    /\ Go(p, "event")
    /\ UNCHANGED <<graph, hash, unstored, ledger, marked, stamp, lease, mutex,
                   file, callVars, loopVars>>

(* writeEvent: one rename commits the event; it takes no lock. *)
WriteEvent(p) ==
    /\ pc[p] = "event"
    /\ ledger' = ledger \cup {[by |-> p, file |-> file[p]]}
    /\ marked' = [marked EXCEPT ![file[p]] = disk[file[p]]]
    /\ Go(p, IF stamp.age = "none" THEN "prior" ELSE "refresh")
    /\ UNCHANGED <<filesVars, stamp, lease, mutex, file, callVars,
                   loopVars>>

(* tryWithDirtyLedgerMutationLock: the refresh of the stamp is given up     *)
(* when the lock is not free.                                               *)
RefreshRead(p) ==
    /\ pc[p] = "refresh"
    /\ \/ /\ Go(p, "refreshWrite")
          /\ Mutex!Acquire(p)
          /\ prior' = [prior EXCEPT ![p] = stamp]
       \/ mutex # {} /\ Go(p, "prior") /\ UNCHANGED <<mutex, prior>>
    /\ UNCHANGED <<filesVars, ledger, marked, stamp, lease, file, snap,
                   scanVars, quiet, loopVars>>

(* It replaces the dirty files of the stamp it read, and nothing else of    *)
(* it; an error is swallowed.                                               *)
RefreshWrite(p) ==
    /\ pc[p] = "refreshWrite"
    /\ Go(p, "prior")
    /\ stamp' = prior[p] \/ (Errors /\ stamp' = stamp)
    /\ Mutex!Release(p)
    /\ Forget(p)
    /\ UNCHANGED <<filesVars, ledger, marked, lease, file, loopVars>>

-----------------------------------------------------------------------------
(* drain, autoRefreshIfStale and scan, up to the lease. *)

(* A refresh starts with its capture, a plain scan with the lease. *)
Begin(p) ==
    /\ pc[p] = "idle" /\ p \notin Hooks
    /\ Go(p, IF p \in Refreshers THEN "capture" ELSE "lease")
    /\ UNCHANGED <<filesVars, ledger, marked, stamp, lease, mutex, file,
                   callVars, loopVars>>

(* An attempt of drainUntilClean is over: it sleeps, a short while if it    *)
(* found the lease busy, else as long as the debounce window.               *)
Sleep(p, short) ==
    /\ Go(p, "sleep") /\ Forget(p)
    /\ slept' = [slept EXCEPT ![p] = short]

(* Mutant: a debounced drain counts as settled. *)
ReadPriorSettled(p) ==
    /\ pc[p] = "prior"
    /\ attempt' = [attempt EXCEPT ![p] = @ + 1]
    /\ prior' = [prior EXCEPT ![p] = stamp]
    /\ Go(p, IF stamp.age = "recent" THEN "ended" ELSE "capture")
    /\ UNCHANGED <<filesVars, ledger, marked, stamp, lease, mutex, file, snap,
                   scanVars, quiet, slept>>

ReadPrior(p) ==
    /\ pc[p] = "prior"
    /\ attempt' = [attempt EXCEPT ![p] = @ + 1]
    /\ IF stamp.age = "recent" THEN Sleep(p, FALSE)
       ELSE /\ Go(p, "capture")
            /\ prior' = [prior EXCEPT ![p] = stamp]
            /\ UNCHANGED <<slept, snap, scanVars, quiet>>
    /\ UNCHANGED <<filesVars, ledger, marked, stamp, lease, mutex, file>>

(* captureDirtySnapshot lists the event files, then reads each; one that    *)
(* was removed in between is not part of the snapshot.                      *)
CaptureList(p) ==
    /\ pc[p] = "capture"
    /\ snap' = [snap EXCEPT ![p] = ledger]
    /\ Go(p, "captureRead")
    /\ UNCHANGED <<filesVars, ledger, marked, stamp, lease, mutex, file,
                   scanVars, prior, quiet, loopVars>>

CaptureRead(p) ==
    /\ pc[p] = "captureRead"
    /\ snap' = [snap EXCEPT ![p] = @ \cap ledger]
    /\ Go(p, IF p \in Hooks /\ snap[p] \cap ledger = {} THEN "empty"
             ELSE "lease")
    /\ UNCHANGED <<filesVars, ledger, marked, stamp, lease, mutex, file,
                   scanVars, prior, quiet, loopVars>>

(* writeHonestDrainStamp, first half: under the mutation lock, look whether *)
(* the ledger is empty.                                                     *)
ReadForStamp(p, from, to) ==
    /\ pc[p] = from
    /\ Go(p, to)
    /\ Mutex!Acquire(p)
    /\ quiet' = [quiet EXCEPT ![p] = (ledger = {})]
    /\ UNCHANGED <<filesVars, ledger, marked, stamp, lease, file, snap,
                   scanVars, prior, loopVars>>

(* Second half: publish.  Events may have been written in between. *)
WriteStamp(p, from, to, age, flight) ==
    /\ pc[p] = from
    /\ Go(p, to)
    /\ stamp' = [age |-> age, flight |-> flight]
    /\ Mutex!Release(p)
    /\ quiet' = [quiet EXCEPT ![p] = FALSE]
    /\ UNCHANGED <<filesVars, ledger, marked, lease, file, snap, scanVars,
                   prior, loopVars>>

(* An empty snapshot: refresh the stamp, unless an event has come by now. *)
EmptyRead(p) == ReadForStamp(p, "empty", "emptyWrite")

EmptyWrite(p) ==
    \/ quiet[p] /\ WriteStamp(p, "emptyWrite", "check", "recent", FALSE)
    \/ /\ ~quiet[p] /\ pc[p] = "emptyWrite"
       /\ Sleep(p, FALSE)
       /\ Mutex!Release(p)
       /\ UNCHANGED <<filesVars, ledger, marked, stamp, lease, file, attempt>>

TakeLease(p) ==
    /\ pc[p] = "lease"
    /\ Go(p, IF p \in Hooks THEN "inFlight" ELSE "detect")
    /\ Lease!Acquire(p)
    /\ UNCHANGED <<filesVars, ledger, marked, stamp, mutex, file,
                   callVars, loopVars>>

(* Mutant: a drain leaves the work to whoever holds the lease. *)
BusyEnds(p) ==
    /\ pc[p] = "lease" /\ lease # {}
    /\ Go(p, "ended") /\ Forget(p)
    /\ UNCHANGED <<filesVars, ledger, marked, stamp, lease, mutex, file,
                   loopVars>>

(* `busy`: a drain sleeps and tries again, the others return it. *)
Busy(p) ==
    /\ pc[p] = "lease" /\ lease # {}
    /\ IF p \in Hooks THEN Sleep(p, TRUE)
       ELSE Go(p, "ended") /\ Forget(p) /\ UNCHANGED slept
    /\ UNCHANGED <<filesVars, ledger, marked, stamp, lease, mutex, file,
                   attempt>>

-----------------------------------------------------------------------------
(* The scan. *)

(* The age of a stamp that keeps the generated_at that was read, or now. *)
Kept(p) == IF prior[p].age = "none" THEN "recent" ELSE prior[p].age

(* onLeaseAcquired: the in-flight stamp of a drain. *)
InFlightRead(p)  == ReadForStamp(p, "inFlight", "inFlightWrite")
InFlightWrite(p) == WriteStamp(p, "inFlightWrite", "detect", Kept(p), TRUE)

(* Mutant: the captured paths are not forced into the walk. *)
DetectByHash(p) ==
    /\ pc[p] = "detect"
    /\ walk' = [walk EXCEPT ![p] = {f \in File : disk[f] # hash[f]}]
    /\ Go(p, IF \A f \in File : disk[f] = hash[f] THEN "hash" ELSE "analyse")
    /\ UNCHANGED <<filesVars, ledger, marked, stamp, lease, mutex, file, snap,
                   new, prior, quiet, loopVars>>

(* The walk: what the hashes show changed, and the captured paths; every    *)
(* file in a full scan, which selectScanMode may ask for at any time.  A    *)
(* scan with nothing to walk only saves the hashes (noop).                  *)
Detect(p) ==
    /\ pc[p] = "detect"
    /\ \/ LET changed == {f \in File : disk[f] # hash[f]} \cup Dirty(snap[p]) IN
          /\ walk' = [walk EXCEPT ![p] = changed]
          /\ Go(p, IF changed = {} THEN "hash" ELSE "analyse")
       \/ /\ walk' = [walk EXCEPT ![p] = File]
          /\ Go(p, "wipe")
    /\ UNCHANGED <<filesVars, ledger, marked, stamp, lease, mutex, file, snap,
                   new, prior, quiet, loopVars>>

(* clearStorage: a full scan deletes the stored graph before it has a new   *)
(* one, if it can; the hashes stay.                                         *)
Wipe(p) ==
    /\ pc[p] = "wipe"
    /\ graph' = Nowhere \/ (Errors /\ graph' = graph)
    /\ Go(p, "analyse")
    /\ UNCHANGED <<disk, hash, unstored, ledger, marked, stamp, lease, mutex,
                   file, callVars, loopVars>>

(* Phases 1 to 4: the files walked are read, now, but for those that cannot *)
(* be (one, or all if the analysis fails), which is not held against the    *)
(* scan; the rest is taken over from the stored graph.                      *)
Analyse(p) ==
    /\ pc[p] = "analyse"
    /\ \E unread \in SUBSET walk[p] :
          /\ unread = {} \/ Errors
          /\ new' = [new EXCEPT ![p] =
                       [f \in File |-> IF f \in unread THEN 0
                                      ELSE IF f \in walk[p] THEN disk[f]
                                      ELSE graph[f]]]
    /\ Go(p, "store")
    /\ UNCHANGED <<filesVars, ledger, marked, stamp, lease, mutex, file, snap,
                   walk, prior, quiet, loopVars>>

(* The store is rewritten in place: first it is truncated.  If it cannot be *)
(* opened, the failure is swallowed and the scan goes on.                   *)
Truncate(p) ==
    /\ pc[p] = "store"
    /\ \/ Go(p, "fill") /\ graph' = Nowhere /\ UNCHANGED <<unstored, scanVars>>
       \/ /\ Errors /\ Go(p, "hash") /\ Scanned(p)
          /\ unstored' = unstored \cup walk[p] /\ UNCHANGED graph
    /\ UNCHANGED <<disk, hash, ledger, marked, stamp, lease, mutex, file, snap,
                   prior, quiet, loopVars>>

(* Then it is filled; a failure of this is swallowed as well.               *)
Store(p) ==
    /\ pc[p] = "fill"
    /\ Go(p, "hash") /\ Scanned(p)
    /\ \/ /\ graph' = new[p]
          /\ unstored' = (unstored \ walk[p]) \cup {f \in File : new[p][f] = 0}
       \/ Errors /\ unstored' = File /\ UNCHANGED graph
    /\ UNCHANGED <<disk, hash, ledger, marked, stamp, lease, mutex, file, snap,
                   prior, quiet, loopVars>>

(* computeFileHashes hashes what is on disk NOW, for all files. *)
SaveHashes(p) ==
    /\ pc[p] = "hash"
    /\ hash' = disk
    /\ Go(p, IF p \in Scans THEN "release" ELSE "clear")
    /\ UNCHANGED <<disk, graph, unstored, ledger, marked, stamp, lease, mutex,
                   file, callVars, loopVars>>

-----------------------------------------------------------------------------
(* reconcileClean, before the lease is released. *)

(* Mutant: the ledger is captured after the scan, not before it. *)
ClearBeginLate(p) ==
    /\ pc[p] = "clear"
    /\ Go(p, "clearing")
    /\ Mutex!Acquire(p)
    /\ snap' = [snap EXCEPT ![p] = ledger]
    /\ UNCHANGED <<filesVars, ledger, marked, stamp, lease, file, scanVars,
                   prior, quiet, loopVars>>

(* clearDirtySnapshot: the captured event files are unlinked one by one. *)
ClearBegin(p) ==
    /\ pc[p] = "clear"
    /\ Go(p, "clearing")
    /\ Mutex!Acquire(p)
    /\ UNCHANGED <<filesVars, ledger, marked, stamp, lease, file,
                   callVars, loopVars>>

ClearOne(p) ==
    /\ pc[p] = "clearing"
    /\ \E e \in snap[p] \cap ledger : ledger' = ledger \ {e}
    /\ UNCHANGED <<filesVars, marked, stamp, lease, mutex, pc, file,
                   callVars, loopVars>>

(* Then the stamp is read, for the generated_at to keep if events have come. *)
ClearEnd(p) ==
    /\ pc[p] = "clearing" /\ snap[p] \cap ledger = {}
    /\ Go(p, "done")
    /\ Mutex!Release(p)
    /\ prior' = [prior EXCEPT ![p] = stamp]
    /\ UNCHANGED <<filesVars, ledger, marked, stamp, lease, file, snap,
                   scanVars, quiet, loopVars>>

(* Mutant: the in-flight flag is taken over from the stamp that was read. *)
DoneWriteOver(p) ==
    WriteStamp(p, "doneWrite", "release", "recent", prior[p].flight)

DoneRead(p) == ReadForStamp(p, "done", "doneWrite")
DoneWrite(p) ==
    WriteStamp(p, "doneWrite", "release",
               IF quiet[p] THEN "recent" ELSE Kept(p), FALSE)

Release(p) ==
    /\ pc[p] = "release"
    /\ Go(p, "check")
    /\ Lease!Release(p)
    /\ Forget(p)
    /\ UNCHANGED <<filesVars, ledger, marked, stamp, mutex, file, loopVars>>

-----------------------------------------------------------------------------
(* drainUntilClean. *)

(* A scan or a refresh returns.  A drain that scanned, or found nothing to  *)
(* scan, reads the ledger again.                                            *)
Check(p) ==
    /\ pc[p] = "check"
    /\ IF ledger = {} \/ p \notin Hooks
       THEN Go(p, "ended") /\ Forget(p) /\ UNCHANGED slept
       ELSE Sleep(p, FALSE)
    /\ UNCHANGED <<filesVars, ledger, marked, stamp, lease, mutex, file,
                   attempt>>

(* Mutant: one attempt too many. *)
WakeOnceMore(p) ==
    /\ pc[p] = "sleep" /\ slept[p]
    /\ Go(p, IF attempt[p] > MaxAttempts THEN "gaveUp" ELSE "prior")
    /\ slept' = [slept EXCEPT ![p] = FALSE]
    /\ UNCHANGED <<filesVars, ledger, marked, stamp, lease, mutex, file,
                   callVars, attempt>>

Wake(p) ==
    /\ pc[p] = "sleep" /\ slept[p]
    /\ Go(p, IF attempt[p] = MaxAttempts THEN "gaveUp" ELSE "prior")
    /\ slept' = [slept EXCEPT ![p] = FALSE]
    /\ UNCHANGED <<filesVars, ledger, marked, stamp, lease, mutex, file,
                   callVars, attempt>>

(* As much time passes as a debounce window is long (minIntervalMs): what   *)
(* was recent is old, and who slept for a window is rested.                 *)
Aged(s) == [s EXCEPT !.age = IF @ = "recent" THEN "old" ELSE @]
Tick ==
    /\ stamp.age = "recent" \/ \E p \in Proc : pc[p] = "sleep" /\ ~slept[p]
    /\ stamp' = Aged(stamp)
    /\ prior' = [p \in Proc |-> Aged(prior[p])]
    /\ slept' = [p \in Proc |-> slept[p] \/ pc[p] = "sleep"]
    /\ UNCHANGED <<filesVars, ledger, marked, lease, mutex, pc, file, snap,
                   scanVars, quiet, attempt>>

-----------------------------------------------------------------------------
(* Failures. *)

ScanPoints == {"inFlight", "inFlightWrite", "detect", "wipe", "analyse",
               "store", "fill", "hash", "clear", "clearing", "done", "doneWrite"}
StampPoints == {"failStamp", "failWrite"}

(* p has emptied the store of f, and has yet to fill it. *)
Emptied(p, f) ==
    graph[f] = 0 /\ (pc[p] = "fill" \/ (pc[p] \in {"analyse", "store"} /\ f \in walk[p]))
(* What a scan that stops now has taken out of the store. *)
Cut(p) == unstored' = unstored \cup {f \in File : Emptied(p, f)}

(* The scan throws, a file cannot be written, or the mutation lock is not   *)
(* had in time.  A drain then settles its stamp, if it can, before the      *)
(* lease is released (onLeaseFailureBeforeRelease).                         *)
Throw(p) ==
    /\ Errors
    /\ \/ pc[p] \in ScanPoints
          /\ Go(p, IF p \in Hooks THEN "failStamp" ELSE "failRelease")
       \/ pc[p] \in StampPoints /\ Go(p, "failRelease")
       \/ pc[p] \in {"empty", "emptyWrite"} /\ Go(p, "failed")
    /\ mutex' = mutex \ {p}
    /\ Cut(p) /\ Scanned(p)
    /\ UNCHANGED <<disk, graph, hash, ledger, marked, stamp, lease, file, snap,
                   prior, quiet, loopVars>>

FailRead(p)  == ReadForStamp(p, "failStamp", "failWrite")
FailWrite(p) == WriteStamp(p, "failWrite", "failRelease", Kept(p), FALSE)

FailRelease(p) ==
    /\ pc[p] = "failRelease"
    /\ Go(p, "failed")
    /\ Lease!Release(p)
    /\ Forget(p)
    /\ UNCHANGED <<filesVars, ledger, marked, stamp, mutex, file, loopVars>>

(* The process is killed; its locks are reclaimed. *)
Crash(p) ==
    /\ Crashes /\ pc[p] \notin {"idle"} \cup Gone
    /\ Go(p, "dead")
    /\ lease' = lease \ {p} /\ mutex' = mutex \ {p}
    /\ Cut(p)
    /\ Forget(p)
    /\ attempt' = [attempt EXCEPT ![p] = 0]
    /\ slept' = [slept EXCEPT ![p] = FALSE]
    /\ UNCHANGED <<disk, graph, hash, ledger, marked, stamp, file>>

-----------------------------------------------------------------------------
Step(p) ==
    \/ WriteEvent(p) \/ RefreshRead(p) \/ RefreshWrite(p)
    \/ ReadPrior(p) \/ CaptureList(p) \/ CaptureRead(p)
    \/ EmptyRead(p) \/ EmptyWrite(p) \/ TakeLease(p) \/ Busy(p)
    \/ InFlightRead(p) \/ InFlightWrite(p)
    \/ Detect(p) \/ Wipe(p) \/ Analyse(p) \/ Truncate(p) \/ Store(p)
    \/ SaveHashes(p)
    \/ ClearBegin(p) \/ ClearOne(p) \/ ClearEnd(p)
    \/ DoneRead(p) \/ DoneWrite(p) \/ Release(p)
    \/ Check(p) \/ Wake(p)
    \/ FailRead(p) \/ FailWrite(p) \/ FailRelease(p)

Next == \/ Tick
        \/ \E p \in Proc : \/ Edit(p) \/ Begin(p) \/ Step(p)
                           \/ Throw(p) \/ Crash(p)

Spec == Init /\ [][Next]_vars

(* A live process goes on, a lock that is free is had in the end (its       *)
(* waiters poll), and time passes.                                          *)
FairSpec ==
    Spec /\ WF_vars(Tick) /\ \A p \in Proc : SF_vars(Step(p))
-----------------------------------------------------------------------------
Points == {"idle", "event", "refresh", "refreshWrite", "prior", "capture",
           "captureRead", "empty", "emptyWrite", "lease", "failRelease",
           "release", "check", "sleep"} \cup ScanPoints \cup StampPoints \cup Gone

(* Types, and who holds the locks where. *)
TypeOK ==
    /\ disk \in [File -> Nat] /\ graph \in [File -> Nat]
    /\ hash \in [File -> Nat] /\ marked \in [File -> Nat]
    /\ unstored \in SUBSET File
    /\ ledger \in SUBSET Event
    /\ stamp \in Stamp
    /\ lease \in SUBSET Proc /\ mutex \in SUBSET Proc
    /\ pc \in [Proc -> Points]
    /\ file \in [Hooks -> File]
    /\ snap \in [Proc -> SUBSET Event]
    /\ walk \in [Proc -> SUBSET File]
    /\ new \in [Proc -> [File -> Nat]]
    /\ prior \in [Proc -> Stamp]
    /\ quiet \in [Proc -> BOOLEAN]
    /\ attempt \in [Proc -> 0..MaxAttempts]
    /\ slept \in [Proc -> BOOLEAN]

(* The stored graph has nothing of f, or not what was read last: a scan is  *)
(* rewriting the store; or one was stopped while it did, could not write    *)
(* it, or could not read f, and none has stored f since.                    *)
Unstored(f) == f \in unstored \/ \E p \in Proc : Emptied(p, f)

(* An event leaves the ledger only once the graph has what it stands for:   *)
(* a file that no event names is in the graph at least as new as its last   *)
(* committed mark, whatever was marked during a scan, and whoever was       *)
(* killed, failed or overlapped, unless a failure has left the file         *)
(* unstored, and none was noticed.  Only then is an empty ledger over a     *)
(* stale graph.                                                             *)
ClearedOnceScanned ==
    \A f \in File :
        f \notin Dirty(ledger) => graph[f] >= marked[f] \/ Unstored(f)

(* No edit is forgotten: a file whose graph is behind the disk differs from *)
(* its saved hash, or has an event, or its hook has still to write one (it  *)
(* may have been killed before), or a failure has left it unstored: then    *)
(* the ledger and the hashes may both say that there is nothing to scan.    *)
NothingForgotten ==
    \A f \in File : graph[f] # disk[f] =>
        \/ hash[f] # disk[f]
        \/ f \in Dirty(ledger)
        \/ \E p \in Hooks : file[p] = f /\ pc[p] \in {"event", "dead"}
        \/ Unstored(f)

(* A drain that ends well, as settled, leaves no event of its own hook      *)
(* behind, however many drains were debounced or found the lease busy       *)
(* ("loops past those states until the ledger is actually empty").          *)
OwnEditDrained ==
    \A p \in Hooks : pc[p] = "ended" => \A e \in ledger : e.by # p

(* The stamp says that a scan is in flight only while a drain is at it, or  *)
(* because a drain was killed or could not settle its stamp: a delayed      *)
(* stamp refresh does not bring the flag back.                              *)
FlightHasACause ==
    stamp.flight =>
        \E p \in Hooks : pc[p] \in ScanPoints \cup StampPoints
                                   \cup {"failRelease", "failed", "dead"}

(* "scan_in_flight: true while a drain is running" (living-architecture.md) *)
(* and "a clean read state needs it to be false": while a drain's scan is   *)
(* rewriting the store, the stamp shows it.                                 *)
FlightShown ==
    \A p \in Hooks :
        pc[p] \in {"detect", "wipe", "analyse", "store", "fill", "hash"}
            => stamp.flight

(* An edit that was marked is drained in the end: the event of a hook that  *)
(* is not killed leaves the ledger, unless its drain used up its attempts.  *)
(* Nobody waits for ever on the lease or the mutation lock, and a debounced *)
(* or busy attempt is not the last word ("trailing-edge guarantee").        *)
EditDrained ==
    \A p \in Hooks :
        (\E e \in ledger : e.by = p)
            ~> (pc[p] = "gaveUp" \/ \A e \in ledger : e.by # p)
=============================================================================
