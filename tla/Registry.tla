------------------------------ MODULE Registry ------------------------------
(***************************************************************************)
(* The project registry ~/.navgator/projects.json and its writers          *)
(* (projects.ts, registry-lock.ts, and their twins in web/lib/server).     *)
(*                                                                         *)
(* A mutation loads the registry, applies a closure to it, compares the    *)
(* revision on disk with the one it loaded and, if they agree, replaces    *)
(* the file; on a mismatch it journals a conflict and replays the closure. *)
(* Around that stand an in-process queue and a lock file that is created   *)
(* exclusively, has no heartbeat, is stolen once it is old, and is done    *)
(* without when the budget is spent or the file system refuses it.         *)
(*                                                                         *)
(* A CALLER makes one mutation.  Callers of one process share its queue.   *)
(* Each file operation is a step.  Clock and budget are steps too: the     *)
(* lock file may get old, and a waiter's budget may end, at any time.  Of  *)
(* an entry the model keeps how often it was scanned and whether it was    *)
(* patched.  Clock skew is left out, and so are the journal's own files    *)
(* and writers that predate the lock.                                      *)
(***************************************************************************)
EXTENDS Naturals

CONSTANTS
    Caller, Process,
    ProcOf,       \* the process of each caller
    Path,
    Ops,          \* the mutations asked for
    MaxAttempts,  \* MAX_CAS_ATTEMPTS, 5 in the code
    None,         \* no lock file
    FsErrors,     \* TRUE if the file system may fail an operation, or a read
    Crashes       \* TRUE if a process may be killed

Op == [kind : {"register", "update", "add", "remove"}, paths : SUBSET Path]

ASSUME HomeAssumption == ProcOf \in [Caller -> Process]
ASSUME OpAssumption == Ops \subseteq Op
ASSUME AttemptsAssumption == MaxAttempts \in Nat
ASSUME TokenAssumption == "" \notin Caller   \* a token is eight random bytes
ASSUME FaultAssumption == FsErrors \in BOOLEAN /\ Crashes \in BOOLEAN

VARIABLES
    reg,       \* projects.json: [rev, projects]
    lock,      \* projects.json.lock: None or [owner, written, aged]
    pc, op,    \* where each caller is, and the mutation it makes
    held,      \* it created the lock file
    expired,   \* its acquire budget is spent
    seen,      \* the lock record stealIfStale judged
    have,      \* the registry it loaded
    attempt,   \* conflicts it met
    truth,     \* (history) the projects, had each write been made alone
    scans,     \* (history) how often each path was registered
    trace      \* (history) what has happened: [overlapped, breached, recorded,
               \* misled]

lockVars == <<lock, held, expired, seen>>
dataVars == <<reg, have, attempt>>
histVars == <<truth, scans, trace>>
vars == <<dataVars, lockVars, histVars, pc, op>>

Entry    == [scans : Nat, patched : BOOLEAN]
Lock     == [owner : Caller, written : BOOLEAN, aged : BOOLEAN]
ASSUME NoneAssumption == None \notin Caller \cup Lock

Waiting == {"create", "budget", "judge", "stat", "confirm", "steal"}
Section == {"load", "check", "commit"}
Over    == {"done", "dead"}
(* Those that may think the lock is theirs. *)
Holders == {c \in Caller : held[c] /\ pc[c] \in {"write"} \cup Section}
(* Those that have loaded a registry they may yet write back. *)
Writers == {c \in Caller : pc[c] \in {"check", "commit"}}

Go(c, l) == pc' = [pc EXCEPT ![c] = l]

NoRegistry == [rev |-> 0, projects |-> [p \in {} |-> 0]]

(* What a read of the registry returns: of a file that is missing, that is  *)
(* no JSON, or that cannot be read, an empty registry of revision 0.        *)
Readings == {reg} \cup (IF FsErrors THEN {NoRegistry} ELSE {})
(* A caller that loaded none goes on to write over the one there is. *)
Blind(c) == have[c] = NoRegistry /\ reg # NoRegistry

(* What the lock file holds: its token, or "" when its record has not been  *)
(* written; and what a read of it may return.                               *)
Content == IF lock = None THEN {}
           ELSE IF lock.written THEN {lock.owner} ELSE {""}
Contents == {Content} \cup (IF FsErrors THEN {{}} ELSE {})

(* The closures of registerProject, updateProjectMeta, addProject of the    *)
(* web route, and of removeProject and pruneProjects.                       *)
Fresh(kind) == [scans   |-> IF kind = "register" THEN 1 ELSE 0,
                patched |-> kind = "update"]
Touch(kind, e) ==
    CASE kind = "register" -> [e EXCEPT !.scans = @ + 1]
      [] kind = "update"   -> [e EXCEPT !.patched = TRUE]
      [] OTHER             -> e
Apply(o, ps) ==
    IF o.kind = "remove" THEN [p \in DOMAIN ps \ o.paths |-> ps[p]]
    ELSE [p \in DOMAIN ps \cup o.paths |->
            IF p \notin o.paths THEN ps[p]
            ELSE IF p \in DOMAIN ps THEN Touch(o.kind, ps[p])
            ELSE Fresh(o.kind)]
Commits(o, ps) ==
    CASE o.kind = "add"    -> o.paths \cap DOMAIN ps = {}
      [] o.kind = "remove" -> o.paths \cap DOMAIN ps # {}
      [] OTHER             -> TRUE

Init ==
    /\ reg \in [rev : {0},
                projects : UNION {[S -> {Fresh("register")}] : S \in SUBSET Path}]
    /\ lock = None
    /\ pc = [c \in Caller |-> "idle"]
    /\ op \in [Caller -> Ops]
    /\ held = [c \in Caller |-> FALSE]
    /\ expired = [c \in Caller |-> FALSE]
    /\ seen = [c \in Caller |-> {}]
    /\ have = [c \in Caller |-> NoRegistry]
    /\ attempt = [c \in Caller |-> 0]
    /\ truth = reg.projects
    /\ scans = [p \in Path |-> IF p \in DOMAIN truth THEN 1 ELSE 0]
    /\ trace = [overlapped |-> FALSE, breached |-> FALSE, recorded |-> FALSE,
                misled |-> FALSE]

-----------------------------------------------------------------------------
(* acquireRegistryLock. *)

(* Mutant: there is no queue. *)
BeginAtOnce(c) ==
    /\ pc[c] = "idle"
    /\ Go(c, "create")
    /\ UNCHANGED <<dataVars, lockVars, histVars, op>>

(* The queue of the process lets one mutation in. *)
Begin(c) ==
    /\ pc[c] = "idle"
    /\ \A d \in Caller \ {c} :
          ProcOf[d] = ProcOf[c] => pc[d] \in {"idle"} \cup Over
    /\ Go(c, "create")
    /\ UNCHANGED <<dataVars, lockVars, histVars, op>>

(* It goes on without the lock. *)
FailOpen(c) ==
    /\ Go(c, "load")
    /\ trace' = [trace EXCEPT !.breached = TRUE]

(* Mutant: open(w), which replaces what is there. *)
TryCreateOver(c) ==
    /\ pc[c] = "create"
    /\ lock' = [owner |-> c, written |-> FALSE, aged |-> FALSE]
    /\ held' = [held EXCEPT ![c] = TRUE]
    /\ Go(c, "write")
    /\ UNCHANGED <<dataVars, expired, seen, histVars, op>>

(* tryCreate: open(wx), which is exclusive. *)
TryCreate(c) ==
    /\ pc[c] = "create"
    /\ \/ /\ lock = None
          /\ lock' = [owner |-> c, written |-> FALSE, aged |-> FALSE]
          /\ held' = [held EXCEPT ![c] = TRUE]
          /\ Go(c, "write") /\ UNCHANGED trace
       \/ lock # None /\ Go(c, "budget") /\ UNCHANGED <<lock, held, trace>>
       \/ FsErrors /\ FailOpen(c) /\ UNCHANGED <<lock, held>>
    /\ UNCHANGED <<dataVars, expired, seen, truth, scans, op>>

(* The record goes into the file this caller opened, which may be unlinked  *)
(* by now; a failed write leads to an unlink of whatever is there.          *)
WriteRecord(c) ==
    /\ pc[c] = "write"
    /\ \/ /\ Go(c, "load")
          /\ lock' = IF lock # None /\ lock.owner = c
                     THEN [lock EXCEPT !.written = TRUE] ELSE lock
       \/ FsErrors /\ Go(c, "undo") /\ UNCHANGED lock
    /\ UNCHANGED <<dataVars, held, expired, seen, histVars, op>>

(* The lock file goes; worse if somebody holds it. *)
UnlinkLock(c, worse) ==
    /\ lock' = None
    /\ trace' = [trace EXCEPT !.breached =
                    @ \/ worse \/ (lock # None /\ lock.owner \in Holders \ {c})]

UndoCreate(c) ==
    /\ pc[c] = "undo"
    /\ Go(c, "load")
    /\ held' = [held EXCEPT ![c] = FALSE]
    /\ UnlinkLock(c, TRUE)
    /\ UNCHANGED <<dataVars, expired, seen, truth, scans, op>>

(* The time is looked at here only. *)
Expire(c) ==
    /\ pc[c] = "budget" /\ ~expired[c]
    /\ expired' = [expired EXCEPT ![c] = TRUE]
    /\ UNCHANGED <<dataVars, lock, held, seen, histVars, pc, op>>

(* Mutant: a waiter has no budget. *)
BudgetNone(c) ==
    /\ pc[c] = "budget"
    /\ Go(c, "judge")
    /\ UNCHANGED <<dataVars, lockVars, histVars, op>>

Budget(c) ==
    /\ pc[c] = "budget"
    /\ IF expired[c] THEN FailOpen(c) ELSE Go(c, "judge") /\ UNCHANGED trace
    /\ expired' = [expired EXCEPT ![c] = FALSE]
    /\ UNCHANGED <<dataVars, lock, held, seen, truth, scans, op>>

(* LOCK_STALE_MS pass. *)
Age ==
    /\ lock # None /\ ~lock.aged
    /\ lock' = [lock EXCEPT !.aged = TRUE]
    /\ UNCHANGED <<dataVars, held, expired, seen, histVars, pc, op>>

-----------------------------------------------------------------------------
(* stealIfStale. *)

(* The record's own age is looked at first; without a record, the file's.   *)
Judge(c) ==
    /\ pc[c] = "judge"
    /\ \E now \in Contents :
         IF now \notin {{}, {""}} /\ ~lock.aged
         THEN Go(c, "create") /\ UNCHANGED seen
         ELSE /\ seen' = [seen EXCEPT ![c] = now]
              /\ Go(c, IF now \in {{}, {""}} THEN "stat" ELSE "confirm")
    /\ UNCHANGED <<dataVars, lock, held, expired, histVars, op>>

JudgeStat(c) ==
    /\ pc[c] = "stat"
    /\ \/ lock # None /\ lock.aged /\ Go(c, "confirm") /\ UNCHANGED seen
       \/ /\ FsErrors \/ ~(lock # None /\ lock.aged)
          /\ Go(c, "create") /\ seen' = [seen EXCEPT ![c] = {}]
    /\ UNCHANGED <<dataVars, lock, held, expired, histVars, op>>

(* Mutant: the second read is not compared with the first. *)
ConfirmThere(c) ==
    /\ pc[c] = "confirm"
    /\ Go(c, IF lock # None THEN "steal" ELSE "create")
    /\ UNCHANGED <<dataVars, lockVars, histVars, op>>

(* The second read must find what the first found, if that found a file. *)
Confirm(c) ==
    /\ pc[c] = "confirm"
    /\ \E now \in Contents :
         Go(c, IF now # {} /\ seen[c] \in {{}, now} THEN "steal" ELSE "create")
    /\ seen' = [seen EXCEPT ![c] = {}]
    /\ UNCHANGED <<dataVars, lock, held, expired, histVars, op>>

Steal(c) ==
    /\ pc[c] = "steal"
    /\ Go(c, "create")
    /\ UnlinkLock(c, FALSE)
    /\ UNCHANGED <<dataVars, held, expired, seen, truth, scans, op>>

-----------------------------------------------------------------------------
(* mutateRegistry, under the lock or without it. *)

(* Mutant: a writer that has lost its last comparison compares again. *)
LoadCompare(c) ==
    /\ pc[c] = "load"
    /\ have' = [have EXCEPT ![c] = reg]
    /\ Go(c, IF ~Commits(op[c], reg.projects) THEN "release" ELSE "check")
    /\ trace' = [trace EXCEPT !.overlapped =
                    @ \/ \E d \in Writers : ProcOf[d] # ProcOf[c]]
    /\ UNCHANGED <<reg, attempt, lockVars, truth, scans, op>>

(* loadRegistry, and the closure on what it returns.  After the last        *)
(* conflict the revisions are not compared.                                 *)
Load(c) ==
    /\ pc[c] = "load"
    /\ \E now \in Readings :
         LET commits == Commits(op[c], now.projects)
             last    == attempt[c] = MaxAttempts IN
         /\ have' = [have EXCEPT ![c] = IF commits THEN now ELSE NoRegistry]
         /\ Go(c, IF ~commits THEN "release" ELSE IF last THEN "commit" ELSE "check")
         /\ trace' = [trace EXCEPT
                !.overlapped = @ \/ \E d \in Writers : ProcOf[d] # ProcOf[c],
                !.misled = @ \/ (commits /\ last /\ now # reg)]
    /\ UNCHANGED <<reg, attempt, lockVars, truth, scans, op>>

(* Mutant: a conflict is replayed on what the closure has already changed. *)
CheckReplay(c) ==
    /\ pc[c] = "check"
    /\ IF reg.rev = have[c].rev
       THEN Go(c, "commit") /\ UNCHANGED <<have, attempt, trace>>
       ELSE /\ attempt' = [attempt EXCEPT ![c] = @ + 1]
            /\ have' = [have EXCEPT ![c] =
                  [rev |-> reg.rev, projects |-> Apply(op[c], @.projects)]]
            /\ trace' = [trace EXCEPT !.recorded = TRUE]
            /\ Go(c, "commit")
    /\ UNCHANGED <<reg, lockVars, truth, scans, op>>

(* readDiskRevision: a mismatch is journaled, and all is done again. *)
Check(c) ==
    /\ pc[c] = "check"
    /\ \E now \in Readings :
         IF now.rev = have[c].rev
         THEN /\ Go(c, "commit") /\ UNCHANGED attempt
              /\ trace' = [trace EXCEPT !.misled = @ \/ Blind(c)]
         ELSE /\ attempt' = [attempt EXCEPT ![c] = @ + 1]
              /\ trace' = [trace EXCEPT !.recorded = TRUE]
              /\ Go(c, "load")
    /\ UNCHANGED <<reg, have, lockVars, truth, scans, op>>

(* writeRegistry: one rename, and a journal record that says whether the    *)
(* lock was held.  It may throw.                                            *)
Commit(c) ==
    /\ pc[c] = "commit"
    /\ Go(c, "release")
    /\ \/ /\ reg' = [rev      |-> have[c].rev + 1,
                     projects |-> Apply(op[c], have[c].projects)]
          /\ truth' = Apply(op[c], truth)
          /\ scans' = [p \in Path |->
                 IF op[c].kind = "register" /\ p \in op[c].paths
                 THEN scans[p] + 1 ELSE scans[p]]
          /\ trace' = [trace EXCEPT !.recorded = @ \/ ~held[c]]
       \/ FsErrors /\ UNCHANGED <<reg, histVars>>
    /\ have' = [have EXCEPT ![c] = NoRegistry]
    /\ UNCHANGED <<attempt, lockVars, op>>

(* release: the file is read, and unlinked if it is this caller's. *)
ReleaseRead(c) ==
    /\ pc[c] = "release"
    /\ \E now \in Contents : Go(c, IF held[c] /\ now = {c} THEN "drop" ELSE "done")
    /\ held' = [held EXCEPT ![c] = FALSE]
    /\ attempt' = [attempt EXCEPT ![c] = 0]
    /\ UNCHANGED <<reg, have, lock, expired, seen, histVars, op>>

Drop(c) ==
    /\ pc[c] = "drop"
    /\ Go(c, "done")
    /\ UnlinkLock(c, FALSE) \/ (FsErrors /\ UNCHANGED <<lock, trace>>)
    /\ UNCHANGED <<dataVars, held, expired, seen, truth, scans, op>>

(* A process is killed; its lock file stays. *)
Crash(r) ==
    /\ Crashes
    /\ \E c \in Caller : ProcOf[c] = r /\ pc[c] \notin Over \cup {"idle"}
    /\ pc' = [c \in Caller |->
                IF ProcOf[c] = r /\ pc[c] # "done" THEN "dead" ELSE pc[c]]
    /\ UNCHANGED <<reg, lock, histVars, op>>
    /\ held' = [c \in Caller |-> held[c] /\ ProcOf[c] # r]
    /\ expired' = [c \in Caller |-> expired[c] /\ ProcOf[c] # r]
    /\ seen' = [c \in Caller |-> IF ProcOf[c] = r THEN {} ELSE seen[c]]
    /\ have' = [c \in Caller |->
                  IF ProcOf[c] = r THEN NoRegistry ELSE have[c]]
    /\ attempt' = [c \in Caller |-> IF ProcOf[c] = r THEN 0 ELSE attempt[c]]

-----------------------------------------------------------------------------
Step(c) ==
    \/ TryCreate(c) \/ WriteRecord(c) \/ UndoCreate(c) \/ Budget(c)
    \/ Judge(c) \/ JudgeStat(c) \/ Confirm(c) \/ Steal(c)
    \/ Load(c) \/ Check(c) \/ Commit(c) \/ ReleaseRead(c) \/ Drop(c)

Next == \/ Age
        \/ \E r \in Process : Crash(r)
        \/ \E c \in Caller : Begin(c) \/ Expire(c) \/ Step(c)

Spec == Init /\ [][Next]_vars

(* A live process goes on, and a budget ends.  A queue need not let the next *)
(* one in.                                                                   *)
FairSpec ==
    Spec /\ \A c \in Caller : WF_vars(Step(c)) /\ SF_vars(Expire(c))
-----------------------------------------------------------------------------
Projects(ps) == DOMAIN ps \subseteq Path /\ ps \in [DOMAIN ps -> Entry]
Loaded(r)    == r.rev \in Nat /\ Projects(r.projects)

(* Types, and the bound on the replays. *)
TypeOK ==
    /\ Loaded(reg) /\ Projects(truth)
    /\ lock = None \/ lock \in Lock
    /\ pc \in [Caller -> {"idle", "write", "undo", "release", "drop"}
                            \cup Waiting \cup Section \cup Over]
    /\ op \in [Caller -> Ops]
    /\ held \in [Caller -> BOOLEAN] /\ expired \in [Caller -> BOOLEAN]
    /\ seen \in [Caller -> {{}, {""}} \cup {{c} : c \in Caller}]
    /\ DOMAIN have = Caller /\ \A c \in Caller : Loaded(have[c])
    /\ attempt \in [Caller -> 0..MaxAttempts]
    /\ scans \in [Path -> Nat]
    /\ trace \in [overlapped : BOOLEAN, breached : BOOLEAN, recorded : BOOLEAN,
                 misled : BOOLEAN]

(* A mutation is lost, or one that was removed comes back, only when two    *)
(* processes were between their load and their write at the same time, or   *)
(* a writer could not read the registry and nothing stopped it (`misled`):  *)
(* the comparison could not read it either, or there was none, or a file    *)
(* without a revision agreed with what a failed load returns.  Otherwise    *)
(* the registry is what the writes, made one after another, give; one       *)
(* failed read of a file that has a revision is caught and done again.  In  *)
(* one process the queue alone keeps writers apart, locked or not.          *)
LossNeedsOverlap == ~trace.overlapped /\ ~trace.misled => reg.projects = truth

(* And two processes overlap only after one went on without the lock (the   *)
(* budget was spent, or the file system refused it), or a live holder had   *)
(* its lock taken away.                                                     *)
OverlapNeedsBreach == trace.overlapped => trace.breached

(* "So a lock created after our staleness read is not destroyed": when      *)
(* stealIfStale turns to the unlink, the record that is there is a stale    *)
(* one (a lock file that has no record yet has only its age to judge by).   *)
StealsTheStale ==
    [][\A c \in Caller :
         pc[c] = "confirm" /\ pc'[c] = "steal" /\ seen[c] # {} =>
             lock.aged \/ ~lock.written]_vars

(* A replay counts a scan once: however writers overlap and conflicts are   *)
(* replayed, no entry counts more scans than were registered ("increments   *)
(* once off the winner's count, not twice off a stale one").                *)
ScansCountedOnce ==
    \A p \in DOMAIN reg.projects : reg.projects[p].scans <= scans[p]

(* "The compare-and-swap detects it and journals a conflict rather than     *)
(* losing an entry", and an unlocked write says so in the journal: a lost   *)
(* mutation leaves a record of a conflict or of an unlocked write.          *)
LossIsRecorded == reg.projects # truth => trace.recorded

(* A mutation ends, whatever is left of other processes' locks: a wedged    *)
(* lock cannot stop a registry write.                                       *)
MutationsEnd ==
    \A c \in Caller : pc[c] = "create" ~> pc[c] \in Over
=============================================================================
