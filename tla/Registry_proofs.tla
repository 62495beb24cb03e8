--------------------------- MODULE Registry_proofs ---------------------------
(***************************************************************************)
(* Theorems about Registry: a mutation is lost only when two processes     *)
(* overlap or a writer is misled by reads that fail, they overlap only     *)
(* when the lock was breached, what is stolen is stale, and a scan is      *)
(* counted once, for any number of callers, processes and paths, whatever  *)
(* is killed or fails.                                                     *)
(***************************************************************************)
EXTENDS Registry, TLAPS

(* Not yet the owner of a lock file, and at work. *)
Unborn == {"idle"} \cup Waiting
AtRest == {"idle"} \cup Over
Active(c) == pc[c] \notin AtRest

(* The queue lets one caller of a process in. *)
Queued ==
    \A c, d \in Caller :
        c # d /\ ProcOf[c] = ProcOf[d] => ~Active(c) \/ ~Active(d)

AttemptLeft == \A c \in Caller : pc[c] = "check" => attempt[c] < MaxAttempts

(* Unless the lock was breached, it is on disk for whoever relies on it. *)
LockIsTheirs ==
    ~trace.breached =>
        \A c \in Caller : pc[c] \in {"write"} \cup Section =>
            held[c] /\ lock # None /\ lock.owner = c

(* Unless two overlapped or one was misled, one at most has a registry to   *)
(* write back, and it is the one on disk or, still to be compared with it,  *)
(* the empty one of a load that failed.                                     *)
WritesInTurn ==
    ~trace.overlapped /\ ~trace.misled =>
        /\ reg.projects = truth
        /\ \A c \in Writers :
              have[c] = reg \/ (pc[c] = "check" /\ have[c] = NoRegistry)
        /\ \A c, d \in Writers : c = d

Counted(ps) == \A p \in DOMAIN ps : ps[p].scans <= scans[p]
AllCounted == Counted(reg.projects) /\ \A c \in Caller : Counted(have[c].projects)

(* A caller creates one lock file at most, so a token names one file: what  *)
(* was judged stale is stale if it is still there.                          *)
TokensIssued ==
    /\ lock # None => pc[lock.owner] \notin Unborn
    /\ \A c, d \in Caller : seen[c] = {d} => pc[d] \notin Unborn
JudgedStale ==
    \A c, d \in Caller :
        pc[c] = "confirm" /\ seen[c] = {d} /\ lock # None =>
            (lock.owner = d => lock.aged)

RegistryIInv ==
    /\ TypeOK /\ Queued /\ AttemptLeft /\ LockIsTheirs /\ WritesInTurn
    /\ OverlapNeedsBreach /\ AllCounted /\ TokensIssued /\ JudgedStale

-----------------------------------------------------------------------------
(* Constants, points, records. *)

LEMMA Consts ==
    /\ ProcOf \in [Caller -> Process] /\ Ops \subseteq Op /\ MaxAttempts \in Nat
    /\ None \notin Lock /\ "" \notin Caller
  BY HomeAssumption, OpAssumption, AttemptsAssumption, NoneAssumption,
     TokenAssumption
     DEF HomeAssumption, OpAssumption, AttemptsAssumption, NoneAssumption,
         TokenAssumption

LEMMA Attempts ==
    /\ 0 \in 0..MaxAttempts
    /\ \A n \in 0..MaxAttempts : n < MaxAttempts => n + 1 \in 0..MaxAttempts
<1>1. MaxAttempts \in Nat
  BY Consts
<1> QED
  BY <1>1

Points == {"idle", "write", "undo", "release", "drop"} \cup Waiting
              \cup Section \cup Over
Seen == {{}, {""}} \cup {{c} : c \in Caller}
Trace == [overlapped : BOOLEAN, breached : BOOLEAN, recorded : BOOLEAN,
          misled : BOOLEAN]

LEMMA PointSets ==
    /\ Points = {"idle", "write", "undo", "release", "drop", "create", "budget",
                 "judge", "stat", "confirm", "steal", "load", "check", "commit",
                 "done", "dead"}
    /\ Unborn = {"idle", "create", "budget", "judge", "stat", "confirm", "steal"}
    /\ AtRest = {"idle", "done", "dead"}
    /\ Section = {"load", "check", "commit"}
    /\ Over = {"done", "dead"}
  BY DEF Points, Unborn, AtRest, Waiting, Section, Over

LEMMA Unchanged ==
    UNCHANGED vars =>
        UNCHANGED <<reg, have, attempt, lock, held, expired, seen, truth, scans,
                    trace, pc, op>>
  BY DEF vars, dataVars, lockVars, histVars

LEMMA Moves ==
    ASSUME NEW c \in Caller, NEW l, TypeOK, Go(c, l)
    PROVE  /\ pc'[c] = l /\ \A d \in Caller : d # c => pc'[d] = pc[d]
           /\ l \in Points => pc' \in [Caller -> Points]
  BY DEF Go, TypeOK, Points

(* What a closure makes of the entries. *)
LEMMA TouchType ==
    ASSUME NEW kind \in {"register", "update", "add", "remove"}, NEW e \in Entry
    PROVE  /\ Touch(kind, e) \in Entry
           /\ Touch(kind, e).scans = IF kind = "register" THEN e.scans + 1 ELSE e.scans
<1>1. CASE kind = "register"
  BY <1>1 DEF Touch, Entry
<1>2. CASE kind = "update"
  BY <1>2 DEF Touch, Entry
<1>3. CASE kind \in {"add", "remove"}
  BY <1>3 DEF Touch
<1> QED
  BY <1>1, <1>2, <1>3

LEMMA FreshType ==
    ASSUME NEW kind \in {"register", "update", "add", "remove"}
    PROVE  /\ Fresh(kind) \in Entry
           /\ Fresh(kind).scans = IF kind = "register" THEN 1 ELSE 0
  BY DEF Fresh, Entry

LEMMA ApplyType ==
    ASSUME NEW o \in Op, NEW ps, Projects(ps)
    PROVE  Projects(Apply(o, ps))
<1>1. CASE o.kind = "remove"
  BY <1>1 DEF Apply, Projects, Op
<1>2. CASE o.kind # "remove"
  <2>1. \A p \in DOMAIN ps \cup o.paths :
           (IF p \notin o.paths THEN ps[p]
            ELSE IF p \in DOMAIN ps THEN Touch(o.kind, ps[p])
            ELSE Fresh(o.kind)) \in Entry
    BY TouchType, FreshType DEF Projects, Op
  <2> QED
    BY <1>2, <2>1 DEF Apply, Projects, Op
<1> QED
  BY <1>1, <1>2

(* A closure counts what the history counts. *)
LEMMA ApplyCounts ==
    ASSUME NEW o \in Op, NEW ps, Projects(ps), scans \in [Path -> Nat],
           Counted(ps), NEW p \in DOMAIN Apply(o, ps)
    PROVE  /\ p \in Path
           /\ Apply(o, ps)[p].scans <=
                IF o.kind = "register" /\ p \in o.paths
                THEN scans[p] + 1 ELSE scans[p]
<1>1. /\ o.kind \in {"register", "update", "add", "remove"} /\ o.paths \subseteq Path
      /\ DOMAIN ps \subseteq Path
      /\ \A q \in DOMAIN ps : ps[q] \in Entry /\ ps[q].scans <= scans[q]
  BY DEF Op, Projects, Counted
<1>2. CASE o.kind = "remove"
  BY <1>1, <1>2 DEF Apply
<1>3. CASE o.kind # "remove"
  <2>1. p \in DOMAIN ps \cup o.paths
    BY <1>3 DEF Apply
  <2>2. p \in Path /\ scans[p] \in Nat
    BY <1>1, <2>1
  <2>3. CASE p \notin o.paths
    BY <1>1, <1>3, <2>1, <2>2, <2>3 DEF Apply
  <2>4. CASE p \in o.paths /\ p \in DOMAIN ps
    <3>1. Apply(o, ps)[p] = Touch(o.kind, ps[p])
      BY <1>3, <2>1, <2>4 DEF Apply
    <3>2. ps[p].scans \in Nat /\ ps[p].scans <= scans[p]
      BY <1>1, <2>4 DEF Entry
    <3> QED
      BY <1>1, <2>2, <2>4, <3>1, <3>2, TouchType
  <2>5. CASE p \in o.paths /\ p \notin DOMAIN ps
    <3>1. Apply(o, ps)[p] = Fresh(o.kind)
      BY <1>3, <2>1, <2>5 DEF Apply
    <3> QED
      BY <1>1, <2>2, <2>5, <3>1, FreshType
  <2> QED
    BY <2>3, <2>4, <2>5
<1> QED
  BY <1>2, <1>3

LEMMA NoRegistryType == Loaded(NoRegistry) /\ Counted(NoRegistry.projects)
  BY DEF Loaded, NoRegistry, Projects, Counted

-----------------------------------------------------------------------------
LEMMA RegistryBegins == Init => RegistryIInv
<1> SUFFICES ASSUME Init PROVE RegistryIInv
  OBVIOUS
<1> USE DEF Init
<1>1. PICK S \in SUBSET Path : reg.projects \in [S -> {Fresh("register")}]
  OBVIOUS
<1>2. Projects(reg.projects) /\ reg.rev = 0 /\ truth = reg.projects
  BY <1>1, FreshType DEF Projects
<1>3. scans \in [Path -> Nat] /\ Counted(reg.projects)
  BY <1>1, FreshType DEF Counted
<1>4. TypeOK
  <2>0. 0 \in 0..MaxAttempts
    BY Attempts
  <2>1. pc \in [Caller -> Points] /\ attempt \in [Caller -> 0..MaxAttempts]
    BY <2>0, PointSets
  <2>2. held \in [Caller -> BOOLEAN] /\ expired \in [Caller -> BOOLEAN]
    OBVIOUS
  <2>3. trace \in Trace
    BY DEF Trace
  <2> QED
    BY <1>2, <1>3, <2>1, <2>2, <2>3, NoRegistryType
       DEF TypeOK, Loaded, Points, Seen, Trace
<1>5. Queued /\ AttemptLeft /\ LockIsTheirs
  BY PointSets DEF Queued, Active, AttemptLeft, LockIsTheirs
<1>6. WritesInTurn /\ OverlapNeedsBreach /\ AllCounted
  BY <1>3, NoRegistryType DEF WritesInTurn, Writers, OverlapNeedsBreach, AllCounted
<1>7. TokensIssued /\ JudgedStale
  BY DEF TokensIssued, JudgedStale
<1> QED
  BY <1>4, <1>5, <1>6, <1>7 DEF RegistryIInv

-----------------------------------------------------------------------------
(* Types. *)

LEMMA LockTypes ==
    /\ \A l \in Lock : /\ l.owner \in Caller /\ l # None
                       /\ [l EXCEPT !.written = TRUE] \in Lock
                       /\ [l EXCEPT !.written = TRUE].owner = l.owner
                       /\ [l EXCEPT !.written = TRUE].aged = l.aged
                       /\ [l EXCEPT !.aged = TRUE] \in Lock
                       /\ [l EXCEPT !.aged = TRUE].owner = l.owner
                       /\ [l EXCEPT !.aged = TRUE].aged
    /\ \A c \in Caller :
         /\ [owner |-> c, written |-> FALSE, aged |-> FALSE] \in Lock
         /\ [owner |-> c, written |-> FALSE, aged |-> FALSE].owner = c
<1>1. None \notin Lock
  BY Consts
<1> QED
  BY <1>1 DEF Lock

LEMMA TraceTypes ==
    /\ \A s \in Trace, b \in BOOLEAN : /\ [s EXCEPT !.overlapped = b] \in Trace
                                       /\ [s EXCEPT !.breached = b] \in Trace
                                       /\ [s EXCEPT !.recorded = b] \in Trace
                                       /\ [s EXCEPT !.misled = b] \in Trace
    /\ trace \in Trace =>
         /\ trace.overlapped \in BOOLEAN /\ trace.breached \in BOOLEAN
         /\ trace.recorded \in BOOLEAN /\ trace.misled \in BOOLEAN
  BY DEF Trace

LEMMA ContentType == TypeOK => Content \in Seen
  BY LockTypes DEF TypeOK, Content, Seen

LEMMA ReadingTypes ==
    ASSUME TypeOK
    PROVE  /\ \A now \in Readings : now \in {reg, NoRegistry} /\ Loaded(now)
           /\ \A now \in Contents : now \in {Content, {}} /\ now \in Seen
<1>1. Loaded(reg) /\ Loaded(NoRegistry) /\ Content \in Seen /\ {} \in Seen
  BY ContentType, NoRegistryType DEF TypeOK, Seen
<1> QED
  BY <1>1 DEF Readings, Contents

LEMMA UnlinkTypes ==
    ASSUME TypeOK, NEW c \in Caller, NEW worse \in BOOLEAN, UnlinkLock(c, worse)
    PROVE  lock' = None /\ trace' \in Trace
<1>1. (trace.breached \/ worse \/ (lock # None /\ lock.owner \in Holders \ {c}))
         \in BOOLEAN
  OBVIOUS
<1> QED
  BY <1>1, TraceTypes DEF UnlinkLock, TypeOK, Trace

(* TypeOK, with the names used here. *)
LEMMA Types ==
    TypeOK <=>
      /\ Loaded(reg) /\ Projects(truth)
      /\ lock = None \/ lock \in Lock
      /\ pc \in [Caller -> Points]
      /\ op \in [Caller -> Ops]
      /\ held \in [Caller -> BOOLEAN] /\ expired \in [Caller -> BOOLEAN]
      /\ seen \in [Caller -> Seen]
      /\ DOMAIN have = Caller /\ \A c \in Caller : Loaded(have[c])
      /\ attempt \in [Caller -> 0..MaxAttempts]
      /\ scans \in [Path -> Nat]
      /\ trace \in Trace
  BY DEF TypeOK, Points, Seen, Trace

LEMMA TypesNext ==
    ASSUME Loaded(reg)', Projects(truth)', lock' = None \/ lock' \in Lock,
           pc' \in [Caller -> Points], op' \in [Caller -> Ops],
           held' \in [Caller -> BOOLEAN], expired' \in [Caller -> BOOLEAN],
           seen' \in [Caller -> Seen],
           DOMAIN have' = Caller, \A c \in Caller : Loaded(have'[c]),
           attempt' \in [Caller -> 0..MaxAttempts], scans' \in [Path -> Nat],
           trace' \in Trace
    PROVE  TypeOK'
  BY DEF TypeOK, Points, Seen, Trace, Loaded

(* What a load notes: who overlaps, and that it is misled. *)
LEMMA LoadTrace ==
    ASSUME TypeOK, NEW c \in Caller, Load(c)
    PROVE  /\ trace' \in Trace
           /\ trace'.breached = trace.breached
           /\ trace'.overlapped <=>
                trace.overlapped \/ \E d \in Writers : ProcOf[d] # ProcOf[c]
           /\ trace.misled => trace'.misled
           /\ \E now \in Readings :
                /\ \/ have' = [have EXCEPT ![c] = NoRegistry] /\ Go(c, "release")
                   \/ have' = [have EXCEPT ![c] = now] /\ Go(c, "check")
                   \/ have' = [have EXCEPT ![c] = now] /\ Go(c, "commit")
                /\ Go(c, "commit") /\ now # reg => trace'.misled
<1>1. trace \in Trace
  BY DEF TypeOK, Trace
<1> DEFINE Commit1(now) == Commits(op[c], now.projects)
           Last == attempt[c] = MaxAttempts
           Overlaps == trace.overlapped \/ \E d \in Writers : ProcOf[d] # ProcOf[c]
           Misled(now) == trace.misled \/ (Commit1(now) /\ Last /\ now # reg)
<1>2. PICK now \in Readings :
        /\ have' = [have EXCEPT ![c] = IF Commit1(now) THEN now ELSE NoRegistry]
        /\ Go(c, IF ~Commit1(now) THEN "release" ELSE IF Last THEN "commit" ELSE "check")
        /\ trace' = [trace EXCEPT !.overlapped = Overlaps, !.misled = Misled(now)]
  BY DEF Load
<1>3. Overlaps \in BOOLEAN /\ Misled(now) \in BOOLEAN
  BY <1>1 DEF Trace
<1>4. /\ trace' \in Trace /\ trace'.breached = trace.breached
      /\ trace'.overlapped = Overlaps /\ trace'.misled = Misled(now)
  <2> HIDE DEF Overlaps, Misled
  <2> QED
    BY <1>1, <1>2, <1>3 DEF Trace
<1>5. pc' = [pc EXCEPT ![c] = IF ~Commit1(now) THEN "release"
                              ELSE IF Last THEN "commit" ELSE "check"]
  BY <1>2 DEF Go
<1>6. Go(c, "commit") => Commit1(now) /\ Last
  <2>1. pc'[c] = IF ~Commit1(now) THEN "release" ELSE IF Last THEN "commit" ELSE "check"
    BY <1>5 DEF TypeOK
  <2> HIDE DEF Commit1, Last
  <2> QED
    BY <2>1 DEF Go, TypeOK
<1>7. \/ have' = [have EXCEPT ![c] = NoRegistry] /\ Go(c, "release")
      \/ have' = [have EXCEPT ![c] = now] /\ Go(c, "check")
      \/ have' = [have EXCEPT ![c] = now] /\ Go(c, "commit")
  <2> HIDE DEF Commit1, Last
  <2> QED
    BY <1>2
<1>8. Go(c, "commit") /\ now # reg => trace'.misled
  BY <1>4, <1>6
<1> QED
  BY <1>4, <1>7, <1>8

(* What a comparison notes: a mismatch, or that it is misled. *)
LEMMA CheckTrace ==
    ASSUME TypeOK, NEW c \in Caller, Check(c)
    PROVE  /\ trace' \in Trace
           /\ trace'.breached = trace.breached
           /\ trace'.overlapped = trace.overlapped
           /\ trace.misled => trace'.misled
           /\ \/ Go(c, "load") \/ Go(c, "commit")
           /\ Go(c, "commit") /\ Blind(c) => trace'.misled
<1>1. trace \in Trace
  BY DEF TypeOK, Trace
<1> DEFINE Misled == trace.misled \/ Blind(c)
<1>2. CASE Go(c, "commit") /\ trace' = [trace EXCEPT !.misled = Misled]
  <2>1. Misled \in BOOLEAN
    BY <1>1 DEF Trace
  <2>2. /\ trace' \in Trace /\ trace'.breached = trace.breached
        /\ trace'.overlapped = trace.overlapped /\ trace'.misled = Misled
    <3> HIDE DEF Misled
    <3> QED
      BY <1>1, <1>2, <2>1 DEF Trace
  <2> QED
    BY <1>2, <2>2
<1>3. CASE Go(c, "load") /\ trace' = [trace EXCEPT !.recorded = TRUE]
  <2>1. /\ trace' \in Trace /\ trace'.breached = trace.breached
        /\ trace'.overlapped = trace.overlapped /\ trace'.misled = trace.misled
    BY <1>1, <1>3 DEF Trace
  <2>2. ~Go(c, "commit")
    BY <1>3 DEF Go, TypeOK
  <2> QED
    BY <1>3, <2>1, <2>2
<1> QED
  BY <1>2, <1>3 DEF Check

LEMMA StepTypes ==
    ASSUME TypeOK, AttemptLeft, NEW c \in Caller,
           Step(c) \/ Begin(c) \/ Expire(c)
    PROVE  TypeOK'
<1> USE Types, PointSets DEF dataVars, lockVars, histVars, Loaded
<1>0. op[c] \in Op /\ Loaded(have[c]) /\ Loaded(reg) /\ Content \in Seen
  BY Consts, ContentType
<1>1. CASE TryCreate(c)
  <2>1. \E l \in {"write", "budget", "load"} : Go(c, l)
    BY <1>1 DEF TryCreate, FailOpen
  <2>2. pc' \in [Caller -> Points]
    BY <2>1, Moves
  <2>3. lock' = None \/ lock' \in Lock
    <3>1. lock' = lock \/ lock' = [owner |-> c, written |-> FALSE, aged |-> FALSE]
      BY <1>1 DEF TryCreate
    <3> QED
      BY <3>1, LockTypes
  <2>5. held' \in [Caller -> BOOLEAN]
    BY <1>1 DEF TryCreate
  <2>4. trace' \in Trace
    BY <1>1, TraceTypes DEF TryCreate, FailOpen
  <2> QED
    BY <1>1, <2>2, <2>3, <2>4, <2>5, TypesNext DEF TryCreate
<1>2. CASE WriteRecord(c)
  <2>1. \E l \in {"load", "undo"} : Go(c, l)
    BY <1>2 DEF WriteRecord
  <2>2. pc' \in [Caller -> Points]
    BY <2>1, Moves
  <2>3. lock' = None \/ lock' \in Lock
    <3>1. lock' = lock \/ (lock # None /\ lock' = [lock EXCEPT !.written = TRUE])
      BY <1>2 DEF WriteRecord
    <3>2. lock = None \/ lock \in Lock
      BY Types
    <3>3. lock \in Lock => [lock EXCEPT !.written = TRUE] \in Lock
      BY LockTypes
    <3> QED
      BY <3>1, <3>2, <3>3
  <2> QED
    BY <1>2, <2>2, <2>3, TypesNext DEF WriteRecord
<1>3. CASE UndoCreate(c)
  <2>1. pc' \in [Caller -> Points]
    BY <1>3, Moves DEF UndoCreate
  <2>2. lock' = None /\ trace' \in Trace
    BY <1>3, UnlinkTypes DEF UndoCreate
  <2> QED
    BY <1>3, <2>1, <2>2, TypesNext DEF UndoCreate
<1>4. CASE Budget(c)
  <2>1. \E l \in {"load", "judge"} : Go(c, l)
    BY <1>4 DEF Budget, FailOpen
  <2>2. pc' \in [Caller -> Points]
    BY <2>1, Moves
  <2>3. trace' \in Trace
    BY <1>4, TraceTypes DEF Budget, FailOpen
  <2> QED
    BY <1>4, <2>2, <2>3, TypesNext DEF Budget
<1>5. CASE Judge(c)
  <2>1. \E l \in {"create", "stat", "confirm"} : Go(c, l)
    BY <1>5 DEF Judge
  <2>2. pc' \in [Caller -> Points]
    BY <2>1, Moves
  <2>3. seen' \in [Caller -> Seen]
    <3>1. PICK now \in Contents :
            UNCHANGED seen \/ seen' = [seen EXCEPT ![c] = now]
      BY <1>5 DEF Judge
    <3>2. now \in Seen
      BY ReadingTypes
    <3> QED
      BY <3>1, <3>2
  <2> QED
    BY <1>5, <2>2, <2>3, TypesNext DEF Judge
<1>6. CASE JudgeStat(c)
  <2>1. \E l \in {"create", "confirm"} : Go(c, l)
    BY <1>6 DEF JudgeStat
  <2>2. pc' \in [Caller -> Points]
    BY <2>1, Moves
  <2>3. seen' \in [Caller -> Seen]
    BY <1>6 DEF JudgeStat, Seen
  <2> QED
    BY <1>6, <2>2, <2>3, TypesNext DEF JudgeStat
<1>7. CASE Confirm(c)
  <2>1. \E l \in {"create", "steal"} : Go(c, l)
    BY <1>7 DEF Confirm
  <2>2. pc' \in [Caller -> Points]
    BY <2>1, Moves
  <2>3. seen' \in [Caller -> Seen]
    BY <1>7 DEF Confirm, Seen
  <2> QED
    BY <1>7, <2>2, <2>3, TypesNext DEF Confirm
<1>8. CASE Steal(c)
  <2>1. pc' \in [Caller -> Points]
    BY <1>8, Moves DEF Steal
  <2>2. lock' = None /\ trace' \in Trace
    BY <1>8, UnlinkTypes DEF Steal
  <2> QED
    BY <1>8, <2>1, <2>2, TypesNext DEF Steal
<1>9. CASE Load(c)
  <2>1. \E l \in {"release", "check", "commit"} : Go(c, l)
    BY <1>9 DEF Load
  <2>2. pc' \in [Caller -> Points]
    BY <2>1, Moves
  <2>3. DOMAIN have' = Caller /\ \A d \in Caller : Loaded(have'[d])
    <3>1. /\ have'[c] = reg \/ have'[c] = NoRegistry
          /\ \A d \in Caller : d # c => have'[d] = have[d]
          /\ DOMAIN have' = Caller
      BY <1>9, ReadingTypes DEF Load
    <3> QED
      BY <1>0, <3>1, NoRegistryType
  <2>4. trace' \in Trace
    BY <1>9, LoadTrace
  <2> QED
    BY <1>9, <2>2, <2>3, <2>4, TypesNext DEF Load
<1>10. CASE Check(c)
  <2>1. \E l \in {"load", "commit"} : Go(c, l)
    BY <1>10 DEF Check
  <2>2. pc' \in [Caller -> Points]
    BY <2>1, Moves
  <2>3. attempt[c] + 1 \in 0..MaxAttempts
    BY <1>10, Attempts DEF Check, AttemptLeft
  <2>4. attempt' \in [Caller -> 0..MaxAttempts] /\ trace' \in Trace
    BY <1>10, <2>3, CheckTrace DEF Check
  <2> QED
    BY <1>10, <2>2, <2>4, TypesNext DEF Check
<1>11. CASE Commit(c)
  <2>1. pc' \in [Caller -> Points]
    BY <1>11, Moves DEF Commit
  <2>2. DOMAIN have' = Caller /\ \A d \in Caller : Loaded(have'[d])
    <3>1. /\ have'[c] = NoRegistry \/ have'[c] = have[c]
          /\ \A d \in Caller : d # c => have'[d] = have[d]
          /\ DOMAIN have' = Caller
      BY <1>11 DEF Commit
    <3> QED
      BY <3>1, NoRegistryType
  <2>3. /\ have[c].rev + 1 \in Nat
        /\ Projects(Apply(op[c], have[c].projects)) /\ Projects(Apply(op[c], truth))
    BY <1>0, ApplyType
  <2>4. Loaded(reg)' /\ Projects(truth)'
    BY <1>11, <1>0, <2>3 DEF Commit
  <2>5. scans' \in [Path -> Nat]
    BY <1>11 DEF Commit
  <2>6. trace' \in Trace
    <3>1. (trace.recorded \/ ~held[c]) \in BOOLEAN
      OBVIOUS
    <3> QED
      BY <1>11, <3>1, TraceTypes DEF Commit
  <2> QED
    BY <1>11, <2>1, <2>2, <2>4, <2>5, <2>6, TypesNext DEF Commit
<1>12. CASE ReleaseRead(c)
  <2>1. \E l \in {"drop", "done"} : Go(c, l)
    BY <1>12 DEF ReleaseRead
  <2>2. pc' \in [Caller -> Points]
    BY <2>1, Moves
  <2>3. held' \in [Caller -> BOOLEAN] /\ attempt' \in [Caller -> 0..MaxAttempts]
    BY <1>12, Attempts DEF ReleaseRead
  <2> QED
    BY <1>12, <2>2, <2>3, TypesNext DEF ReleaseRead
<1>13. CASE Drop(c)
  <2>1. pc' \in [Caller -> Points]
    BY <1>13, Moves DEF Drop
  <2>2. (lock' = None \/ lock' \in Lock) /\ trace' \in Trace
    BY <1>13, UnlinkTypes DEF Drop
  <2> QED
    BY <1>13, <2>1, <2>2, TypesNext DEF Drop
<1>14. CASE Begin(c)
  <2>1. pc' \in [Caller -> Points]
    BY <1>14, Moves DEF Begin
  <2> QED
    BY <1>14, <2>1, TypesNext DEF Begin
<1>15. CASE Expire(c)
  BY <1>15, TypesNext DEF Expire
<1> QED
  BY <1>1, <1>2, <1>3, <1>4, <1>5, <1>6, <1>7, <1>8, <1>9, <1>10, <1>11,
     <1>12, <1>13, <1>14, <1>15 DEF Step

LEMMA AgeTypes ==
    ASSUME TypeOK, Age
    PROVE  TypeOK'
<1>1. lock' \in Lock
  BY LockTypes, Types DEF Age
<1> QED
  BY <1>1, Types, TypesNext DEF Age, dataVars, histVars, Loaded

LEMMA CrashTypes ==
    ASSUME TypeOK, NEW r \in Process, Crash(r)
    PROVE  TypeOK'
<1>1. pc' \in [Caller -> Points] /\ attempt' \in [Caller -> 0..MaxAttempts]
  BY Types, PointSets, Attempts DEF Crash
<1>2. /\ held' = [c \in Caller |-> held[c] /\ ProcOf[c] # r]
      /\ expired' = [c \in Caller |-> expired[c] /\ ProcOf[c] # r]
  BY DEF Crash
<1>3. held' \in [Caller -> BOOLEAN]
  <2>1. \A c \in Caller : (held[c] /\ ProcOf[c] # r) \in BOOLEAN
    OBVIOUS
  <2> QED
    BY <1>2, <2>1
<1>4. expired' \in [Caller -> BOOLEAN]
  <2>1. \A c \in Caller : (expired[c] /\ ProcOf[c] # r) \in BOOLEAN
    OBVIOUS
  <2> QED
    BY <1>2, <2>1
<1>5. /\ seen' \in [Caller -> Seen]
      /\ DOMAIN have' = Caller /\ \A c \in Caller : Loaded(have'[c])
  BY Types, NoRegistryType DEF Crash, Seen
<1> QED
  BY <1>1, <1>3, <1>4, <1>5, Types, TypesNext DEF Crash, histVars, Loaded

-----------------------------------------------------------------------------
(* The queue, and the bound on the replays. *)

LEMMA QueueMove ==
    ASSUME TypeOK, Queued, NEW c \in Caller,
           \A d \in Caller : d # c => pc'[d] = pc[d],
           Active(c) \/ (\A d \in Caller : d # c /\ ProcOf[d] = ProcOf[c] => ~Active(d))
    PROVE  Queued'
  BY DEF Queued, Active

LEMMA StepQueued ==
    ASSUME TypeOK, Queued, NEW c \in Caller,
           Step(c) \/ Begin(c) \/ Expire(c)
    PROVE  Queued'
<1>1. CASE Step(c)
  <2>1. /\ pc[c] \notin {"idle", "done", "dead"}
        /\ \E l \in Points : Go(c, l)
    <3> USE <1>1, PointSets DEF Step
    <3>1. CASE TryCreate(c) \/ Budget(c)
      BY <3>1 DEF TryCreate, Budget, FailOpen
    <3>2. CASE WriteRecord(c) \/ UndoCreate(c) \/ Steal(c) \/ Drop(c)
      BY <3>2 DEF WriteRecord, UndoCreate, Steal, Drop
    <3>3. CASE Judge(c) \/ JudgeStat(c) \/ Confirm(c)
      BY <3>3 DEF Judge, JudgeStat, Confirm
    <3>4. CASE Load(c) \/ Check(c) \/ Commit(c) \/ ReleaseRead(c)
      BY <3>4 DEF Load, Check, Commit, ReleaseRead
    <3> QED
      BY <3>1, <3>2, <3>3, <3>4
  <2> QED
    BY <2>1, Moves, QueueMove, PointSets DEF Active
<1>2. CASE Begin(c)
  BY <1>2, Moves, QueueMove, PointSets DEF Begin, Active
<1>3. CASE Expire(c)
  BY <1>3, Moves, QueueMove DEF Expire, Queued, Active
<1> QED
  BY <1>1, <1>2, <1>3

LEMMA AttemptMove ==
    ASSUME TypeOK, AttemptLeft, NEW c \in Caller,
           \A d \in Caller : d # c => pc'[d] = pc[d] /\ attempt'[d] = attempt[d],
           pc'[c] = "check" => attempt'[c] < MaxAttempts
    PROVE  AttemptLeft'
  BY DEF AttemptLeft

LEMMA StepAttempt ==
    ASSUME TypeOK, AttemptLeft, NEW c \in Caller,
           Step(c) \/ Begin(c) \/ Expire(c)
    PROVE  AttemptLeft'
<1> USE Moves, AttemptMove DEF dataVars
<1>1. CASE TryCreate(c)
  <2>1. \E l \in {"write", "budget", "load"} : Go(c, l)
    BY <1>1 DEF TryCreate, FailOpen
  <2> QED
    BY <1>1, <2>1 DEF TryCreate
<1>2. CASE WriteRecord(c)
  BY <1>2 DEF WriteRecord
<1>3. CASE UndoCreate(c)
  BY <1>3 DEF UndoCreate, UnlinkLock
<1>4. CASE Budget(c)
  BY <1>4 DEF Budget, FailOpen
<1>5. CASE Judge(c)
  <2>1. \E l \in {"create", "stat", "confirm"} : Go(c, l)
    BY <1>5 DEF Judge
  <2> QED
    BY <1>5, <2>1 DEF Judge
<1>6. CASE JudgeStat(c)
  <2>1. \E l \in {"create", "confirm"} : Go(c, l)
    BY <1>6 DEF JudgeStat
  <2> QED
    BY <1>6, <2>1 DEF JudgeStat
<1>7. CASE Confirm(c)
  <2>1. \E l \in {"create", "steal"} : Go(c, l)
    BY <1>7 DEF Confirm
  <2> QED
    BY <1>7, <2>1 DEF Confirm
<1>8. CASE Steal(c)
  BY <1>8 DEF Steal, UnlinkLock
<1>9. CASE Load(c)
  <2>1. \E l \in {"release", "commit"} : Go(c, l) \/ (Go(c, "check") /\ attempt[c] < MaxAttempts)
    <3>1. PICK now \in Readings :
            Go(c, IF ~Commits(op[c], now.projects) THEN "release"
                  ELSE IF attempt[c] = MaxAttempts THEN "commit" ELSE "check")
      BY <1>9 DEF Load
    <3>2. attempt[c] # MaxAttempts => attempt[c] < MaxAttempts
      <4>1. MaxAttempts \in Nat
        BY Consts
      <4>2. attempt[c] \in 0..MaxAttempts
        BY DEF TypeOK
      <4> HIDE Moves, AttemptMove
      <4> QED
        BY <4>1, <4>2
    <3>3. Go(c, "release") \/ Go(c, "commit")
            \/ (Go(c, "check") /\ attempt[c] # MaxAttempts)
      BY <3>1
    <3> QED
      BY <3>2, <3>3
  <2> QED
    BY <1>9, <2>1 DEF Load
<1>10. CASE Check(c)
  <2>1. \E l \in {"load", "commit"} : Go(c, l)
    BY <1>10 DEF Check
  <2>2. \A d \in Caller : d # c => attempt'[d] = attempt[d]
    BY <1>10 DEF Check, TypeOK
  <2> QED
    BY <2>1, <2>2
<1>11. CASE Commit(c)
  BY <1>11 DEF Commit
<1>12. CASE ReleaseRead(c)
  <2>1. \E l \in {"drop", "done"} : Go(c, l)
    BY <1>12 DEF ReleaseRead
  <2>2. \A d \in Caller : d # c => attempt'[d] = attempt[d]
    BY <1>12 DEF ReleaseRead, TypeOK
  <2> QED
    BY <2>1, <2>2
<1>13. CASE Drop(c)
  BY <1>13 DEF Drop, UnlinkLock
<1>14. CASE Begin(c)
  BY <1>14 DEF Begin
<1>15. CASE Expire(c)
  BY <1>15 DEF Expire, AttemptLeft
<1> QED
  BY <1>1, <1>2, <1>3, <1>4, <1>5, <1>6, <1>7, <1>8, <1>9, <1>10, <1>11,
     <1>12, <1>13, <1>14, <1>15 DEF Step

-----------------------------------------------------------------------------
(* The lock file. *)

LEMMA LockMove ==
    ASSUME TypeOK, LockIsTheirs, NEW c \in Caller,
           \A d \in Caller : d # c => pc'[d] = pc[d] /\ held'[d] = held[d],
           ~trace'.breached =>
             /\ ~trace.breached
             /\ pc'[c] \in {"write"} \cup Section =>
                   held'[c] /\ lock' # None /\ lock'.owner = c
             /\ \A d \in Holders \ {c} :
                   lock # None /\ lock.owner = d => lock' # None /\ lock'.owner = d
    PROVE  LockIsTheirs'
<1> SUFFICES ASSUME ~trace'.breached, NEW d \in Caller,
                    pc'[d] \in {"write"} \cup Section, d # c
             PROVE  held'[d] /\ lock' # None /\ lock'.owner = d
  BY DEF LockIsTheirs
<1>1. pc[d] \in {"write"} \cup Section /\ held[d] /\ lock # None /\ lock.owner = d
  BY DEF LockIsTheirs
<1>2. d \in Holders \ {c}
  BY <1>1 DEF Holders
<1> QED
  BY <1>1, <1>2

(* Who unlinks a lock that is held breaches it. *)
LEMMA UnlinkBreaches ==
    ASSUME TypeOK, NEW c, NEW worse \in BOOLEAN, UnlinkLock(c, worse)
    PROVE  ~trace'.breached =>
             /\ ~trace.breached /\ ~worse
             /\ ~(lock # None /\ lock.owner \in Holders \ {c})
  BY DEF UnlinkLock, TypeOK

LEMMA StepLock ==
    ASSUME TypeOK, LockIsTheirs, NEW c \in Caller,
           Step(c) \/ Begin(c) \/ Expire(c)
    PROVE  LockIsTheirs'
<1> USE PointSets, LockMove, Moves, UnlinkBreaches DEF lockVars, histVars
<1>0. /\ \A b \in BOOLEAN : [trace EXCEPT !.breached = b].breached = b
      /\ \A b \in BOOLEAN : [trace EXCEPT !.overlapped = b].breached = trace.breached
      /\ \A b \in BOOLEAN : [trace EXCEPT !.recorded = b].breached = trace.breached
  BY DEF TypeOK
<1>1. CASE TryCreate(c)
  <2>1. CASE /\ lock = None /\ Go(c, "write") /\ UNCHANGED trace
             /\ lock' = [owner |-> c, written |-> FALSE, aged |-> FALSE]
             /\ held' = [held EXCEPT ![c] = TRUE]
    <3>1. /\ held'[c] /\ lock'.owner = c /\ lock' # None
          /\ \A d \in Caller : d # c => held'[d] = held[d]
      BY <2>1, LockTypes DEF TypeOK
    <3> QED
      BY <2>1, <3>1
  <2>2. CASE Go(c, "budget") /\ UNCHANGED <<lock, held, trace>>
    BY <2>2
  <2>3. CASE FailOpen(c)
    <3>1. trace'.breached
      BY <1>0, <2>3 DEF FailOpen
    <3> QED
      BY <3>1 DEF LockIsTheirs
  <2> QED
    BY <1>1, <2>1, <2>2, <2>3 DEF TryCreate
<1>2. CASE WriteRecord(c)
  <2>1. /\ pc[c] = "write" /\ pc'[c] \in {"load", "undo"}
        /\ \A d \in Caller : d # c => pc'[d] = pc[d]
        /\ UNCHANGED <<held, trace>>
    <3>1. \E l \in {"load", "undo"} : Go(c, l)
      BY <1>2 DEF WriteRecord
    <3> QED
      BY <1>2, <3>1 DEF WriteRecord
  <2>2. lock # None => lock' # None /\ lock'.owner = lock.owner
    <3>1. lock # None => lock \in Lock
      BY DEF TypeOK
    <3>2. lock' = lock \/ (lock # None /\ lock' = [lock EXCEPT !.written = TRUE])
      BY <1>2 DEF WriteRecord
    <3> QED
      BY <3>1, <3>2, LockTypes
  <2> QED
    BY <2>1, <2>2 DEF LockIsTheirs
<1>3. CASE UndoCreate(c)
  BY <1>3, <1>0 DEF UndoCreate, UnlinkLock, LockIsTheirs
<1>4. CASE Budget(c)
  <2>1. CASE FailOpen(c)
    <3>1. trace'.breached
      BY <1>0, <2>1 DEF FailOpen
    <3> QED
      BY <3>1 DEF LockIsTheirs
  <2>2. CASE Go(c, "judge") /\ UNCHANGED trace
    BY <1>4, <2>2 DEF Budget
  <2> QED
    BY <1>4, <2>1, <2>2 DEF Budget
<1>5. CASE Judge(c)
  <2>1. \E l \in {"create", "stat", "confirm"} : Go(c, l)
    BY <1>5 DEF Judge
  <2> QED
    BY <1>5, <2>1 DEF Judge
<1>6. CASE JudgeStat(c)
  BY <1>6, <1>0 DEF JudgeStat, LockIsTheirs
<1>7. CASE Confirm(c)
  BY <1>7, <1>0 DEF Confirm, LockIsTheirs
<1>8. CASE Steal(c)
  <2>1. /\ Go(c, "create") /\ UnlinkLock(c, FALSE) /\ UNCHANGED held
    BY <1>8 DEF Steal
  <2>2. pc'[c] = "create" /\ \A d \in Caller : d # c => pc'[d] = pc[d]
    BY <2>1
  <2>3. ~trace'.breached => /\ ~trace.breached
                            /\ ~(lock # None /\ lock.owner \in Holders \ {c})
    BY <2>1
  <2> QED
    BY <2>1, <2>2, <2>3
<1>9. CASE Load(c)
  BY <1>9, <1>0 DEF Load, LockIsTheirs
<1>10. CASE Check(c)
  BY <1>10, <1>0 DEF Check, LockIsTheirs
<1>11. CASE Commit(c)
  BY <1>11, <1>0 DEF Commit, LockIsTheirs
<1>12. CASE ReleaseRead(c)
  BY <1>12, <1>0 DEF ReleaseRead, LockIsTheirs
<1>13. CASE Drop(c)
  <2>1. /\ Go(c, "done") /\ UNCHANGED held
        /\ UnlinkLock(c, FALSE) \/ UNCHANGED <<lock, trace>>
    BY <1>13 DEF Drop
  <2>2. pc'[c] = "done" /\ \A d \in Caller : d # c => pc'[d] = pc[d]
    BY <2>1
  <2>3. ~trace'.breached =>
           /\ ~trace.breached
           /\ lock' = lock \/ ~(lock # None /\ lock.owner \in Holders \ {c})
    BY <2>1
  <2> QED
    BY <2>1, <2>2, <2>3
<1>14. CASE Begin(c)
  BY <1>14, <1>0 DEF Begin, LockIsTheirs
<1>15. CASE Expire(c)
  BY <1>15 DEF Expire, LockIsTheirs
<1> QED
  BY <1>1, <1>2, <1>3, <1>4, <1>5, <1>6, <1>7, <1>8, <1>9, <1>10, <1>11,
     <1>12, <1>13, <1>14, <1>15 DEF Step

-----------------------------------------------------------------------------
(* What is loaded, written and counted. *)

(* Steps that neither load nor write the registry. *)
NoData(c) ==
    /\ UNCHANGED <<reg, have, truth, scans, op>>
    /\ trace'.overlapped = trace.overlapped /\ trace'.misled = trace.misled
    /\ \A d \in Caller : d # c => pc'[d] = pc[d]
    /\ pc'[c] \notin {"check", "commit"}

LEMMA OverlappedStays ==
    TypeOK => \A b : /\ [trace EXCEPT !.breached = b].overlapped = trace.overlapped
                     /\ [trace EXCEPT !.recorded = b].overlapped = trace.overlapped
                     /\ [trace EXCEPT !.breached = b].misled = trace.misled
                     /\ [trace EXCEPT !.recorded = b].misled = trace.misled
  BY DEF TypeOK

LEMMA UnlinkNoOverlap ==
    ASSUME TypeOK, NEW c, NEW worse, UnlinkLock(c, worse)
    PROVE  trace'.overlapped = trace.overlapped /\ trace'.misled = trace.misled
  BY OverlappedStays DEF UnlinkLock

LEMMA StepNoData ==
    ASSUME TypeOK, NEW c \in Caller,
           \/ TryCreate(c) \/ WriteRecord(c) \/ UndoCreate(c) \/ Budget(c)
           \/ Judge(c) \/ JudgeStat(c) \/ Confirm(c) \/ Steal(c)
           \/ ReleaseRead(c) \/ Drop(c) \/ Begin(c) \/ Expire(c)
    PROVE  NoData(c)
<1> USE Moves, OverlappedStays, UnlinkNoOverlap DEF NoData, dataVars, histVars
<1>1. CASE TryCreate(c)
  <2>1. \E l \in {"write", "budget", "load"} : Go(c, l)
    BY <1>1 DEF TryCreate, FailOpen
  <2> QED
    BY <1>1, <2>1 DEF TryCreate, FailOpen
<1>2. CASE WriteRecord(c)
  <2>1. \E l \in {"load", "undo"} : Go(c, l)
    BY <1>2 DEF WriteRecord
  <2> QED
    BY <1>2, <2>1 DEF WriteRecord
<1>3. CASE UndoCreate(c)
  <2>1. Go(c, "load") /\ UnlinkLock(c, TRUE)
    BY <1>3 DEF UndoCreate
  <2>2. trace'.overlapped = trace.overlapped /\ trace'.misled = trace.misled
    BY <2>1
  <2> QED
    BY <1>3, <2>1, <2>2 DEF UndoCreate
<1>4. CASE Budget(c)
  <2>1. \E l \in {"load", "judge"} : Go(c, l)
    BY <1>4 DEF Budget, FailOpen
  <2> QED
    BY <1>4, <2>1 DEF Budget, FailOpen
<1>5. CASE Judge(c)
  <2>1. \E l \in {"create", "stat", "confirm"} : Go(c, l)
    BY <1>5 DEF Judge
  <2> QED
    BY <1>5, <2>1 DEF Judge
<1>6. CASE JudgeStat(c)
  <2>1. \E l \in {"create", "confirm"} : Go(c, l)
    BY <1>6 DEF JudgeStat
  <2> QED
    BY <1>6, <2>1 DEF JudgeStat
<1>7. CASE Confirm(c)
  <2>1. \E l \in {"create", "steal"} : Go(c, l)
    BY <1>7 DEF Confirm
  <2> QED
    BY <1>7, <2>1 DEF Confirm
<1>8. CASE Steal(c)
  <2>1. Go(c, "create") /\ UnlinkLock(c, FALSE)
    BY <1>8 DEF Steal
  <2>2. trace'.overlapped = trace.overlapped /\ trace'.misled = trace.misled
    BY <2>1
  <2> QED
    BY <1>8, <2>1, <2>2 DEF Steal
<1>10. CASE ReleaseRead(c)
  <2>1. \E l \in {"drop", "done"} : Go(c, l)
    BY <1>10 DEF ReleaseRead
  <2> QED
    BY <1>10, <2>1 DEF ReleaseRead
<1>11. CASE Drop(c)
  <2>1. /\ Go(c, "done")
        /\ UnlinkLock(c, FALSE) \/ UNCHANGED <<lock, trace>>
    BY <1>11 DEF Drop
  <2>2. trace'.overlapped = trace.overlapped /\ trace'.misled = trace.misled
    BY <2>1
  <2> QED
    BY <1>11, <2>1, <2>2 DEF Drop
<1>12. CASE Begin(c)
  BY <1>12 DEF Begin
<1>13. CASE Expire(c)
  BY <1>13 DEF Expire
<1> QED
  BY <1>1, <1>2, <1>3, <1>4, <1>5, <1>6, <1>7, <1>8, <1>10, <1>11, <1>12, <1>13

LEMMA NoDataKeeps ==
    ASSUME WritesInTurn, AllCounted, NEW c \in Caller, NoData(c)
    PROVE  WritesInTurn' /\ AllCounted'
<1>1. \A d \in Writers' : d \in Writers /\ pc'[d] = pc[d]
  BY DEF Writers, NoData
<1>2. WritesInTurn'
  BY <1>1 DEF WritesInTurn, Writers, NoData
<1>3. AllCounted'
  BY DEF AllCounted, Counted, NoData
<1> QED
  BY <1>2, <1>3

LEMMA HaveIsFunction ==
    ASSUME TypeOK, NEW c \in Caller, NEW r, have' = [have EXCEPT ![c] = r]
    PROVE  have'[c] = r /\ \A d \in Caller : d # c => have'[d] = have[d]
  BY DEF TypeOK

LEMMA LoadKeeps ==
    ASSUME TypeOK, Queued, WritesInTurn, AllCounted, NEW c \in Caller, Load(c)
    PROVE  WritesInTurn' /\ AllCounted'
<1>1. /\ pc[c] = "load" /\ UNCHANGED <<reg, truth, scans>>
  BY DEF Load
<1>2. /\ \A d \in Caller : d # c => pc'[d] = pc[d] /\ have'[d] = have[d]
      /\ have'[c] \in {reg, NoRegistry}
      /\ pc'[c] = "commit" /\ have'[c] # reg => trace'.misled
  <2>1. PICK now \in Readings :
          /\ \/ have' = [have EXCEPT ![c] = NoRegistry] /\ Go(c, "release")
             \/ have' = [have EXCEPT ![c] = now] /\ Go(c, "check")
             \/ have' = [have EXCEPT ![c] = now] /\ Go(c, "commit")
          /\ Go(c, "commit") /\ now # reg => trace'.misled
    BY LoadTrace
  <2>2. now \in {reg, NoRegistry}
    BY ReadingTypes
  <2>3. CASE have' = [have EXCEPT ![c] = NoRegistry] /\ Go(c, "release")
    <3>1. pc'[c] = "release" /\ \A d \in Caller : d # c => pc'[d] = pc[d]
      BY <2>3, Moves
    <3> QED
      BY <2>3, <3>1, HaveIsFunction
  <2>4. CASE have' = [have EXCEPT ![c] = now] /\ Go(c, "check")
    <3>1. pc'[c] = "check" /\ \A d \in Caller : d # c => pc'[d] = pc[d]
      BY <2>4, Moves
    <3> QED
      BY <2>2, <2>4, <3>1, HaveIsFunction
  <2>5. CASE have' = [have EXCEPT ![c] = now] /\ Go(c, "commit")
    <3>1. pc'[c] = "commit" /\ \A d \in Caller : d # c => pc'[d] = pc[d]
      BY <2>5, Moves
    <3>2. have'[c] = now /\ \A d \in Caller : d # c => have'[d] = have[d]
      BY <2>5, HaveIsFunction
    <3> QED
      BY <2>1, <2>2, <2>5, <3>1, <3>2
  <2> QED
    BY <2>1, <2>3, <2>4, <2>5
<1>3. ~trace'.overlapped => ~trace.overlapped /\ Writers \subseteq {c}
  <2>1. /\ trace'.overlapped <=> trace.overlapped \/ \E d \in Writers : ProcOf[d] # ProcOf[c]
    BY LoadTrace
  <2>2. \A d \in Writers : d # c => ProcOf[d] # ProcOf[c]
    BY <1>1, PointSets DEF Queued, Active, Writers
  <2> QED
    BY <2>1, <2>2
<1>4. trace.misled => trace'.misled
  BY LoadTrace
<1>5. WritesInTurn'
  <2> SUFFICES ASSUME ~trace'.overlapped, ~trace'.misled
               PROVE  /\ reg'.projects = truth'
                      /\ \A d \in Writers' : have'[d] = reg'
                            \/ (pc'[d] = "check" /\ have'[d] = NoRegistry)
                      /\ \A d, e \in Writers' : d = e
    BY DEF WritesInTurn
  <2>1. reg.projects = truth
    BY <1>3, <1>4 DEF WritesInTurn
  <2>2. Writers' \subseteq {c}
    BY <1>2, <1>3 DEF Writers
  <2>3. c \in Writers' => have'[c] = reg \/ (pc'[c] = "check" /\ have'[c] = NoRegistry)
    BY <1>2 DEF Writers
  <2> QED
    BY <1>1, <2>1, <2>2, <2>3
<1>6. AllCounted'
  BY <1>1, <1>2, NoRegistryType DEF AllCounted, Counted
<1> QED
  BY <1>5, <1>6

LEMMA CheckKeeps ==
    ASSUME TypeOK, WritesInTurn, AllCounted, NEW c \in Caller, Check(c)
    PROVE  WritesInTurn' /\ AllCounted'
<1>1. pc[c] = "check" /\ UNCHANGED <<reg, have, truth, scans>>
  BY DEF Check
<1>2. /\ trace'.overlapped = trace.overlapped
      /\ trace.misled => trace'.misled
  BY CheckTrace
<1>3. /\ pc'[c] \in {"load", "commit"}
      /\ \A d \in Caller : d # c => pc'[d] = pc[d]
      /\ pc'[c] = "commit" /\ Blind(c) => trace'.misled
  <2>1. Go(c, "load") \/ Go(c, "commit")
    BY CheckTrace
  <2>2. CASE Go(c, "load")
    BY <2>2, Moves
  <2>3. CASE Go(c, "commit")
    BY <2>3, Moves, CheckTrace
  <2> QED
    BY <2>1, <2>2, <2>3
<1>4. c \in Writers /\ Writers' \subseteq Writers
  BY <1>1, <1>3 DEF Writers
<1>5. WritesInTurn'
  <2> SUFFICES ASSUME ~trace'.overlapped, ~trace'.misled
               PROVE  /\ reg'.projects = truth'
                      /\ \A d \in Writers' : have'[d] = reg'
                            \/ (pc'[d] = "check" /\ have'[d] = NoRegistry)
                      /\ \A d, e \in Writers' : d = e
    BY DEF WritesInTurn
  <2>1. /\ reg.projects = truth /\ \A d, e \in Writers : d = e
        /\ have[c] = reg \/ have[c] = NoRegistry
    BY <1>2, <1>4 DEF WritesInTurn
  <2>2. pc'[c] = "commit" => have[c] = reg
    BY <1>3, <2>1 DEF Blind
  <2>3. \A d \in Writers' : d = c /\ pc'[c] = "commit"
    BY <1>3, <1>4, <2>1 DEF Writers
  <2> QED
    BY <1>1, <2>1, <2>2, <2>3
<1>6. AllCounted'
  BY <1>1 DEF AllCounted, Counted
<1> QED
  BY <1>5, <1>6

LEMMA CommitKeeps ==
    ASSUME TypeOK, WritesInTurn, AllCounted, NEW c \in Caller, Commit(c)
    PROVE  WritesInTurn' /\ AllCounted'
<1>1. /\ pc[c] = "commit" /\ pc'[c] = "release" /\ have'[c] = NoRegistry
      /\ \A d \in Caller : d # c => pc'[d] = pc[d] /\ have'[d] = have[d]
  BY Moves, HaveIsFunction DEF Commit
<1>2. c \in Writers /\ Writers' = Writers \ {c}
  BY <1>1 DEF Writers
<1>3. trace'.overlapped = trace.overlapped /\ trace'.misled = trace.misled
  BY OverlappedStays DEF Commit, histVars
<1>4. CASE UNCHANGED <<reg, histVars>>
  <2>1. UNCHANGED <<reg, truth, scans>>
    BY <1>4 DEF histVars
  <2>2. WritesInTurn'
    BY <1>1, <1>2, <1>3, <2>1 DEF WritesInTurn
  <2>3. AllCounted'
    BY <1>1, <2>1, NoRegistryType DEF AllCounted, Counted
  <2> QED
    BY <2>2, <2>3
<1>5. CASE /\ reg' = [rev      |-> have[c].rev + 1,
                     projects |-> Apply(op[c], have[c].projects)]
           /\ truth' = Apply(op[c], truth)
           /\ scans' = [p \in Path |->
                 IF op[c].kind = "register" /\ p \in op[c].paths
                 THEN scans[p] + 1 ELSE scans[p]]
  <2>1. reg'.projects = Apply(op[c], have[c].projects)
    BY <1>5
  <2>2. WritesInTurn'
    BY <1>1, <1>2, <1>3, <1>5, <2>1 DEF WritesInTurn
  <2>3. /\ op[c] \in Op /\ scans \in [Path -> Nat]
        /\ \A d \in Caller : Projects(have[d].projects) /\ Counted(have[d].projects)
    BY Consts DEF TypeOK, Loaded, AllCounted
  <2>4. ASSUME NEW p \in DOMAIN reg'.projects
        PROVE  reg'.projects[p].scans <= scans'[p]
    BY <1>5, <2>1, <2>3, ApplyCounts
  <2>5. \A p \in Path : scans'[p] >= scans[p] /\ scans[p] \in Nat /\ scans'[p] \in Nat
    BY <1>5, <2>3
  <2>6. ASSUME NEW d \in Caller, d # c, NEW p \in DOMAIN have[d].projects
        PROVE  have[d].projects[p].scans <= scans'[p]
    <3>1. /\ p \in Path /\ have[d].projects[p].scans \in Nat
          /\ have[d].projects[p].scans <= scans[p]
      BY <2>3 DEF Projects, Entry, Counted
    <3> QED
      BY <2>5, <3>1
  <2>7. AllCounted'
    <3>1. Counted(reg.projects)'
      BY <2>4 DEF Counted
    <3>2. \A p \in DOMAIN NoRegistry.projects : NoRegistry.projects[p].scans <= scans'[p]
      BY DEF NoRegistry
    <3>3. \A d \in Caller : Counted(have[d].projects)'
      BY <1>1, <2>6, <3>2 DEF Counted
    <3> QED
      BY <3>1, <3>3 DEF AllCounted
  <2> QED
    BY <2>2, <2>7
<1> QED
  BY <1>4, <1>5 DEF Commit

-----------------------------------------------------------------------------
(* What a step does to the lock file and to what was read of it. *)

(* A file that is there keeps its owner and its age, a new one is the       *)
(* caller's first, and a breach is not forgotten.                           *)
FileMove(c) ==
    /\ trace.breached => trace'.breached
    /\ \A d \in Caller : d # c => pc'[d] = pc[d] /\ seen'[d] = seen[d]
    /\ pc'[c] \in Unborn => pc[c] \in Unborn
    /\ \/ lock' = None
       \/ lock # None /\ lock'.owner = lock.owner /\ lock'.aged = lock.aged
       \/ pc[c] = "create" /\ pc'[c] = "write" /\ lock'.owner = c
    /\ \/ seen'[c] \in {{}, seen[c]}
       \/ lock' = lock /\ seen'[c] = Content
    /\ pc'[c] = "confirm" =>
          /\ lock' = lock
          /\ \/ seen'[c] = Content /\ (lock # None /\ lock.written => lock.aged)
             \/ lock # None /\ lock.aged

LEMMA SeenIsFunction ==
    ASSUME TypeOK, NEW c \in Caller, NEW r, seen' = [seen EXCEPT ![c] = r]
    PROVE  seen'[c] = r /\ \A d \in Caller : d # c => seen'[d] = seen[d]
  BY DEF TypeOK

LEMMA BreachedStays ==
    ASSUME TypeOK
    PROVE  /\ \A b \in BOOLEAN : [trace EXCEPT !.breached = b].breached = b
           /\ \A b \in BOOLEAN : [trace EXCEPT !.overlapped = b].breached = trace.breached
           /\ \A b \in BOOLEAN : [trace EXCEPT !.recorded = b].breached = trace.breached
  BY DEF TypeOK

LEMMA StepFile ==
    ASSUME TypeOK, NEW c \in Caller, Step(c) \/ Begin(c) \/ Expire(c)
    PROVE  FileMove(c)
<1> USE PointSets, Moves, SeenIsFunction DEF FileMove, lockVars, histVars
<1>1. CASE TryCreate(c)
  <2>1. CASE /\ lock = None /\ Go(c, "write") /\ UNCHANGED <<seen, trace>>
             /\ lock' = [owner |-> c, written |-> FALSE, aged |-> FALSE]
    <3>1. pc[c] = "create" /\ lock'.owner = c
      BY <1>1, <2>1 DEF TryCreate
    <3> QED
      BY <2>1, <3>1
  <2>2. CASE lock # None /\ Go(c, "budget") /\ UNCHANGED <<lock, seen, trace>>
    BY <1>1, <2>2 DEF TryCreate
  <2>3. CASE FailOpen(c) /\ UNCHANGED <<lock, seen>>
    BY <2>3, BreachedStays DEF FailOpen
  <2> QED
    BY <1>1, <2>1, <2>2, <2>3 DEF TryCreate
<1>2. CASE WriteRecord(c)
  <2>1. \E l \in {"load", "undo"} : Go(c, l)
    BY <1>2 DEF WriteRecord
  <2>2. lock' = None \/ (lock # None /\ lock'.owner = lock.owner /\ lock'.aged = lock.aged)
    <3>1. lock' = lock \/ (lock # None /\ lock' = [lock EXCEPT !.written = TRUE])
      BY <1>2 DEF WriteRecord
    <3>2. lock = None \/ lock \in Lock
      BY DEF TypeOK
    <3> QED
      BY <3>1, <3>2, LockTypes
  <2> QED
    BY <1>2, <2>1, <2>2 DEF WriteRecord
<1>3. CASE UndoCreate(c)
  <2>1. Go(c, "load") /\ UnlinkLock(c, TRUE) /\ UNCHANGED seen
    BY <1>3 DEF UndoCreate
  <2>2. lock' = None /\ trace'.breached
    BY <2>1, BreachedStays DEF UnlinkLock
  <2> QED
    BY <2>1, <2>2
<1>4. CASE Budget(c)
  <2>1. CASE FailOpen(c) /\ UNCHANGED <<lock, seen>>
    BY <2>1, BreachedStays DEF FailOpen
  <2>2. CASE Go(c, "judge") /\ UNCHANGED <<lock, seen, trace>>
    BY <1>4, <2>2 DEF Budget
  <2> QED
    BY <1>4, <2>1, <2>2 DEF Budget
<1>5. CASE Judge(c)
  <2>1. /\ pc[c] = "judge" /\ UNCHANGED <<lock, trace>>
    BY <1>5 DEF Judge
  <2>2. PICK now \in Contents :
          IF now \notin {{}, {""}} /\ ~lock.aged
          THEN Go(c, "create") /\ UNCHANGED seen
          ELSE /\ seen' = [seen EXCEPT ![c] = now]
               /\ Go(c, IF now \in {{}, {""}} THEN "stat" ELSE "confirm")
    BY <1>5 DEF Judge
  <2>3. now \in {Content, {}}
    BY ReadingTypes
  <2>4. CASE Go(c, "create") /\ UNCHANGED seen
    BY <2>1, <2>4
  <2>5. CASE Go(c, "stat") /\ seen' = [seen EXCEPT ![c] = now]
    <3>1. seen'[c] = now /\ \A d \in Caller : d # c => seen'[d] = seen[d]
      BY <2>5
    <3>2. pc'[c] = "stat" /\ \A d \in Caller : d # c => pc'[d] = pc[d]
      BY <2>5
    <3> QED
      BY <2>1, <2>3, <3>1, <3>2
  <2>6. CASE /\ Go(c, "confirm") /\ seen' = [seen EXCEPT ![c] = now]
             /\ now \notin {{}, {""}} /\ lock.aged
    <3>1. seen'[c] = now /\ \A d \in Caller : d # c => seen'[d] = seen[d]
      BY <2>6
    <3>2. pc'[c] = "confirm" /\ \A d \in Caller : d # c => pc'[d] = pc[d]
      BY <2>6
    <3>3. now = Content
      BY <2>3, <2>6
    <3> QED
      BY <2>1, <2>6, <3>1, <3>2, <3>3
  <2> QED
    BY <2>2, <2>4, <2>5, <2>6
<1>6. CASE JudgeStat(c)
  <2>1. CASE lock # None /\ lock.aged /\ Go(c, "confirm") /\ UNCHANGED seen
    BY <1>6, <2>1 DEF JudgeStat
  <2>2. CASE Go(c, "create") /\ seen' = [seen EXCEPT ![c] = {}]
    BY <1>6, <2>2 DEF JudgeStat
  <2> QED
    BY <1>6, <2>1, <2>2 DEF JudgeStat
<1>7. CASE Confirm(c)
  <2>1. \E l \in {"create", "steal"} : Go(c, l)
    BY <1>7 DEF Confirm
  <2>2. seen'[c] = {} /\ \A d \in Caller : d # c => seen'[d] = seen[d]
    BY <1>7 DEF Confirm
  <2> QED
    BY <1>7, <2>1, <2>2 DEF Confirm
<1>8. CASE Steal(c)
  <2>1. Go(c, "create") /\ UnlinkLock(c, FALSE) /\ UNCHANGED seen
    BY <1>8 DEF Steal
  <2>2. lock' = None /\ (trace.breached => trace'.breached)
    BY <2>1, UnlinkBreaches DEF UnlinkLock
  <2>3. pc[c] = "steal"
    BY <1>8 DEF Steal
  <2> QED
    BY <2>1, <2>2, <2>3
<1>9. CASE Load(c)
  <2>1. \E l \in {"release", "check", "commit"} : Go(c, l)
    BY <1>9 DEF Load
  <2>2. trace'.breached = trace.breached
    BY <1>9, LoadTrace
  <2> QED
    BY <1>9, <2>1, <2>2 DEF Load
<1>10. CASE Check(c)
  <2>1. \E l \in {"load", "commit"} : Go(c, l)
    BY <1>10 DEF Check
  <2>2. trace'.breached = trace.breached
    BY <1>10, CheckTrace
  <2> QED
    BY <1>10, <2>1, <2>2 DEF Check
<1>11. CASE Commit(c)
  <2>1. trace'.breached = trace.breached
    <3>1. (trace.recorded \/ ~held[c]) \in BOOLEAN
      OBVIOUS
    <3> QED
      BY <1>11, <3>1, BreachedStays DEF Commit
  <2> QED
    BY <1>11, <2>1 DEF Commit
<1>12. CASE ReleaseRead(c)
  <2>1. \E l \in {"drop", "done"} : Go(c, l)
    BY <1>12 DEF ReleaseRead
  <2> QED
    BY <1>12, <2>1 DEF ReleaseRead
<1>13. CASE Drop(c)
  <2>1. /\ Go(c, "done") /\ UNCHANGED seen
        /\ UnlinkLock(c, FALSE) \/ UNCHANGED <<lock, trace>>
    BY <1>13 DEF Drop
  <2>2. (lock' = None \/ lock' = lock) /\ (trace.breached => trace'.breached)
    BY <2>1, UnlinkBreaches DEF UnlinkLock
  <2> QED
    BY <2>1, <2>2
<1>14. CASE Begin(c)
  BY <1>14 DEF Begin
<1>15. CASE Expire(c)
  BY <1>15 DEF Expire
<1> QED
  BY <1>1, <1>2, <1>3, <1>4, <1>5, <1>6, <1>7, <1>8, <1>9, <1>10, <1>11,
     <1>12, <1>13, <1>14, <1>15 DEF Step

LEMMA FileKeeps ==
    ASSUME TypeOK, TokensIssued, JudgedStale, NEW c \in Caller, FileMove(c)
    PROVE  TokensIssued' /\ JudgedStale'
<1>1. ASSUME NEW d \in Caller, pc[d] \notin Unborn PROVE pc'[d] \notin Unborn
  BY <1>1 DEF FileMove
<1>2. lock # None => lock.owner \in Caller
  BY LockTypes DEF TypeOK
<1>3. ASSUME lock' # None PROVE lock'.owner \in Caller /\ pc'[lock'.owner] \notin Unborn
  BY <1>1, <1>2, <1>3, PointSets DEF FileMove, TokensIssued
<1>4. ASSUME NEW e \in Caller, NEW d \in Caller, seen'[e] = {d}
      PROVE  pc[d] \notin Unborn
  <2>1. CASE seen[e] = {d}
    BY <2>1 DEF TokensIssued
  <2>2. CASE seen[e] # {d}
    <3>1. e = c /\ Content = {d}
      BY <1>4, <2>2 DEF FileMove
    <3>2. lock # None /\ lock.owner = d
      BY <3>1, Consts DEF Content
    <3> QED
      BY <3>2 DEF TokensIssued
  <2> QED
    BY <2>1, <2>2
<1>5. TokensIssued'
  BY <1>1, <1>3, <1>4 DEF TokensIssued
<1>6. ASSUME NEW e \in Caller, NEW d \in Caller, pc'[e] = "confirm",
             seen'[e] = {d}, lock' # None, lock'.owner = d
      PROVE  lock'.aged
  <2>1. CASE e = c
    <3>1. /\ lock' = lock /\ lock # None
          /\ \/ seen'[c] = Content /\ (lock # None /\ lock.written => lock.aged)
             \/ lock # None /\ lock.aged
      BY <1>6, <2>1 DEF FileMove
    <3>2. Content = {d} => lock.written
      BY <3>1, Consts DEF Content
    <3> QED
      BY <1>6, <2>1, <3>1, <3>2
  <2>2. CASE e # c
    <3>1. pc[e] = "confirm" /\ seen[e] = {d}
      BY <1>6, <2>2 DEF FileMove
    <3>2. pc[d] # "create"
      BY <3>1, PointSets DEF TokensIssued
    <3>3. lock # None /\ lock'.owner = lock.owner /\ lock'.aged = lock.aged
      BY <1>6, <3>2 DEF FileMove
    <3> QED
      BY <1>6, <3>1, <3>3 DEF JudgedStale
  <2> QED
    BY <2>1, <2>2
<1> QED
  BY <1>5, <1>6 DEF JudgedStale

LEMMA StepOverlap ==
    ASSUME TypeOK, LockIsTheirs, OverlapNeedsBreach, NEW c \in Caller,
           Step(c) \/ Begin(c) \/ Expire(c), FileMove(c)
    PROVE  OverlapNeedsBreach'
<1>1. trace.breached => trace'.breached
  BY DEF FileMove
<1>2. CASE Load(c)
  <2>1. /\ pc[c] = "load"
        /\ trace'.overlapped <=> trace.overlapped \/ \E d \in Writers : ProcOf[d] # ProcOf[c]
    BY <1>2, LoadTrace DEF Load
  <2>2. ASSUME NEW d \in Writers, ProcOf[d] # ProcOf[c] PROVE trace.breached
    BY <2>1, <2>2, PointSets DEF LockIsTheirs, Writers
  <2> QED
    BY <1>1, <2>1, <2>2 DEF OverlapNeedsBreach
<1>3. CASE Commit(c)
  BY <1>1, <1>3, OverlappedStays DEF OverlapNeedsBreach, Commit, histVars
<1>5. CASE Check(c)
  BY <1>1, <1>5, CheckTrace DEF OverlapNeedsBreach
<1>4. CASE ~Load(c) /\ ~Check(c) /\ ~Commit(c)
  <2>1. NoData(c)
    BY <1>4, StepNoData DEF Step
  <2> QED
    BY <1>1, <2>1 DEF OverlapNeedsBreach, NoData
<1> QED
  BY <1>2, <1>3, <1>4, <1>5

LEMMA StepKeeps ==
    ASSUME RegistryIInv, NEW c \in Caller, Step(c) \/ Begin(c) \/ Expire(c)
    PROVE  RegistryIInv'
<1> USE DEF RegistryIInv
<1>1. TypeOK' /\ Queued' /\ AttemptLeft' /\ LockIsTheirs'
  BY StepTypes, StepQueued, StepAttempt, StepLock
<1>2. TokensIssued' /\ JudgedStale' /\ OverlapNeedsBreach'
  BY StepFile, FileKeeps, StepOverlap
<1>3. WritesInTurn' /\ AllCounted'
  <2>1. CASE ~Load(c) /\ ~Check(c) /\ ~Commit(c)
    BY <2>1, StepNoData, NoDataKeeps DEF Step
  <2> QED
    BY <2>1, LoadKeeps, CheckKeeps, CommitKeeps
<1> QED
  BY <1>1, <1>2, <1>3

LEMMA AgeKeeps ==
    ASSUME RegistryIInv, Age
    PROVE  RegistryIInv'
<1>1. TypeOK'
  BY AgeTypes DEF RegistryIInv
<1>2. /\ UNCHANGED <<dataVars, held, expired, seen, histVars, pc, op>>
      /\ lock # None /\ lock' # None /\ lock'.owner = lock.owner /\ lock'.aged
  BY LockTypes DEF Age, RegistryIInv, TypeOK
<1>3. UNCHANGED <<reg, have, attempt, held, seen, truth, scans, trace, pc>>
  BY <1>2 DEF dataVars, histVars
<1>4. Queued' /\ AttemptLeft' /\ LockIsTheirs'
  BY <1>2, <1>3 DEF RegistryIInv, Queued, Active, AttemptLeft, LockIsTheirs
<1>5. WritesInTurn' /\ OverlapNeedsBreach' /\ AllCounted'
  BY <1>3 DEF RegistryIInv, WritesInTurn, Writers, OverlapNeedsBreach,
     AllCounted, Counted
<1>6. TokensIssued' /\ JudgedStale'
  BY <1>2, <1>3 DEF RegistryIInv, TokensIssued, JudgedStale
<1> QED
  BY <1>1, <1>4, <1>5, <1>6 DEF RegistryIInv

(* A killed process leaves the lock file, and no caller at work. *)
LEMMA CrashKeeps ==
    ASSUME RegistryIInv, NEW r \in Process, Crash(r)
    PROVE  RegistryIInv'
<1>0. TypeOK
  BY DEF RegistryIInv
<1>1. TypeOK'
  BY <1>0, CrashTypes
<1>2. UNCHANGED <<reg, lock, truth, scans, trace>>
  BY DEF Crash, histVars
<1>3. \A c \in Caller :
        \/ pc'[c] \in Over /\ have'[c] \in {NoRegistry, have[c]} /\ seen'[c] \in {{}, seen[c]}
        \/ /\ pc'[c] = pc[c] /\ held'[c] = held[c] /\ have'[c] = have[c]
           /\ seen'[c] = seen[c] /\ attempt'[c] = attempt[c]
  BY <1>0, PointSets DEF Crash, TypeOK
<1>4. Queued' /\ AttemptLeft' /\ LockIsTheirs'
  <2>1. Queued'
    BY <1>3, PointSets DEF RegistryIInv, Queued, Active
  <2>2. AttemptLeft'
    BY <1>3, PointSets DEF RegistryIInv, AttemptLeft
  <2>3. LockIsTheirs'
    BY <1>2, <1>3, PointSets DEF RegistryIInv, LockIsTheirs
  <2> QED
    BY <2>1, <2>2, <2>3
<1>5. WritesInTurn' /\ OverlapNeedsBreach' /\ AllCounted'
  <2>1. WritesInTurn'
    BY <1>2, <1>3, PointSets DEF RegistryIInv, WritesInTurn, Writers
  <2>2. AllCounted'
    BY <1>2, <1>3, NoRegistryType DEF RegistryIInv, AllCounted, Counted
  <2> QED
    BY <1>2, <2>1, <2>2 DEF RegistryIInv, OverlapNeedsBreach
<1>6. TokensIssued' /\ JudgedStale'
  <2>1. \A c \in Caller : pc[c] \notin Unborn => pc'[c] \notin Unborn
    BY <1>3, PointSets
  <2>2. lock # None => lock.owner \in Caller
    BY <1>0, LockTypes DEF TypeOK
  <2>3. TokensIssued'
    BY <1>2, <1>3, <2>1, <2>2 DEF RegistryIInv, TokensIssued
  <2>4. JudgedStale'
    BY <1>2, <1>3, PointSets DEF RegistryIInv, JudgedStale
  <2> QED
    BY <2>3, <2>4
<1> QED
  BY <1>1, <1>4, <1>5, <1>6 DEF RegistryIInv

LEMMA RegistryGoesOn ==
    ASSUME RegistryIInv, [Next]_vars
    PROVE  RegistryIInv'
<1>1. CASE UNCHANGED vars
  <2>1. TypeOK' /\ Queued' /\ AttemptLeft' /\ LockIsTheirs'
    BY <1>1, Unchanged DEF RegistryIInv, TypeOK, Loaded, Projects, Queued, Active,
       AttemptLeft, LockIsTheirs
  <2>2. WritesInTurn' /\ OverlapNeedsBreach' /\ AllCounted' /\ TokensIssued' /\ JudgedStale'
    BY <1>1, Unchanged DEF RegistryIInv, WritesInTurn, Writers, OverlapNeedsBreach,
       AllCounted, Counted, TokensIssued, JudgedStale
  <2> QED
    BY <2>1, <2>2 DEF RegistryIInv
<1> QED
  BY <1>1, StepKeeps, AgeKeeps, CrashKeeps DEF Next

LEMMA RegistryInvariant == Spec => []RegistryIInv
  BY RegistryBegins, RegistryGoesOn, PTL DEF Spec

-----------------------------------------------------------------------------
(* Every reachable state of the registry, its lock and its callers has its  *)
(* types, and no caller replays more than MAX_CAS_ATTEMPTS conflicts.       *)
THEOREM RegistryTypeCorrect == Spec => []TypeOK
<1>1. RegistryIInv => TypeOK
  BY DEF RegistryIInv
<1> QED
  BY <1>1, RegistryInvariant, PTL

(* mutateRegistry: unless two processes were between their load and their   *)
(* write at once, or reads that failed, and no comparison, let a writer     *)
(* take the registry for empty, the file is what the writes, made one by    *)
(* one, give.                                                               *)
THEOREM NoSilentLoss == Spec => []LossNeedsOverlap
<1>1. RegistryIInv => LossNeedsOverlap
  BY DEF RegistryIInv, WritesInTurn, LossNeedsOverlap
<1> QED
  BY <1>1, RegistryInvariant, PTL

(* withRegistryLock: two processes are in there at once only after one went *)
(* on without the lock, or a holder's lock file was unlinked.               *)
THEOREM LockExcludes == Spec => []OverlapNeedsBreach
<1>1. RegistryIInv => OverlapNeedsBreach
  BY DEF RegistryIInv
<1> QED
  BY <1>1, RegistryInvariant, PTL

(* The closure of registerProject is replayed on what is on disk: however   *)
(* often it is replayed, and whoever overlaps, no scan is counted twice.    *)
THEOREM NoScanTwice == Spec => []ScansCountedOnce
<1>1. RegistryIInv => ScansCountedOnce
  BY DEF RegistryIInv, AllCounted, Counted, ScansCountedOnce
<1> QED
  BY <1>1, RegistryInvariant, PTL

(* stealIfStale: a step from the second read to the unlink is one that read *)
(* the record it judged, and that record is stale.                          *)
LEMMA ConfirmStale ==
    ASSUME RegistryIInv, NEW c \in Caller, Confirm(c), pc'[c] = "steal",
           seen[c] # {}
    PROVE  lock.aged \/ ~lock.written
<1>1. pc[c] = "confirm" /\ lock # None /\ seen[c] = Content
  <2>1. PICK now \in Contents :
          Go(c, IF now # {} /\ seen[c] \in {{}, now} THEN "steal" ELSE "create")
    BY DEF Confirm
  <2>2. now # {} /\ seen[c] \in {{}, now}
    <3>1. pc'[c] = IF now # {} /\ seen[c] \in {{}, now} THEN "steal" ELSE "create"
      BY <2>1 DEF Go, RegistryIInv, TypeOK
    <3> QED
      BY <3>1
  <2>3. now = Content
    BY <2>2, ReadingTypes DEF RegistryIInv
  <2> QED
    BY <2>2, <2>3 DEF Confirm, Content
<1>2. lock.owner \in Caller
  BY <1>1, LockTypes DEF RegistryIInv, TypeOK
<1>3. CASE lock.written
  BY <1>1, <1>2, <1>3 DEF Content, RegistryIInv, JudgedStale
<1> QED
  BY <1>3

LEMMA OnlyConfirmSteals ==
    ASSUME TypeOK, NEW c \in Caller, Next, pc[c] = "confirm", pc'[c] = "steal"
    PROVE  Confirm(c)
<1>1. ~Age /\ \A r \in Process : ~Crash(r)
  BY PointSets DEF Age, Crash, TypeOK
<1>2. PICK d \in Caller : Begin(d) \/ Expire(d) \/ Step(d)
  BY <1>1 DEF Next
<1>3. d = c
  <2>1. \A e \in Caller : e # d => pc'[e] = pc[e]
    BY <1>2, StepFile DEF FileMove
  <2> QED
    BY <2>1
<1> QED
  BY <1>2, <1>3 DEF Step, Begin, Expire, TryCreate, WriteRecord, UndoCreate,
     Budget, Judge, JudgeStat, Confirm, Steal, Load, Check, Commit, ReleaseRead,
     Drop

(* stealIfStale unlinks no lock that was created after it judged one: what  *)
(* is there when it goes on to the unlink is stale, or has no record.       *)
THEOREM OnlyStaleIsStolen == Spec => StealsTheStale
<1>1. ASSUME RegistryIInv, [Next]_vars
      PROVE  [\A c \in Caller :
                pc[c] = "confirm" /\ pc'[c] = "steal" /\ seen[c] # {} =>
                    lock.aged \/ ~lock.written]_vars
  <2> SUFFICES ASSUME Next, NEW c \in Caller, pc[c] = "confirm",
                      pc'[c] = "steal", seen[c] # {}
               PROVE  lock.aged \/ ~lock.written
    BY <1>1
  <2>1. Confirm(c)
    BY <1>1, OnlyConfirmSteals DEF RegistryIInv
  <2> QED
    BY <1>1, <2>1, ConfirmStale
<1> QED
  BY <1>1, RegistryInvariant, PTL DEF Spec, StealsTheStale
=============================================================================
