------------------------------ MODULE ScanLease ------------------------------
(***************************************************************************)
(* The scan lease of src/scan-lock.ts: `.navgator/scan.lock`, the lock     *)
(* that makes one process at a time the writer of a project's              *)
(* architecture store, and (with its own path) the ledger lock of          *)
(* freshness/dirty-ledger.ts.                                              *)
(*                                                                         *)
(* Three kinds of files take part.  The LEASE is the lock itself.  The     *)
(* GATE (`<lock>.acquire`) is held only while a process inspects, reclaims *)
(* and publishes the lease.  A CLAIM (`<gate>.recover.<token>`) elects the *)
(* one process that may delete the gate of a dead owner; claims are never  *)
(* deleted.  Every file is published by an atomic no-overwrite hard link,  *)
(* so a reader sees a complete record or none.                             *)
(*                                                                         *)
(* A process runs JavaScript: an acquisition is one synchronous call that  *)
(* other processes interleave with at every file operation, and timers     *)
(* (heartbeat, release retries) run only when no call is in progress.  The *)
(* control point of the call is pc[p]; "loop" is the event loop.           *)
(*                                                                         *)
(* Left out: heartbeat_at and started_at (canReclaim does not read them),  *)
(* the wording of messages, the candidate files of publishNewLease.        *)
(***************************************************************************)
EXTENDS Naturals

CONSTANTS
    Proc,        \* process lifetimes: a restarted program is another member
    Pid,         \* process ids, which the system may use again
    Boot,        \* boot identities bootFingerprint() may report
    Unknown,     \* the fingerprint of a process that could not be looked up
    None,        \* no file at the path, no token
    Corrupt,     \* a file that readScanLease cannot parse
    MaxUses,     \* bound on the tokens one process draws (not in the code)
    ClaimDepth,  \* length of the claim chain, 16 in claimDeadGateGeneration
    Faults       \* TRUE if reads, publishes and unlinks may fail

Token  == Proc \X Nat
Record == [tok : Token, boot : Boot \cup {Unknown}]
Claim  == [gate : Token, depth : Nat, subject : Token, tok : Token,
           boot : Boot \cup {Unknown}]

ASSUME SentinelAssumption ==
    /\ None \notin Record /\ Corrupt \notin Record /\ None # Corrupt
    /\ None \notin Token /\ Unknown \notin Boot
ASSUME BoundAssumption == MaxUses \in Nat /\ ClaimDepth \in Nat \ {0}
ASSUME FaultAssumption == Faults \in BOOLEAN

VARIABLES
    life,        \* unborn, alive or dead
    pid, boot,   \* what the system gave each process; never changes
    uses,        \* tokens each process has drawn
    gate, lease, \* the record at each path, None or Corrupt
    claims,      \* the claim files; see ClaimAt for their path
    pc,          \* where each process is in its synchronous call
    tok,         \* the token the call works with
    fp,          \* the caller's fingerprint, as looked up by the call
    seen,        \* the record the call last read
    depth, subject, \* how far up the claim chain it has come
    late,        \* TRUE once its wait budget has run out
    held,        \* tokens of the leases handed to scans now running
    gateRetry,   \* gate tokens whose release waits on a timer
    leaseRetry,  \* lease tokens whose release waits on a timer
    \* What the properties need to know of reads that failed:
    gateLeft,    \* gates whose release took them for another's, unread
    leaseLeft,   \* leases whose release did
    blind        \* TRUE once a live owner's lease was reclaimed unread

osVars   == <<life, pid, boot>>
fileVars == <<gate, lease, claims>>
ownVars  == <<held, gateRetry, leaseRetry>>
callVars == <<pc, tok, fp, seen, depth, subject, late>>
pastVars == <<gateLeft, leaseLeft, blind>>
vars     == <<osVars, uses, fileVars, callVars, ownVars, pastVars>>

Points ==
    {"loop", "gate", "gateRead", "gateJudge", "claim", "claimJudge",
     "recheck", "gateReap", "lease", "leaseRead", "leaseJudge",
     "leaseRecheck", "leaseReap", "leaseAgain", "gateCheck", "gateDrop",
     "beat", "leaseCheck", "leaseDrop"}

Alive(p) == life[p] = "alive"
At(p, l) == Alive(p) /\ pc[p] = l

(* The ways a call goes on: to its next point, to a point with what it just *)
(* read, up the claim chain, into a call of a timer or of a scan, and out.  *)
Goto(p, l) == /\ pc' = [pc EXCEPT ![p] = l]
              /\ UNCHANGED <<tok, fp, seen, depth, subject, late>>
Read(p, l, f) == /\ pc' = [pc EXCEPT ![p] = l]
                 /\ seen' = [seen EXCEPT ![p] = f]
                 /\ UNCHANGED <<tok, fp, depth, subject, late>>
(* Mutant: the link it goes on from is not remembered. *)
ClimbBlind(p, d, t) == /\ pc' = [pc EXCEPT ![p] = "claim"]
                       /\ depth' = [depth EXCEPT ![p] = d]
                       /\ UNCHANGED <<tok, fp, seen, subject, late>>
Climb(p, d, t) == /\ pc' = [pc EXCEPT ![p] = "claim"]
                  /\ depth' = [depth EXCEPT ![p] = d]
                  /\ subject' = [subject EXCEPT ![p] = t]
                  /\ UNCHANGED <<tok, fp, seen, late>>
Enter(p, l, t, b, r) == /\ pc' = [pc EXCEPT ![p] = l]
                        /\ tok' = [tok EXCEPT ![p] = t]
                        /\ fp' = [fp EXCEPT ![p] = b]
                        /\ seen' = [seen EXCEPT ![p] = r]
                        /\ UNCHANGED <<depth, subject, late>>
Leave(p, l, t) == /\ pc' = [pc EXCEPT ![p] = l]
                  /\ tok' = [tok EXCEPT ![p] = t]
                  /\ fp' = [fp EXCEPT ![p] = Unknown]
                  /\ seen' = [seen EXCEPT ![p] = None]
                  /\ depth' = [depth EXCEPT ![p] = 0]
                  /\ subject' = [subject EXCEPT ![p] = None]
                  /\ late' = [late EXCEPT ![p] = FALSE]
Return(p) == Leave(p, "loop", None)

Owner(t) == t[1]
GateIs(t)  == gate \in Record /\ gate.tok = t
LeaseIs(t) == lease \in Record /\ lease.tok = t
(* readScanLease: its catch makes one answer, null, of a missing file, of   *)
(* one that cannot be parsed, and of any read that fails.                   *)
Parsed(f) == IF f = Corrupt THEN None ELSE f
Readings(f) == {Parsed(f)} \cup (IF Faults THEN {None} ELSE {})
(* What the caller's own records carry: its token, and its fingerprint    *)
(* when the lookup at the start of acquireScanLease found one.            *)
OwnRecord(p) == [tok |-> tok[p], boot |-> fp[p]]

-----------------------------------------------------------------------------
(***************************************************************************)
(* canReclaim.  process.kill(pid, 0) sees any process with that pid.  The  *)
(* fingerprint of the process that has the pid now is the boot identity as *)
(* the READER computes it, with that process's start; `known` is FALSE     *)
(* when the lookup fails.                                                  *)
(***************************************************************************)
PidAlive(o) == \E x \in Proc : Alive(x) /\ pid[x] = pid[o]

Recycled(p, r) ==
    /\ r.boot # Unknown
    /\ \E x \in Proc : /\ Alive(x) /\ pid[x] = pid[Owner(r.tok)]
                       /\ x # Owner(r.tok) \/ boot[p] # r.boot

(* Mutant: a lookup that failed counts as a mismatch. *)
CanReclaimUnknown(p, r, known) ==
    ~PidAlive(Owner(r.tok)) \/ ~known \/ Recycled(p, r)
CanReclaim(p, r, known) ==
    ~PidAlive(Owner(r.tok)) \/ (known /\ Recycled(p, r))

-----------------------------------------------------------------------------
Init ==
    /\ life = [p \in Proc |-> "unborn"]
    /\ pid \in [Proc -> Pid]
    /\ boot \in [Proc -> Boot]
    /\ uses = [p \in Proc |-> 0]
    /\ gate \in {None, Corrupt}
    /\ lease \in {None, Corrupt}
    /\ claims = {}
    /\ pc = [p \in Proc |-> "loop"]
    /\ tok = [p \in Proc |-> None]
    /\ fp = [p \in Proc |-> Unknown]
    /\ seen = [p \in Proc |-> None]
    /\ depth = [p \in Proc |-> 0]
    /\ subject = [p \in Proc |-> None]
    /\ late = [p \in Proc |-> FALSE]
    /\ held = [p \in Proc |-> {}]
    /\ gateRetry = [p \in Proc |-> {}]
    /\ leaseRetry = [p \in Proc |-> {}]
    /\ gateLeft = {} /\ leaseLeft = {} /\ blind = FALSE

(* A process starts; no two processes have one pid at the same time. *)
Start(p) ==
    /\ life[p] = "unborn"
    /\ \A q \in Proc : Alive(q) => pid[q] # pid[p]
    /\ life' = [life EXCEPT ![p] = "alive"]
    /\ UNCHANGED <<pid, boot, uses, fileVars, callVars, ownVars, pastVars>>

(* It is killed, or exits: its timers are unref'd and do not keep it alive. *)
(* Its calls, scans and timers are gone with it.                            *)
Crash(p) ==
    /\ Alive(p)
    /\ life' = [life EXCEPT ![p] = "dead"]
    /\ Return(p)
    /\ held' = [held EXCEPT ![p] = {}]
    /\ gateRetry' = [gateRetry EXCEPT ![p] = {}]
    /\ leaseRetry' = [leaseRetry EXCEPT ![p] = {}]
    /\ gateLeft' = {t \in gateLeft : Owner(t) # p}
    /\ leaseLeft' = {t \in leaseLeft : Owner(t) # p}
    /\ UNCHANGED <<pid, boot, uses, fileVars, blind>>

-----------------------------------------------------------------------------
(* acquireScanLease: draw the tokens (one stands for the gate's and the     *)
(* lease's, which are in different files) and look up the own fingerprint. *)
Begin(p) ==
    /\ At(p, "loop")
    /\ uses[p] < MaxUses
    /\ uses' = [uses EXCEPT ![p] = @ + 1]
    /\ \E b \in {boot[p], Unknown} :
         Enter(p, "gate", <<p, uses[p] + 1>>, b, None)
    /\ UNCHANGED <<osVars, fileVars, ownVars, pastVars>>

(* The wait budget of the gate loop (gateWaitMs) runs out. *)
Expire(p) ==
    /\ Alive(p) /\ ~late[p]
    /\ pc[p] \in {"gate", "gateRead", "gateJudge", "claim", "claimJudge",
                       "recheck", "gateReap"}
    /\ late' = [late EXCEPT ![p] = TRUE]
    /\ UNCHANGED <<osVars, uses, fileVars, ownVars>>
    /\ UNCHANGED <<pc, tok, fp, seen, depth, subject, pastVars>>

(* publishNewLease(gatePath): the link succeeds, finds a file, or fails. *)
GatePublish(p) ==
    /\ At(p, "gate")
    /\ \/ gate = None /\ gate' = OwnRecord(p) /\ Goto(p, "lease")
       \/ gate # None /\ gate' = gate /\ Goto(p, "gateRead")
       \/ Faults /\ gate' = gate /\ Return(p)
    /\ UNCHANGED <<osVars, uses, lease, claims, ownVars, pastVars>>

GateRead(p) ==
    /\ At(p, "gateRead")
    /\ \E now \in Readings(gate) : Read(p, "gateJudge", now)
    /\ UNCHANGED <<osVars, uses, fileVars, ownVars, pastVars>>

(* Sleep and try again, or give up when the budget is spent: the outcome is *)
(* `operational` for an unreadable gate, `contention` for a live one.       *)
PollAgain(p) ==
    /\ pc' = [pc EXCEPT ![p] = "gate"]
    /\ seen' = [seen EXCEPT ![p] = None]
    /\ depth' = [depth EXCEPT ![p] = 0]
    /\ subject' = [subject EXCEPT ![p] = None]
    /\ UNCHANGED <<tok, fp, late>>
(* Mutant: the deadline is not looked at. *)
WaitForEver(p) == PollAgain(p)
WaitOrGiveUp(p) == IF late[p] THEN Return(p) ELSE PollAgain(p)

(* Mutant: a gate that outlasts the wait budget is taken for abandoned. *)
GateJudgeImpatient(p) ==
    /\ At(p, "gateJudge")
    /\ IF seen[p] # None /\ (late[p] \/ CanReclaim(p, seen[p], TRUE))
       THEN Climb(p, 0, seen[p].tok)
       ELSE WaitOrGiveUp(p)
    /\ UNCHANGED <<osVars, uses, fileVars, ownVars, pastVars>>
GateJudge(p) ==
    /\ At(p, "gateJudge")
    /\ \/ seen[p] = None /\ WaitOrGiveUp(p)
       \/ /\ seen[p] # None
          /\ \E known \in BOOLEAN :
               IF CanReclaim(p, seen[p], known)
               THEN Climb(p, 0, seen[p].tok)
               ELSE WaitOrGiveUp(p)
    /\ UNCHANGED <<osVars, uses, fileVars, ownVars, pastVars>>

-----------------------------------------------------------------------------
(* claimDeadGateGeneration.  The path of a claim is the gate's, the token   *)
(* of the dead gate, and the tokens of the claims it goes on from, down to  *)
(* its subject's: the file, if any, that p's next claim would collide with. *)
ClaimAt(p) == {c \in claims : /\ c.gate = seen[p].tok
                              /\ c.depth = depth[p]
                              /\ c.subject = subject[p]}

ClaimPublish(p) ==
    /\ At(p, "claim")
    /\ \/ /\ ClaimAt(p) = {}
          /\ claims' = claims \cup
               {[gate |-> seen[p].tok, depth |-> depth[p],
                 subject |-> subject[p], tok |-> <<p, uses[p] + 1>>,
                 boot |-> fp[p]]}
          /\ uses' = [uses EXCEPT ![p] = @ + 1]
          /\ Goto(p, "recheck")
       \/ /\ ClaimAt(p) # {}
          /\ Goto(p, "claimJudge")
          /\ UNCHANGED <<uses, claims>>
       \/ Faults /\ Return(p) /\ UNCHANGED <<uses, claims>>
    /\ UNCHANGED <<osVars, gate, lease, ownVars, pastVars>>

(* Wait for a live claimant, without looking at the deadline; go on to the  *)
(* claim of a dead one; give up at the end of the chain, and on a claim     *)
(* that cannot be read.                                                     *)
ClaimJudge(p) ==
    /\ At(p, "claimJudge")
    /\ \/ \E c \in ClaimAt(p), known \in BOOLEAN :
            IF ~CanReclaim(p, c, known) THEN PollAgain(p)
            ELSE IF depth[p] + 1 = ClaimDepth THEN Return(p)
            ELSE Climb(p, depth[p] + 1, c.tok)
       \/ Faults /\ Return(p)
    /\ UNCHANGED <<osVars, uses, fileVars, ownVars, pastVars>>

(* The claimant re-reads the gate and unlinks it only if it is the one seen. *)
Recheck(p) ==
    /\ At(p, "recheck")
    /\ \E now \in Readings(gate) :
         IF now # None /\ now.tok = seen[p].tok
         THEN Goto(p, "gateReap") ELSE PollAgain(p)
    /\ UNCHANGED <<osVars, uses, fileVars, ownVars, pastVars>>

(* An error of this unlink is swallowed. *)
GateReap(p) ==
    /\ At(p, "gateReap")
    /\ gate' = None \/ (Faults /\ gate' = gate)
    /\ PollAgain(p)
    /\ UNCHANGED <<osVars, uses, lease, claims, ownVars, pastVars>>

-----------------------------------------------------------------------------
(* The critical section.  Every way out of it goes through gate.release(),  *)
(* the finally clause: FinishAcquire.                                       *)
FinishAcquire(p) == Leave(p, "gateCheck", tok[p])

(* Mutant: the lease is published by a rename, which replaces a file. *)
LeasePublishOver(p) ==
    /\ At(p, "lease")
    /\ lease' = OwnRecord(p)
    /\ held' = [held EXCEPT ![p] = @ \cup {tok[p]}]
    /\ FinishAcquire(p)
    /\ UNCHANGED <<osVars, uses, gate, claims, gateRetry, leaseRetry, pastVars>>

(* publishLease at the first attempt: granted, taken, or an I/O error. *)
LeasePublish(p) ==
    /\ At(p, "lease")
    /\ \/ /\ lease = None
          /\ lease' = OwnRecord(p)
          /\ held' = [held EXCEPT ![p] = @ \cup {tok[p]}]
          /\ FinishAcquire(p)
       \/ /\ lease # None
          /\ Goto(p, "leaseRead")
          /\ UNCHANGED <<lease, held>>
       \/ /\ Faults
          /\ FinishAcquire(p)
          /\ UNCHANGED <<lease, held>>
    /\ UNCHANGED <<osVars, uses, gate, claims, gateRetry, leaseRetry, pastVars>>

LeaseRead(p) ==
    /\ At(p, "leaseRead")
    /\ \E now \in Readings(lease) : Read(p, "leaseJudge", now)
    /\ UNCHANGED <<osVars, uses, fileVars, ownVars, pastVars>>

(* The owner of a readable record that cannot be reclaimed is busy. *)
LeaseJudge(p) ==
    /\ At(p, "leaseJudge")
    /\ \E known \in BOOLEAN :
         IF seen[p] # None /\ ~CanReclaim(p, seen[p], known)
         THEN FinishAcquire(p)
         ELSE Goto(p, "leaseRecheck")
    /\ UNCHANGED <<osVars, uses, fileVars, ownVars, pastVars>>

(* removeIfStillReclaimable up to its unlink: the record is read again and  *)
(* must be the one seen, and still reclaimable.  A file read neither time   *)
(* is reclaimed on its age alone (either answer is possible of any file:    *)
(* heartbeats may be late), and a missing one counts as removed.            *)
LeaseRecheck(p) ==
    /\ At(p, "leaseRecheck")
    /\ \E now \in Readings(lease) :
         \/ /\ now # None
            /\ \E known \in BOOLEAN :
                 IF /\ seen[p] # None => now.tok = seen[p].tok
                    /\ CanReclaim(p, now, known)
                 THEN Read(p, "leaseReap", now) ELSE FinishAcquire(p)
            /\ UNCHANGED blind
         \/ /\ now = None /\ (seen[p] # None \/ lease # None \/ Faults)
            /\ FinishAcquire(p)
            /\ UNCHANGED blind
         \/ /\ now = None /\ seen[p] = None /\ lease = None
            /\ Goto(p, "leaseAgain")
            /\ UNCHANGED blind
         \/ /\ now = None /\ seen[p] = None /\ lease # None
            /\ Goto(p, "leaseReap")
            /\ blind' = (blind \/ (lease \in Record /\ Alive(Owner(lease.tok))))
    /\ UNCHANGED <<osVars, uses, fileVars, ownVars, gateLeft, leaseLeft>>

LeaseReap(p) ==
    /\ At(p, "leaseReap")
    /\ \/ lease' = None /\ Goto(p, "leaseAgain")
       \/ Faults /\ lease' = lease /\ FinishAcquire(p)
    /\ UNCHANGED <<osVars, uses, gate, claims, ownVars, pastVars>>

(* The second and last attempt: whatever it finds there is busy. *)
LeaseAgain(p) ==
    /\ At(p, "leaseAgain")
    /\ FinishAcquire(p)
    /\ \/ /\ lease = None
          /\ lease' = OwnRecord(p)
          /\ held' = [held EXCEPT ![p] = @ \cup {tok[p]}]
       \/ /\ lease # None \/ Faults
          /\ UNCHANGED <<lease, held>>
    /\ UNCHANGED <<osVars, uses, gate, claims, gateRetry, leaseRetry, pastVars>>

-----------------------------------------------------------------------------
(* attemptRelease of the gate: a token check and an unlink, the latter      *)
(* retried from a timer while it fails.                                     *)
GateCheck(p) ==
    /\ At(p, "gateCheck")
    /\ \E now \in Readings(gate) :
         IF now # None /\ now.tok = tok[p]
         THEN Goto(p, "gateDrop") /\ UNCHANGED gateLeft
         ELSE /\ Return(p)
              /\ gateLeft' = IF GateIs(tok[p]) THEN gateLeft \cup {tok[p]} ELSE gateLeft
    /\ UNCHANGED <<osVars, uses, fileVars, ownVars, leaseLeft, blind>>

(* Mutant: a release that failed is not tried again. *)
GateDropOnce(p) ==
    /\ At(p, "gateDrop")
    /\ Return(p)
    /\ gate' = None \/ (Faults /\ gate' = gate)
    /\ UNCHANGED <<osVars, uses, lease, claims, ownVars, pastVars>>

GateDrop(p) ==
    /\ At(p, "gateDrop")
    /\ Return(p)
    /\ \/ gate' = None /\ UNCHANGED gateRetry
       \/ /\ Faults /\ gate' = gate
          /\ gateRetry' = [gateRetry EXCEPT ![p] = @ \cup {tok[p]}]
    /\ UNCHANGED <<osVars, uses, lease, claims, held, leaseRetry, pastVars>>

GateTimer(p) ==
    /\ At(p, "loop")
    /\ \E t \in gateRetry[p] :
         /\ gateRetry' = [gateRetry EXCEPT ![p] = @ \ {t}]
         /\ Enter(p, "gateCheck", t, Unknown, None)
    /\ UNCHANGED <<osVars, uses, fileVars, held, leaseRetry, pastVars>>

(* The heartbeat: it reads the lease, and renames a fresh record over it    *)
(* only if the token is still its own.  It goes on while a release retries. *)
Beat(p) ==
    /\ At(p, "loop")
    /\ \E t \in held[p] \cup leaseRetry[p] :
         /\ Parsed(lease) # None /\ lease.tok = t
         /\ Enter(p, "beat", t, Unknown, lease)
    /\ UNCHANGED <<osVars, uses, fileVars, ownVars, pastVars>>

BeatRename(p) ==
    /\ At(p, "beat")
    /\ lease' = seen[p] \/ (Faults /\ lease' = lease)
    /\ Return(p)
    /\ UNCHANGED <<osVars, uses, gate, claims, ownVars, pastVars>>

(* The scan that holds t is over and calls release(). *)
Release(p) ==
    /\ At(p, "loop")
    /\ \E t \in held[p] :
         /\ held' = [held EXCEPT ![p] = @ \ {t}]
         /\ Enter(p, "leaseCheck", t, Unknown, None)
    /\ UNCHANGED <<osVars, uses, fileVars, gateRetry, leaseRetry, pastVars>>

LeaseCheck(p) ==
    /\ At(p, "leaseCheck")
    /\ \E now \in Readings(lease) :
         IF now # None /\ now.tok = tok[p]
         THEN Goto(p, "leaseDrop") /\ UNCHANGED leaseLeft
         ELSE /\ Return(p)
              /\ leaseLeft' = IF LeaseIs(tok[p]) THEN leaseLeft \cup {tok[p]} ELSE leaseLeft
    /\ UNCHANGED <<osVars, uses, fileVars, ownVars, gateLeft, blind>>

LeaseDrop(p) ==
    /\ At(p, "leaseDrop")
    /\ Return(p)
    /\ \/ lease' = None /\ UNCHANGED leaseRetry
       \/ /\ Faults /\ lease' = lease
          /\ leaseRetry' = [leaseRetry EXCEPT ![p] = @ \cup {tok[p]}]
    /\ UNCHANGED <<osVars, uses, gate, claims, held, gateRetry, pastVars>>

LeaseTimer(p) ==
    /\ At(p, "loop")
    /\ \E t \in leaseRetry[p] :
         /\ leaseRetry' = [leaseRetry EXCEPT ![p] = @ \ {t}]
         /\ Enter(p, "leaseCheck", t, Unknown, None)
    /\ UNCHANGED <<osVars, uses, fileVars, held, gateRetry, pastVars>>

-----------------------------------------------------------------------------
(* The steps of a call in progress. *)
CallStep(p) ==
    \/ GatePublish(p) \/ GateRead(p) \/ GateJudge(p)
    \/ ClaimPublish(p) \/ ClaimJudge(p) \/ Recheck(p) \/ GateReap(p)
    \/ LeasePublish(p) \/ LeaseRead(p) \/ LeaseJudge(p) \/ LeaseRecheck(p)
    \/ LeaseReap(p) \/ LeaseAgain(p)
    \/ GateCheck(p) \/ GateDrop(p) \/ BeatRename(p)
    \/ LeaseCheck(p) \/ LeaseDrop(p)

TimerStep(p) == GateTimer(p) \/ LeaseTimer(p)

Next ==
    \E p \in Proc :
        \/ Start(p) \/ Crash(p) \/ Begin(p) \/ Expire(p)
        \/ CallStep(p) \/ TimerStep(p) \/ Beat(p) \/ Release(p)

Spec == Init /\ [][Next]_vars

(* A live process that is not stopped runs its call to the end, its timers  *)
(* fire, and its clock runs.  Nothing is assumed of starts, of new calls or *)
(* of the length of a scan.                                                 *)
FairSpec ==
    /\ Spec
    /\ \A p \in Proc : /\ WF_vars(CallStep(p))
                       /\ WF_vars(Expire(p))
                       /\ WF_vars(TimerStep(p))

-----------------------------------------------------------------------------
(* Type correctness of every variable. *)
CallTypeOK ==
    /\ pc \in [Proc -> Points]
    /\ tok \in [Proc -> Token \cup {None}]
    /\ fp \in [Proc -> Boot \cup {Unknown}]
    /\ seen \in [Proc -> Record \cup {None}]
    /\ depth \in [Proc -> Nat]
    /\ subject \in [Proc -> Token \cup {None}]
    /\ late \in [Proc -> BOOLEAN]

FileTypeOK ==
    /\ gate \in Record \cup {None, Corrupt}
    /\ lease \in Record \cup {None, Corrupt}
    /\ claims \in SUBSET Claim

OwnTypeOK ==
    /\ life \in [Proc -> {"unborn", "alive", "dead"}]
    /\ pid \in [Proc -> Pid]
    /\ boot \in [Proc -> Boot]
    /\ uses \in [Proc -> Nat]
    /\ held \in [Proc -> SUBSET Token]
    /\ gateRetry \in [Proc -> SUBSET Token]
    /\ leaseRetry \in [Proc -> SUBSET Token]
    /\ gateLeft \in SUBSET Token /\ leaseLeft \in SUBSET Token
    /\ blind \in BOOLEAN

(* A call has a token; its walk up the claims has what it walks from. *)
SetTypeOK ==
    \A p \in Proc :
        /\ pc[p] # "loop" => tok[p] # None
        /\ pc[p] \in {"claim", "claimJudge", "recheck", "gateReap"}
             => seen[p] # None /\ subject[p] # None

TypeOK == CallTypeOK /\ FileTypeOK /\ OwnTypeOK /\ SetTypeOK

(* No two scans run under the lease at once, in one process or in two:      *)
(* whatever acquireScanLease granted and release() did not yet give back,   *)
(* in processes that are still alive, is one token.  It takes two failed    *)
(* reads in a row, of a live owner's lease whose heartbeat is late, to      *)
(* break this (`blind`).                                                    *)
OneWriter ==
    \A p, q \in Proc : \A s \in held[p], t \in held[q] :
        Alive(p) /\ Alive(q) /\ ~blind => s = t

(* A scan that is running has its own record at the lease's path: neither a *)
(* reclaim, nor another owner's heartbeat or late release, removed or       *)
(* replaced it ("no replacement owner can appear between this token check   *)
(* and unlink", attemptRelease), but for a reclaim of a lease not read.     *)
WriterOnDisk ==
    \A p \in Proc : Alive(p) /\ ~blind => \A t \in held[p] : LeaseIs(t)

CriticalPoints == {"lease", "leaseRead", "leaseJudge", "leaseRecheck",
                   "leaseReap", "leaseAgain"}

(* The reclaim-and-publish section of acquireScanLease runs in one live     *)
(* process at a time, even while gates of dead owners are being removed by  *)
(* the claim election.                                                      *)
OneInGate ==
    \A p, q \in Proc :
        /\ Alive(p) /\ pc[p] \in CriticalPoints
        /\ Alive(q) /\ pc[q] \in CriticalPoints
        => p = q

(* The process about to unlink the gate of a dead owner, or its own gate or *)
(* lease, unlinks what it looked at: the file was not replaced between its  *)
(* token check and the unlink.  A lease it could not read is a corrupt one  *)
(* or a dead owner's, unless `blind`.                                       *)
UnlinksWhatItChecked ==
    \A p \in Proc :
        /\ At(p, "gateReap")  => GateIs(seen[p].tok)
        /\ At(p, "gateDrop")  => GateIs(tok[p])
        /\ At(p, "leaseDrop") /\ ~blind => LeaseIs(tok[p])
        /\ At(p, "leaseReap") /\ ~blind =>
             IF seen[p] # None THEN LeaseIs(seen[p].tok)
             ELSE lease \in Record => ~Alive(Owner(lease.tok))

(* No live process leaves a gate or a lease behind that nothing of its own  *)
(* will ever delete: there is a call in progress on it, a scan that will    *)
(* release it, or a retry timer.  (Such a file would lock everyone out for  *)
(* as long as the process lives.)  Only a release whose own check could not *)
(* read the file leaves it so: it takes the file for another's and arms no  *)
(* timer (`gateLeft`, `leaseLeft`).                                         *)
NothingOrphaned ==
    \A p \in Proc : Alive(p) =>
        /\ gate \in Record /\ Owner(gate.tok) = p
              => tok[p] = gate.tok \/ gate.tok \in gateRetry[p] \cup gateLeft
        /\ lease \in Record /\ Owner(lease.tok) = p
              => \/ lease.tok \in held[p] \cup leaseRetry[p] \cup leaseLeft
                 \/ tok[p] = lease.tok

(* "A valid live PID is not fenced": a live owner's lease leaves the path   *)
(* only in that owner's own release, or once a lease was reclaimed unread.  *)
NoFencing ==
    [][\A p \in Proc :
         /\ Alive(p) /\ lease \in Record /\ Owner(lease.tok) = p
         /\ lease' # lease
         => blind \/ (pc[p] = "leaseDrop" /\ tok[p] = lease.tok)]_vars

(* "A valid record is never reclaimed while its PID is live", the comment   *)
(* of removeIfStillReclaimable, without the exception.                      *)
LiveRecordKept ==
    \A p \in Proc : At(p, "leaseReap") /\ lease \in Record
        => ~Alive(Owner(lease.tok))

(* Every call of acquireScanLease and release() returns, for as long as the *)
(* process is alive and is not stopped: nobody waits for ever on the gate.  *)
CallsReturn ==
    \A p \in Proc :
        (Alive(p) /\ pc[p] # "loop")
            ~> (~Alive(p) \/ pc[p] = "loop")

(* The only wait without an end: whichever links, renames and unlinks fail, *)
(* a call returns unless the gate is a dead owner's and a live process has  *)
(* claimed it and is no longer on its way to unlink it.                     *)
Blocked ==
    /\ gate \in Record /\ ~Alive(Owner(gate.tok))
    /\ \E c \in claims :
          LET q == Owner(c.tok) IN
          /\ c.gate = gate.tok
          /\ Alive(q) /\ pc[q] \notin {"recheck", "gateReap"}
CallsReturnUnlessBlocked ==
    \A p \in Proc :
        (Alive(p) /\ pc[p] # "loop")
            ~> (~Alive(p) \/ pc[p] = "loop" \/ Blocked)

(* The lease is a lock with one writer: WriterLock, with its writers read   *)
(* off the leases handed out to live processes.  The promise ends with the  *)
(* first lease reclaimed unread, as if its writer had given it back.        *)
Lock == INSTANCE WriterLock WITH
            up      <- {p \in Proc : Alive(p)},
            writers <- {p \in Proc : Alive(p) /\ held[p] # {} /\ ~blind}
ImplementsLock == Lock!Spec
=============================================================================
