-------------------------- MODULE ScanLease_proofs --------------------------
(***************************************************************************)
(* Proofs about ScanLease, for every set of processes, pids, and bounds.   *)
(*                                                                         *)
(* They need one fact about the system that the code cannot give itself:   *)
(* that all processes compute the same boot identity (StableBoot), as all  *)
(* processes of one machine do between two boots.                          *)
(***************************************************************************)
EXTENDS ScanLease, TLAPS

StableBoot == \A b, c \in Boot : b = c

(* The inductive invariant.  Tokens are drawn from a counter, so a token    *)
(* found anywhere was drawn, by a process that was born.                    *)
Issued(t) == /\ t \in Token
             /\ 1 <= t[2] /\ t[2] <= uses[Owner(t)]
Dead(p) == life[p] = "dead"

PidUnique ==
    \A p, q \in Proc : Alive(p) /\ Alive(q) /\ pid[p] = pid[q] => p = q

Unborn ==
    \A p \in Proc : life[p] = "unborn" =>
        /\ uses[p] = 0 /\ pc[p] = "loop" /\ held[p] = {}

FileTokens ==
    /\ gate \in Record => Issued(gate.tok)
    /\ lease \in Record => Issued(lease.tok)
    /\ \A c \in claims : Issued(c.tok)

CallTokens ==
    \A p \in Proc :
        /\ pc[p] # "loop" => Issued(tok[p]) /\ Owner(tok[p]) = p
        /\ seen[p] # None => Issued(seen[p].tok)
        /\ \A t \in held[p] \cup gateRetry[p] \cup leaseRetry[p] :
             Issued(t) /\ Owner(t) = p

(* The claims on one dead gate form a chain, and all but its last link      *)
(* belong to dead processes.                                                *)
Chain ==
    /\ \A c \in claims : c.depth = 0 => c.subject = c.gate
    /\ \A c \in claims : c.depth # 0 =>
         \E d \in claims : /\ d.gate = c.gate /\ d.depth = c.depth - 1
                           /\ d.tok = c.subject
    /\ \A c, d \in claims : c.gate = d.gate /\ c.depth = d.depth => c = d
    /\ \A c, d \in claims :
         c.gate = d.gate /\ c.depth < d.depth => Dead(Owner(c.tok))
    /\ \A d \in claims : \A i \in 0..(d.depth - 1) :
         \E c \in claims : c.gate = d.gate /\ c.depth = i

(* A process walking the chain stands on a link whose owner is dead, or on  *)
(* the dead gate; a claimant owns a link of the chain of the gate it saw.   *)
Walks(p) ==
    /\ pc[p] \in {"claim", "claimJudge", "recheck", "gateReap"} =>
         seen[p] # None /\ Dead(Owner(seen[p].tok))
    /\ pc[p] \in {"claim", "claimJudge"} =>
         IF depth[p] = 0 THEN subject[p] = seen[p].tok
         ELSE \E d \in claims :
                /\ d.gate = seen[p].tok /\ d.depth = depth[p] - 1
                /\ d.tok = subject[p] /\ Dead(Owner(d.tok))
    /\ pc[p] \in {"recheck", "gateReap"} =>
         \E c \in claims : c.gate = seen[p].tok /\ Owner(c.tok) = p
Walking == \A p \in Proc : Walks(p)

(* The gate is that of the live process in the critical section, and that   *)
(* of the dead process whose claimant is about to unlink it.                *)
HoldsGate(p) ==
    /\ Alive(p) /\ pc[p] \in CriticalPoints \cup {"gateDrop"}
         => GateIs(tok[p])
    /\ At(p, "gateReap") => GateIs(seen[p].tok)
GateHeld == \A p \in Proc : HoldsGate(p)

(* What each process that is about to change the lease knows of it, until   *)
(* a live owner's lease is reclaimed unread.                                *)
KnowsLease(p) ==
    Alive(p) =>
        /\ \A t \in held[p] : LeaseIs(t)
        /\ pc[p] = "leaseDrop" => LeaseIs(tok[p])
        /\ pc[p] = "beat" => seen[p] = lease /\ LeaseIs(tok[p])
        /\ pc[p] = "leaseReap" /\ seen[p] # None => LeaseIs(seen[p].tok)
        /\ pc[p] = "leaseReap" /\ lease \in Record => Dead(Owner(lease.tok))
LeaseKnown == ~blind => \A p \in Proc : KnowsLease(p)

(* A token is handed out once: it is not held again while its release is    *)
(* pending, and the token of an acquisition is new.                         *)
HandedOnce ==
    \A p \in Proc :
        /\ held[p] \cap leaseRetry[p] = {}
        /\ pc[p] \notin {"loop", "gateCheck", "gateDrop", "beat"} =>
             tok[p] \notin held[p] \cup leaseRetry[p]

IInv == /\ TypeOK /\ PidUnique /\ Unborn /\ FileTokens /\ CallTokens /\ Chain
        /\ Walking /\ GateHeld /\ LeaseKnown /\ HandedOnce
-----------------------------------------------------------------------------
(* With one boot identity, canReclaim is never true of a live owner's       *)
(* record: not by pid, and not by fingerprint.                              *)
LEMMA ReclaimIsSafe ==
    ASSUME StableBoot, TypeOK, PidUnique,
           NEW p \in Proc, NEW r, Owner(r.tok) \in Proc,
           r.boot \in Boot \cup {Unknown},
           NEW known \in BOOLEAN, CanReclaim(p, r, known)
    PROVE  ~Alive(Owner(r.tok))
<1>1. SUFFICES ASSUME Alive(Owner(r.tok)) PROVE FALSE
  OBVIOUS
<1>2. PidAlive(Owner(r.tok))
  BY <1>1 DEF PidAlive
<1>3. PICK x \in Proc : /\ Alive(x) /\ pid[x] = pid[Owner(r.tok)]
                        /\ x # Owner(r.tok) \/ boot[p] # r.boot
  BY <1>2 DEF CanReclaim, Recycled
<1>4. r.boot # Unknown
  BY <1>2 DEF CanReclaim, Recycled
<1>5. x = Owner(r.tok)
  BY <1>1, <1>3 DEF PidUnique
<1>6. boot[p] = r.boot
  BY <1>4 DEF StableBoot, TypeOK, OwnTypeOK
<1> QED
  BY <1>3, <1>5, <1>6

(* The initial states are well typed. *)
LEMMA InitTypeOK == Init => TypeOK
<1> SUFFICES ASSUME Init PROVE TypeOK
  OBVIOUS
<1>1. CallTypeOK /\ FileTypeOK
  BY DEF Init, CallTypeOK, FileTypeOK, Points
<1>2. OwnTypeOK /\ SetTypeOK
  BY DEF Init, OwnTypeOK, SetTypeOK
<1> QED
  BY <1>1, <1>2 DEF TypeOK

(* Each way a call goes on keeps the types of the call's own variables. *)
LEMMA GotoType ==
    ASSUME CallTypeOK, NEW p \in Proc, NEW l \in Points, Goto(p, l)
    PROVE  CallTypeOK'
  BY DEF Goto, CallTypeOK

(* A call that reads a record, or none, stays well typed. *)
LEMMA ReadType ==
    ASSUME CallTypeOK, NEW p \in Proc, NEW l \in Points,
           NEW f \in Record \cup {None}, Read(p, l, f)
    PROVE  CallTypeOK'
  BY DEF Read, CallTypeOK

(* So does one that starts up the claim chain with what it read, *)
LEMMA ClimbType ==
    ASSUME CallTypeOK, NEW p \in Proc, NEW d \in Nat, NEW t \in Token,
           Climb(p, d, t)
    PROVE  CallTypeOK'
  BY DEF Climb, CallTypeOK, Points

(* one that a timer or a scan enters with a token, *)
LEMMA EnterType ==
    ASSUME CallTypeOK, NEW p \in Proc, NEW l \in Points, NEW t \in Token,
           NEW b \in Boot \cup {Unknown}, NEW f \in Record \cup {None},
           Enter(p, l, t, b, f)
    PROVE  CallTypeOK'
  BY DEF Enter, CallTypeOK

(* one that ends or turns to the release of the gate, *)
LEMMA LeaveType ==
    ASSUME CallTypeOK, NEW p \in Proc, NEW l \in Points,
           NEW t \in Token \cup {None}, Leave(p, l, t)
    PROVE  CallTypeOK'
  BY DEF Leave, CallTypeOK

(* and one that goes back to the top of the gate loop. *)
LEMMA PollAgainType ==
    ASSUME CallTypeOK, NEW p \in Proc, PollAgain(p)
    PROVE  CallTypeOK'
  BY DEF PollAgain, CallTypeOK, Points

(* Type correctness is inductive. *)
LEMMA StepTypeOK == TypeOK /\ [Next]_vars => TypeOK'
<1> SUFFICES ASSUME TypeOK, [Next]_vars PROVE TypeOK'
  OBVIOUS
<1> USE DEF TypeOK
<1>1. CASE UNCHANGED vars
  BY <1>1 DEF pastVars, CallTypeOK, FileTypeOK, OwnTypeOK, SetTypeOK, vars, osVars,
     fileVars, callVars, ownVars
<1>2. CASE Next
  <2> SUFFICES ASSUME NEW p \in Proc,
                      \/ Start(p) \/ Crash(p) \/ Begin(p) \/ Expire(p)
                      \/ CallStep(p) \/ TimerStep(p) \/ Beat(p) \/ Release(p)
               PROVE  TypeOK'
    BY <1>2 DEF Next
  <2>1. CASE Start(p)
    BY <2>1 DEF pastVars, Start, CallTypeOK, FileTypeOK, OwnTypeOK, SetTypeOK, osVars,
      fileVars, callVars, ownVars, Points
  <2>2. CASE Crash(p)
    BY <2>2 DEF Leave, Return, pastVars, Crash, CallTypeOK, FileTypeOK, OwnTypeOK, SetTypeOK, osVars,
      fileVars, callVars, ownVars, Points
  <2>3. CASE Begin(p)
    <3>1. CallTypeOK'
      <4>1. PICK b \in {boot[p], Unknown} :
              Enter(p, "gate", <<p, uses[p] + 1>>, b, None)
        BY <2>3 DEF Begin
      <4>2. <<p, uses[p] + 1>> \in Token /\ b \in Boot \cup {Unknown}
        BY <4>1 DEF Token, OwnTypeOK
      <4> QED
        BY <4>1, <4>2, EnterType DEF Points
    <3>2. FileTypeOK'
      BY <2>3 DEF pastVars, Begin, FileTypeOK, fileVars
    <3>3. OwnTypeOK'
      BY <2>3 DEF pastVars, Begin, OwnTypeOK, osVars, CallTypeOK, SetTypeOK, At,
        ownVars
    <3>4. SetTypeOK'
      BY <2>3, SentinelAssumption DEF Begin, At, Enter, Alive, SetTypeOK,
        CallTypeOK, Points, OwnTypeOK, Token
    <3> QED
      BY <3>1, <3>2, <3>3, <3>4
  <2>4. CASE Expire(p)
    BY <2>4 DEF pastVars, Expire, CallTypeOK, FileTypeOK, OwnTypeOK, SetTypeOK,
      osVars, fileVars, callVars, ownVars, Points
  <2>5. CASE GatePublish(p)
    <3>1. CallTypeOK'
      BY <2>5, GotoType, LeaveType DEF GatePublish, Return, CallTypeOK,
        Points
    <3>2. FileTypeOK'
      BY <2>5 DEF GatePublish, FileTypeOK, OwnRecord, Record, CallTypeOK,
        SetTypeOK, At
    <3>3. OwnTypeOK'
      BY <2>5 DEF pastVars, GatePublish, OwnTypeOK, osVars, ownVars
    <3>4. SetTypeOK'
      BY <2>5, SentinelAssumption DEF GatePublish, At, Goto, Return, Alive,
        Leave, SetTypeOK, CallTypeOK, Points
    <3> QED
      BY <3>1, <3>2, <3>3, <3>4
  <2>6. CASE GateRead(p)
    <3>1. CallTypeOK'
      BY <2>6, ReadType DEF Readings, GateRead, CallTypeOK, Parsed, FileTypeOK, Points
    <3>2. FileTypeOK'
      BY <2>6 DEF pastVars, GateRead, FileTypeOK, fileVars
    <3>3. OwnTypeOK'
      BY <2>6 DEF pastVars, GateRead, OwnTypeOK, osVars, ownVars
    <3>4. SetTypeOK'
      BY <2>6, SentinelAssumption DEF Readings, GateRead, At, Read, Parsed, Alive,
        SetTypeOK, CallTypeOK, Points
    <3> QED
      BY <3>1, <3>2, <3>3, <3>4
  <2>7. CASE GateJudge(p)
    <3>1. CallTypeOK'
      BY <2>7, ClimbType, PollAgainType, LeaveType DEF GateJudge,
        WaitOrGiveUp, Return, CallTypeOK, Record, Points
    <3>2. FileTypeOK'
      BY <2>7 DEF pastVars, GateJudge, FileTypeOK, fileVars
    <3>3. OwnTypeOK'
      BY <2>7 DEF pastVars, GateJudge, OwnTypeOK, osVars, ownVars
    <3>4. SetTypeOK'
      BY <2>7, SentinelAssumption DEF GateJudge, At, WaitOrGiveUp, Climb,
        Alive, Return, PollAgain, Leave, SetTypeOK, CallTypeOK, Points, Record
    <3> QED
      BY <3>1, <3>2, <3>3, <3>4
  <2>8. CASE ClaimPublish(p)
    <3>1. CallTypeOK'
      BY <2>8, GotoType, LeaveType DEF ClaimPublish, Return, CallTypeOK,
        Points
    <3>2. FileTypeOK'
      BY <2>8 DEF ClaimPublish, FileTypeOK, Claim, Record, Token,
        CallTypeOK, OwnTypeOK, SetTypeOK, At
    <3>3. OwnTypeOK'
      BY <2>8 DEF pastVars, ClaimPublish, OwnTypeOK, osVars, CallTypeOK, SetTypeOK,
        At, ownVars
    <3>4. SetTypeOK'
      BY <2>8, SentinelAssumption DEF ClaimPublish, At, Goto, Return, Alive,
        Leave, SetTypeOK, CallTypeOK, Points
    <3> QED
      BY <3>1, <3>2, <3>3, <3>4
  <2>9. CASE ClaimJudge(p)
    <3>1. CallTypeOK'
      <4>0. CASE Return(p)
        BY <4>0, LeaveType DEF Return, Points
      <4> SUFFICES ASSUME ~Return(p) PROVE CallTypeOK'
        BY <4>0
      <4>1. PICK c \in ClaimAt(p), known \in BOOLEAN :
              IF ~CanReclaim(p, c, known) THEN PollAgain(p)
              ELSE IF depth[p] + 1 = ClaimDepth THEN Return(p)
              ELSE Climb(p, depth[p] + 1, c.tok)
        BY <2>9 DEF ClaimJudge
      <4>2. c.tok \in Token /\ depth[p] + 1 \in Nat
        BY <4>1 DEF ClaimAt, FileTypeOK, Claim, CallTypeOK
      <4>3. CASE PollAgain(p)
        BY <4>3, PollAgainType
      <4>4. CASE Return(p)
        BY <4>4, LeaveType DEF Return, Points
      <4>5. CASE Climb(p, depth[p] + 1, c.tok)
        BY <4>2, <4>5, ClimbType
      <4> QED
        BY <4>1, <4>3, <4>4, <4>5
    <3>2. FileTypeOK'
      BY <2>9 DEF pastVars, ClaimJudge, FileTypeOK, fileVars
    <3>3. OwnTypeOK'
      BY <2>9 DEF pastVars, ClaimJudge, OwnTypeOK, osVars, ownVars
    <3>4. SetTypeOK'
      BY <2>9, SentinelAssumption DEF ClaimJudge, At, PollAgain, Return,
        Climb, Alive, Leave, SetTypeOK, CallTypeOK, Points, ClaimAt,
        FileTypeOK, Claim
    <3> QED
      BY <3>1, <3>2, <3>3, <3>4
  <2>10. CASE Recheck(p)
    <3>1. CallTypeOK'
      BY <2>10, GotoType, PollAgainType DEF Recheck, CallTypeOK, Token,
        OwnTypeOK, Points
    <3>2. FileTypeOK'
      BY <2>10 DEF pastVars, Recheck, FileTypeOK, fileVars
    <3>3. OwnTypeOK'
      BY <2>10 DEF pastVars, Recheck, OwnTypeOK, osVars, ownVars
    <3>4. SetTypeOK'
      BY <2>10, SentinelAssumption DEF Readings, Recheck, At, Parsed, Goto, PollAgain,
        Alive, SetTypeOK, CallTypeOK, Points
    <3> QED
      BY <3>1, <3>2, <3>3, <3>4
  <2>11. CASE GateReap(p)
    <3>1. CallTypeOK'
      BY <2>11, PollAgainType DEF GateReap, CallTypeOK, Points
    <3>2. FileTypeOK'
      BY <2>11 DEF GateReap, FileTypeOK
    <3>3. OwnTypeOK'
      BY <2>11 DEF pastVars, GateReap, OwnTypeOK, osVars, ownVars
    <3>4. SetTypeOK'
      BY <2>11, SentinelAssumption DEF GateReap, At, PollAgain, Alive,
        SetTypeOK, CallTypeOK, Points
    <3> QED
      BY <3>1, <3>2, <3>3, <3>4
  <2>12. CASE LeasePublish(p)
    <3>1. CallTypeOK'
      BY <2>12, GotoType, LeaveType DEF LeasePublish, FinishAcquire,
        CallTypeOK, At, Points
    <3>2. FileTypeOK'
      BY <2>12 DEF LeasePublish, FileTypeOK, OwnRecord, Record, CallTypeOK,
        SetTypeOK, At
    <3>3. OwnTypeOK'
      BY <2>12 DEF pastVars, LeasePublish, OwnTypeOK, osVars, CallTypeOK, SetTypeOK,
        At
    <3>4. SetTypeOK'
      BY <2>12, SentinelAssumption DEF LeasePublish, At, FinishAcquire,
        Goto, Alive, Leave, SetTypeOK, CallTypeOK, Points
    <3> QED
      BY <3>1, <3>2, <3>3, <3>4
  <2>13. CASE LeaseRead(p)
    <3>1. CallTypeOK'
      BY <2>13, ReadType DEF Readings, LeaseRead, CallTypeOK, Parsed, FileTypeOK,
        Points
    <3>2. FileTypeOK'
      BY <2>13 DEF pastVars, LeaseRead, FileTypeOK, fileVars
    <3>3. OwnTypeOK'
      BY <2>13 DEF pastVars, LeaseRead, OwnTypeOK, osVars, ownVars
    <3>4. SetTypeOK'
      BY <2>13, SentinelAssumption DEF Readings, LeaseRead, At, Read, Parsed, Alive,
        SetTypeOK, CallTypeOK, Points
    <3> QED
      BY <3>1, <3>2, <3>3, <3>4
  <2>14. CASE LeaseJudge(p)
    <3>1. CallTypeOK'
      BY <2>14, GotoType, LeaveType DEF LeaseJudge, FinishAcquire,
        CallTypeOK, Points
    <3>2. FileTypeOK'
      BY <2>14 DEF pastVars, LeaseJudge, FileTypeOK, fileVars
    <3>3. OwnTypeOK'
      BY <2>14 DEF pastVars, LeaseJudge, OwnTypeOK, osVars, ownVars
    <3>4. SetTypeOK'
      BY <2>14, SentinelAssumption DEF LeaseJudge, At, FinishAcquire, Goto,
        Alive, Leave, SetTypeOK, CallTypeOK, Points
    <3> QED
      BY <3>1, <3>2, <3>3, <3>4
  <2>15. CASE LeaseRecheck(p)
    <3>1. CallTypeOK'
      BY <2>15, GotoType, ReadType, LeaveType DEF LeaseRecheck, FinishAcquire,
        CallTypeOK, Points, Readings, Parsed, FileTypeOK
    <3>2. FileTypeOK'
      BY <2>15 DEF pastVars, LeaseRecheck, FileTypeOK, fileVars
    <3>3. OwnTypeOK'
      BY <2>15 DEF pastVars, LeaseRecheck, OwnTypeOK, osVars, ownVars
    <3>4. SetTypeOK'
      BY <2>15, SentinelAssumption DEF Readings, Read, LeaseRecheck, At, Parsed, Goto,
        FinishAcquire, Alive, Leave, SetTypeOK, CallTypeOK, Points
    <3> QED
      BY <3>1, <3>2, <3>3, <3>4
  <2>16. CASE LeaseReap(p)
    <3>1. CallTypeOK'
      BY <2>16, GotoType, LeaveType DEF LeaseReap, FinishAcquire,
        CallTypeOK, Points
    <3>2. FileTypeOK'
      BY <2>16 DEF LeaseReap, FileTypeOK
    <3>3. OwnTypeOK'
      BY <2>16 DEF pastVars, LeaseReap, OwnTypeOK, osVars, ownVars
    <3>4. SetTypeOK'
      BY <2>16, SentinelAssumption DEF LeaseReap, At, Goto, FinishAcquire,
        Alive, Leave, SetTypeOK, CallTypeOK, Points
    <3> QED
      BY <3>1, <3>2, <3>3, <3>4
  <2>17. CASE LeaseAgain(p)
    <3>1. CallTypeOK'
      BY <2>17, LeaveType DEF LeaseAgain, FinishAcquire, CallTypeOK, At,
        Points
    <3>2. FileTypeOK'
      BY <2>17 DEF LeaseAgain, FileTypeOK, OwnRecord, Record, CallTypeOK,
        SetTypeOK, At
    <3>3. OwnTypeOK'
      BY <2>17 DEF pastVars, LeaseAgain, OwnTypeOK, osVars, CallTypeOK, SetTypeOK, At
    <3>4. SetTypeOK'
      BY <2>17, SentinelAssumption DEF LeaseAgain, At, FinishAcquire, Alive,
        Leave, SetTypeOK, CallTypeOK, Points
    <3> QED
      BY <3>1, <3>2, <3>3, <3>4
  <2>18. CASE GateCheck(p)
    <3>1. CallTypeOK'
      BY <2>18, GotoType, LeaveType DEF GateCheck, Return, CallTypeOK,
        Points
    <3>2. FileTypeOK'
      BY <2>18 DEF pastVars, GateCheck, FileTypeOK, fileVars
    <3>3. OwnTypeOK'
      BY <2>18 DEF GateCheck, OwnTypeOK, osVars, ownVars, At, CallTypeOK,
        SetTypeOK
    <3>4. SetTypeOK'
      BY <2>18, SentinelAssumption DEF Readings, GateCheck, At, Parsed, Goto, Return,
        Alive, Leave, SetTypeOK, CallTypeOK, Points
    <3> QED
      BY <3>1, <3>2, <3>3, <3>4
  <2>19. CASE GateDrop(p)
    <3>1. CallTypeOK'
      BY <2>19, LeaveType DEF GateDrop, Return, CallTypeOK, Points
    <3>2. FileTypeOK'
      BY <2>19 DEF GateDrop, FileTypeOK
    <3>3. OwnTypeOK'
      BY <2>19 DEF pastVars, GateDrop, OwnTypeOK, osVars, CallTypeOK, SetTypeOK, At
    <3>4. SetTypeOK'
      BY <2>19, SentinelAssumption DEF GateDrop, At, Return, Alive, Leave,
        SetTypeOK, CallTypeOK, Points
    <3> QED
      BY <3>1, <3>2, <3>3, <3>4
  <2>20. CASE BeatRename(p)
    <3>1. CallTypeOK'
      BY <2>20, LeaveType DEF BeatRename, Return, CallTypeOK, Points
    <3>2. FileTypeOK'
      BY <2>20 DEF BeatRename, FileTypeOK, CallTypeOK, At
    <3>3. OwnTypeOK'
      BY <2>20 DEF pastVars, BeatRename, OwnTypeOK, osVars, ownVars
    <3>4. SetTypeOK'
      BY <2>20, SentinelAssumption DEF BeatRename, At, Return, Alive, Leave,
        SetTypeOK, CallTypeOK, Points
    <3> QED
      BY <3>1, <3>2, <3>3, <3>4
  <2>21. CASE LeaseCheck(p)
    <3>1. CallTypeOK'
      BY <2>21, GotoType, LeaveType DEF LeaseCheck, Return, CallTypeOK,
        Points
    <3>2. FileTypeOK'
      BY <2>21 DEF pastVars, LeaseCheck, FileTypeOK, fileVars
    <3>3. OwnTypeOK'
      BY <2>21 DEF LeaseCheck, OwnTypeOK, osVars, ownVars, At, CallTypeOK,
        SetTypeOK
    <3>4. SetTypeOK'
      BY <2>21, SentinelAssumption DEF Readings, LeaseCheck, At, Parsed, Goto, Return,
        Alive, Leave, SetTypeOK, CallTypeOK, Points
    <3> QED
      BY <3>1, <3>2, <3>3, <3>4
  <2>22. CASE LeaseDrop(p)
    <3>1. CallTypeOK'
      BY <2>22, LeaveType DEF LeaseDrop, Return, CallTypeOK, Points
    <3>2. FileTypeOK'
      BY <2>22 DEF LeaseDrop, FileTypeOK
    <3>3. OwnTypeOK'
      BY <2>22 DEF pastVars, LeaseDrop, OwnTypeOK, osVars, CallTypeOK, SetTypeOK, At
    <3>4. SetTypeOK'
      BY <2>22, SentinelAssumption DEF LeaseDrop, At, Return, Alive, Leave,
        SetTypeOK, CallTypeOK, Points
    <3> QED
      BY <3>1, <3>2, <3>3, <3>4
  <2>23. CASE GateTimer(p)
    <3>1. CallTypeOK'
      BY <2>23, EnterType DEF GateTimer, CallTypeOK, OwnTypeOK, FileTypeOK,
        Points
    <3>2. FileTypeOK'
      BY <2>23 DEF pastVars, GateTimer, FileTypeOK, fileVars
    <3>3. OwnTypeOK'
      BY <2>23 DEF pastVars, GateTimer, OwnTypeOK, osVars, CallTypeOK, SetTypeOK, At
    <3>4. SetTypeOK'
      BY <2>23, SentinelAssumption DEF GateTimer, At, Enter, Alive,
        SetTypeOK, CallTypeOK, Points, OwnTypeOK, Token
    <3> QED
      BY <3>1, <3>2, <3>3, <3>4
  <2>24. CASE LeaseTimer(p)
    <3>1. CallTypeOK'
      BY <2>24, EnterType DEF LeaseTimer, CallTypeOK, OwnTypeOK, FileTypeOK,
        Points
    <3>2. FileTypeOK'
      BY <2>24 DEF pastVars, LeaseTimer, FileTypeOK, fileVars
    <3>3. OwnTypeOK'
      BY <2>24 DEF pastVars, LeaseTimer, OwnTypeOK, osVars, CallTypeOK, SetTypeOK, At
    <3>4. SetTypeOK'
      BY <2>24, SentinelAssumption DEF LeaseTimer, At, Enter, Alive,
        SetTypeOK, CallTypeOK, Points, OwnTypeOK, Token
    <3> QED
      BY <3>1, <3>2, <3>3, <3>4
  <2>25. CASE Beat(p)
    <3>1. CallTypeOK'
      BY <2>25, EnterType DEF Beat, CallTypeOK, OwnTypeOK, FileTypeOK,
        Parsed, Points
    <3>2. FileTypeOK'
      BY <2>25 DEF pastVars, Beat, FileTypeOK, fileVars
    <3>3. OwnTypeOK'
      BY <2>25 DEF pastVars, Beat, OwnTypeOK, osVars, ownVars
    <3>4. SetTypeOK'
      BY <2>25, SentinelAssumption DEF Beat, At, Parsed, Enter, Alive,
        SetTypeOK, CallTypeOK, Points, OwnTypeOK, Token
    <3> QED
      BY <3>1, <3>2, <3>3, <3>4
  <2>26. CASE Release(p)
    <3>1. CallTypeOK'
      BY <2>26, EnterType DEF Release, CallTypeOK, OwnTypeOK, FileTypeOK,
        Points
    <3>2. FileTypeOK'
      BY <2>26 DEF pastVars, Release, FileTypeOK, fileVars
    <3>3. OwnTypeOK'
      BY <2>26 DEF pastVars, Release, OwnTypeOK, osVars, CallTypeOK, SetTypeOK, At
    <3>4. SetTypeOK'
      BY <2>26, SentinelAssumption DEF Release, At, Enter, Alive, SetTypeOK,
        CallTypeOK, Points, OwnTypeOK, Token
    <3> QED
      BY <3>1, <3>2, <3>3, <3>4
  <2> QED
    BY <2>1, <2>2, <2>3, <2>4, <2>5, <2>6, <2>7, <2>8, <2>9, <2>10, <2>11,
      <2>12, <2>13, <2>14, <2>15, <2>16, <2>17, <2>18, <2>19, <2>20, <2>21,
      <2>22, <2>23, <2>24, <2>25, <2>26 DEF CallStep, TimerStep
<1> QED
  BY <1>1, <1>2 DEF TypeOK
(* Only a start makes a process alive, and it finds the pid free. *)
LEMMA StepPidUnique == IInv /\ StableBoot /\ [Next]_vars => PidUnique'
<1> SUFFICES ASSUME IInv, StableBoot, [Next]_vars PROVE PidUnique'
  OBVIOUS
<1>1. CASE UNCHANGED vars
  BY <1>1 DEF pastVars, IInv, PidUnique, Alive, vars, osVars, fileVars, callVars, ownVars
<1>2. CASE Next
  <2> SUFFICES ASSUME NEW p \in Proc,
                      \/ Start(p) \/ Crash(p) \/ Begin(p) \/ Expire(p)
                      \/ CallStep(p) \/ TimerStep(p) \/ Beat(p) \/ Release(p)
               PROVE  PidUnique'
    BY <1>2 DEF Next
  <2> USE DEF IInv
  <2>1. CASE Start(p)
    BY <2>1 DEF pastVars, Start, Alive, PidUnique, TypeOK, OwnTypeOK, osVars
  <2>2. CASE Crash(p)
    BY <2>2 DEF Leave, Return, pastVars, Crash, Alive, PidUnique, TypeOK, OwnTypeOK, osVars
  <2>3. CASE Begin(p) \/ Expire(p) \/ GatePublish(p) \/ GateRead(p) \/
               GateJudge(p) \/ ClaimPublish(p) \/ ClaimJudge(p) \/ Recheck(p)
               \/ GateReap(p) \/ LeasePublish(p) \/ LeaseRead(p) \/
               LeaseJudge(p) \/ LeaseRecheck(p) \/ LeaseReap(p) \/
               LeaseAgain(p) \/ GateCheck(p) \/ GateDrop(p) \/ BeatRename(p)
               \/ LeaseCheck(p) \/ LeaseDrop(p) \/ GateTimer(p) \/
               LeaseTimer(p) \/ Beat(p) \/ Release(p)
    BY <2>3 DEF pastVars, Begin, Expire, Alive, GatePublish, GateRead, GateJudge,
      ClaimPublish, ClaimJudge, Recheck, GateReap, LeasePublish, LeaseRead,
      LeaseJudge, LeaseRecheck, LeaseReap, LeaseAgain, GateCheck, GateDrop,
      BeatRename, LeaseCheck, LeaseDrop, GateTimer, LeaseTimer, Beat, Release,
      PidUnique, TypeOK, OwnTypeOK, osVars
  <2> QED
    BY <2>1, <2>2, <2>3 DEF CallStep, TimerStep
<1> QED
  BY <1>1, <1>2

(* A process that is not born does nothing. *)
LEMMA StepUnborn == IInv /\ StableBoot /\ [Next]_vars => Unborn'
<1> SUFFICES ASSUME IInv, StableBoot, [Next]_vars PROVE Unborn'
  OBVIOUS
<1>1. CASE UNCHANGED vars
  BY <1>1 DEF pastVars, IInv, Unborn, vars, osVars, fileVars, callVars, ownVars
<1>2. CASE Next
  <2> SUFFICES ASSUME NEW p \in Proc,
                      \/ Start(p) \/ Crash(p) \/ Begin(p) \/ Expire(p)
                      \/ CallStep(p) \/ TimerStep(p) \/ Beat(p) \/ Release(p)
               PROVE  Unborn'
    BY <1>2 DEF Next
  <2> USE DEF IInv
  <2>1. CASE Start(p)
    BY <2>1 DEF pastVars, Start, Alive, Unborn, TypeOK, OwnTypeOK, CallTypeOK, osVars,
      fileVars, callVars, ownVars
  <2>2. CASE Crash(p)
    BY <2>2 DEF Leave, Return, pastVars, Crash, Alive, Unborn, TypeOK, OwnTypeOK, CallTypeOK, osVars,
      fileVars, callVars, ownVars
  <2>3. CASE Begin(p)
    BY <2>3 DEF pastVars, Begin, At, Enter, Alive, Unborn, TypeOK, OwnTypeOK,
      CallTypeOK, osVars, fileVars, callVars, ownVars
  <2>4. CASE Expire(p)
    BY <2>4 DEF pastVars, Expire, Alive, Unborn, TypeOK, OwnTypeOK, CallTypeOK,
      osVars, fileVars, callVars, ownVars
  <2>5. CASE GatePublish(p)
    BY <2>5 DEF pastVars, GatePublish, At, Goto, Return, Alive, Leave, Unborn, TypeOK,
      OwnTypeOK, CallTypeOK, osVars, fileVars, callVars, ownVars
  <2>6. CASE GateRead(p)
    BY <2>6 DEF pastVars, GateRead, At, Read, Alive, Unborn, TypeOK, OwnTypeOK,
      CallTypeOK, osVars, fileVars, callVars, ownVars
  <2>7. CASE GateJudge(p)
    BY <2>7 DEF pastVars, GateJudge, At, WaitOrGiveUp, Climb, Alive, Return,
      PollAgain, Leave, Unborn, TypeOK, OwnTypeOK, CallTypeOK, osVars,
      fileVars, callVars, ownVars
  <2>8. CASE ClaimPublish(p)
    BY <2>8 DEF pastVars, ClaimPublish, At, Goto, Return, Alive, Leave, Unborn,
      TypeOK, OwnTypeOK, CallTypeOK, osVars, fileVars, callVars, ownVars
  <2>9. CASE ClaimJudge(p)
    BY <2>9 DEF pastVars, ClaimJudge, At, PollAgain, Return, Climb, Alive, Leave,
      Unborn, TypeOK, OwnTypeOK, CallTypeOK, osVars, fileVars, callVars,
      ownVars
  <2>10. CASE Recheck(p)
    BY <2>10 DEF pastVars, Recheck, At, Goto, PollAgain, Alive, Unborn, TypeOK,
      OwnTypeOK, CallTypeOK, osVars, fileVars, callVars, ownVars
  <2>11. CASE GateReap(p)
    BY <2>11 DEF pastVars, GateReap, At, PollAgain, Alive, Unborn, TypeOK, OwnTypeOK,
      CallTypeOK, osVars, fileVars, callVars, ownVars
  <2>12. CASE LeasePublish(p)
    BY <2>12 DEF pastVars, LeasePublish, At, FinishAcquire, Goto, Alive, Leave,
      Unborn, TypeOK, OwnTypeOK, CallTypeOK, osVars, fileVars, callVars,
      ownVars
  <2>13. CASE LeaseRead(p)
    BY <2>13 DEF pastVars, LeaseRead, At, Read, Alive, Unborn, TypeOK, OwnTypeOK,
      CallTypeOK, osVars, fileVars, callVars, ownVars
  <2>14. CASE LeaseJudge(p)
    BY <2>14 DEF pastVars, LeaseJudge, At, FinishAcquire, Goto, Alive, Leave, Unborn,
      TypeOK, OwnTypeOK, CallTypeOK, osVars, fileVars, callVars, ownVars
  <2>15. CASE LeaseRecheck(p)
    BY <2>15 DEF Read, pastVars, LeaseRecheck, At, Goto, FinishAcquire, Alive, Leave,
      Unborn, TypeOK, OwnTypeOK, CallTypeOK, osVars, fileVars, callVars,
      ownVars
  <2>16. CASE LeaseReap(p)
    BY <2>16 DEF pastVars, LeaseReap, At, Goto, FinishAcquire, Alive, Leave, Unborn,
      TypeOK, OwnTypeOK, CallTypeOK, osVars, fileVars, callVars, ownVars
  <2>17. CASE LeaseAgain(p)
    BY <2>17 DEF pastVars, LeaseAgain, At, FinishAcquire, Alive, Leave, Unborn,
      TypeOK, OwnTypeOK, CallTypeOK, osVars, fileVars, callVars, ownVars
  <2>18. CASE GateCheck(p)
    BY <2>18 DEF pastVars, GateCheck, At, Goto, Return, Alive, Leave, Unborn, TypeOK,
      OwnTypeOK, CallTypeOK, osVars, fileVars, callVars, ownVars
  <2>19. CASE GateDrop(p)
    BY <2>19 DEF pastVars, GateDrop, At, Return, Alive, Leave, Unborn, TypeOK,
      OwnTypeOK, CallTypeOK, osVars, fileVars, callVars, ownVars
  <2>20. CASE BeatRename(p)
    BY <2>20 DEF pastVars, BeatRename, At, Return, Alive, Leave, Unborn, TypeOK,
      OwnTypeOK, CallTypeOK, osVars, fileVars, callVars, ownVars
  <2>21. CASE LeaseCheck(p)
    BY <2>21 DEF pastVars, LeaseCheck, At, Goto, Return, Alive, Leave, Unborn, TypeOK,
      OwnTypeOK, CallTypeOK, osVars, fileVars, callVars, ownVars
  <2>22. CASE LeaseDrop(p)
    BY <2>22 DEF pastVars, LeaseDrop, At, Return, Alive, Leave, Unborn, TypeOK,
      OwnTypeOK, CallTypeOK, osVars, fileVars, callVars, ownVars
  <2>23. CASE GateTimer(p)
    BY <2>23 DEF pastVars, GateTimer, At, Enter, Alive, Unborn, TypeOK, OwnTypeOK,
      CallTypeOK, osVars, fileVars, callVars, ownVars
  <2>24. CASE LeaseTimer(p)
    BY <2>24 DEF pastVars, LeaseTimer, At, Enter, Alive, Unborn, TypeOK, OwnTypeOK,
      CallTypeOK, osVars, fileVars, callVars, ownVars
  <2>25. CASE Beat(p)
    BY <2>25 DEF pastVars, Beat, At, Enter, Alive, Unborn, TypeOK, OwnTypeOK,
      CallTypeOK, osVars, fileVars, callVars, ownVars
  <2>26. CASE Release(p)
    BY <2>26 DEF pastVars, Release, At, Enter, Alive, Unborn, TypeOK, OwnTypeOK,
      CallTypeOK, osVars, fileVars, callVars, ownVars
  <2> QED
    BY <2>1, <2>2, <2>3, <2>4, <2>5, <2>6, <2>7, <2>8, <2>9, <2>10, <2>11,
      <2>12, <2>13, <2>14, <2>15, <2>16, <2>17, <2>18, <2>19, <2>20, <2>21,
      <2>22, <2>23, <2>24, <2>25, <2>26 DEF CallStep, TimerStep
<1> QED
  BY <1>1, <1>2

(* Records are published with tokens that were drawn. *)
LEMMA StepFileTokens == IInv /\ StableBoot /\ [Next]_vars => FileTokens'
<1> SUFFICES ASSUME IInv, StableBoot, [Next]_vars PROVE FileTokens'
  OBVIOUS
<1>1. CASE UNCHANGED vars
  BY <1>1 DEF pastVars, IInv, FileTokens, Issued, vars, osVars, fileVars, callVars,
     ownVars
<1>2. CASE Next
  <2> SUFFICES ASSUME NEW p \in Proc,
                      \/ Start(p) \/ Crash(p) \/ Begin(p) \/ Expire(p)
                      \/ CallStep(p) \/ TimerStep(p) \/ Beat(p) \/ Release(p)
               PROVE  FileTokens'
    BY <1>2 DEF Next
  <2> USE DEF IInv
  <2>1. CASE Start(p)
    BY <2>1, SentinelAssumption DEF pastVars, Start, Alive, FileTokens, Issued,
      CallTokens, Owner, Token, Record, TypeOK, CallTypeOK, FileTypeOK,
      OwnTypeOK, SetTypeOK, osVars, fileVars, callVars, ownVars
  <2>2. CASE Crash(p)
    BY <2>2, SentinelAssumption DEF Leave, Return, pastVars, Crash, Alive, FileTokens, Issued,
      CallTokens, Owner, Token, Record, TypeOK, CallTypeOK, FileTypeOK,
      OwnTypeOK, SetTypeOK, osVars, fileVars, callVars, ownVars
  <2>3. CASE Begin(p)
    BY <2>3, SentinelAssumption DEF pastVars, Begin, At, Alive, FileTokens, Issued,
      CallTokens, Owner, Token, Record, TypeOK, CallTypeOK, FileTypeOK,
      OwnTypeOK, SetTypeOK, osVars, fileVars, callVars, ownVars
  <2>4. CASE Expire(p)
    BY <2>4, SentinelAssumption DEF pastVars, Expire, Alive, FileTokens, Issued,
      CallTokens, Owner, Token, Record, TypeOK, CallTypeOK, FileTypeOK,
      OwnTypeOK, SetTypeOK, osVars, fileVars, callVars, ownVars
  <2>5. CASE GatePublish(p)
    BY <2>5, SentinelAssumption DEF pastVars, GatePublish, At, OwnRecord, Alive,
      FileTokens, Issued, CallTokens, Owner, Token, Record, TypeOK,
      CallTypeOK, FileTypeOK, OwnTypeOK, SetTypeOK, osVars, fileVars,
      callVars, ownVars
  <2>6. CASE GateRead(p)
    BY <2>6, SentinelAssumption DEF Readings, pastVars, GateRead, At, Parsed, Alive, FileTokens,
      Issued, CallTokens, Owner, Token, Record, TypeOK, CallTypeOK,
      FileTypeOK, OwnTypeOK, SetTypeOK, osVars, fileVars, callVars, ownVars
  <2>7. CASE GateJudge(p)
    BY <2>7, SentinelAssumption DEF pastVars, GateJudge, At, Alive, FileTokens,
      Issued, CallTokens, Owner, Token, Record, TypeOK, CallTypeOK,
      FileTypeOK, OwnTypeOK, SetTypeOK, osVars, fileVars, callVars, ownVars
  <2>8. CASE ClaimPublish(p)
    <3>1. CASE claims' = claims /\ uses' = uses
      BY <2>8, <3>1 DEF ClaimPublish, FileTokens, Issued
    <3>2. CASE ClaimAt(p) = {} /\ Goto(p, "recheck")
      <4>1. /\ uses' = [uses EXCEPT ![p] = @ + 1]
            /\ gate' = gate /\ lease' = lease
        BY <2>8, <3>2, SentinelAssumption DEF ClaimPublish, Goto, Return,
           Leave, At, CallTypeOK, TypeOK
      <4>2. \A t : Issued(t) => Issued(t)'
        BY <4>1 DEF Issued, Owner, Token, TypeOK, OwnTypeOK
      <4>t. PICK t : t = <<p, uses[p] + 1>>
        OBVIOUS
      <4>3. Issued(t)'
        BY <4>1, <4>t DEF Issued, Owner, Token, TypeOK, OwnTypeOK
      <4>4. \A c \in claims' : c \in claims \/ c.tok = t
        BY <2>8, <4>t DEF ClaimPublish
      <4> QED
        BY <4>1, <4>2, <4>3, <4>4 DEF FileTokens
    <3> QED
      BY <2>8, <3>1, <3>2 DEF ClaimPublish
  <2>9. CASE ClaimJudge(p)
    BY <2>9, SentinelAssumption DEF pastVars, ClaimJudge, At, Alive, FileTokens,
      Issued, CallTokens, Owner, Token, Record, TypeOK, CallTypeOK,
      FileTypeOK, OwnTypeOK, SetTypeOK, osVars, fileVars, callVars, ownVars
  <2>10. CASE Recheck(p)
    BY <2>10, SentinelAssumption DEF Readings, pastVars, Recheck, At, Parsed, Alive, FileTokens,
      Issued, CallTokens, Owner, Token, Record, TypeOK, CallTypeOK,
      FileTypeOK, OwnTypeOK, SetTypeOK, osVars, fileVars, callVars, ownVars
  <2>11. CASE GateReap(p)
    BY <2>11, SentinelAssumption DEF pastVars, GateReap, At, Alive, FileTokens,
      Issued, CallTokens, Owner, Token, Record, TypeOK, CallTypeOK,
      FileTypeOK, OwnTypeOK, SetTypeOK, osVars, fileVars, callVars, ownVars
  <2>12. CASE LeasePublish(p)
    BY <2>12, SentinelAssumption DEF pastVars, LeasePublish, At, OwnRecord, Alive,
      FileTokens, Issued, CallTokens, Owner, Token, Record, TypeOK,
      CallTypeOK, FileTypeOK, OwnTypeOK, SetTypeOK, osVars, fileVars,
      callVars, ownVars
  <2>13. CASE LeaseRead(p)
    BY <2>13, SentinelAssumption DEF Readings, pastVars, LeaseRead, At, Parsed, Alive,
      FileTokens, Issued, CallTokens, Owner, Token, Record, TypeOK,
      CallTypeOK, FileTypeOK, OwnTypeOK, SetTypeOK, osVars, fileVars,
      callVars, ownVars
  <2>14. CASE LeaseJudge(p)
    BY <2>14, SentinelAssumption DEF pastVars, LeaseJudge, At, Alive, FileTokens,
      Issued, CallTokens, Owner, Token, Record, TypeOK, CallTypeOK,
      FileTypeOK, OwnTypeOK, SetTypeOK, osVars, fileVars, callVars, ownVars
  <2>15. CASE LeaseRecheck(p)
    BY <2>15, SentinelAssumption DEF Readings, pastVars, LeaseRecheck, At, Parsed, Alive,
      FileTokens, Issued, CallTokens, Owner, Token, Record, TypeOK,
      CallTypeOK, FileTypeOK, OwnTypeOK, SetTypeOK, osVars, fileVars,
      callVars, ownVars
  <2>16. CASE LeaseReap(p)
    BY <2>16, SentinelAssumption DEF pastVars, LeaseReap, At, Alive, FileTokens,
      Issued, CallTokens, Owner, Token, Record, TypeOK, CallTypeOK,
      FileTypeOK, OwnTypeOK, SetTypeOK, osVars, fileVars, callVars, ownVars
  <2>17. CASE LeaseAgain(p)
    BY <2>17, SentinelAssumption DEF pastVars, LeaseAgain, At, OwnRecord, Alive,
      FileTokens, Issued, CallTokens, Owner, Token, Record, TypeOK,
      CallTypeOK, FileTypeOK, OwnTypeOK, SetTypeOK, osVars, fileVars,
      callVars, ownVars
  <2>18. CASE GateCheck(p)
    BY <2>18, SentinelAssumption DEF Readings, pastVars, GateCheck, At, Parsed, Alive,
      FileTokens, Issued, CallTokens, Owner, Token, Record, TypeOK,
      CallTypeOK, FileTypeOK, OwnTypeOK, SetTypeOK, osVars, fileVars,
      callVars, ownVars
  <2>19. CASE GateDrop(p)
    BY <2>19, SentinelAssumption DEF pastVars, GateDrop, At, Alive, FileTokens,
      Issued, CallTokens, Owner, Token, Record, TypeOK, CallTypeOK,
      FileTypeOK, OwnTypeOK, SetTypeOK, osVars, fileVars, callVars, ownVars
  <2>20. CASE BeatRename(p)
    BY <2>20, SentinelAssumption DEF pastVars, BeatRename, At, Alive, FileTokens,
      Issued, CallTokens, Owner, Token, Record, TypeOK, CallTypeOK,
      FileTypeOK, OwnTypeOK, SetTypeOK, osVars, fileVars, callVars, ownVars
  <2>21. CASE LeaseCheck(p)
    BY <2>21, SentinelAssumption DEF Readings, pastVars, LeaseCheck, At, Parsed, Alive,
      FileTokens, Issued, CallTokens, Owner, Token, Record, TypeOK,
      CallTypeOK, FileTypeOK, OwnTypeOK, SetTypeOK, osVars, fileVars,
      callVars, ownVars
  <2>22. CASE LeaseDrop(p)
    BY <2>22, SentinelAssumption DEF pastVars, LeaseDrop, At, Alive, FileTokens,
      Issued, CallTokens, Owner, Token, Record, TypeOK, CallTypeOK,
      FileTypeOK, OwnTypeOK, SetTypeOK, osVars, fileVars, callVars, ownVars
  <2>23. CASE GateTimer(p)
    BY <2>23, SentinelAssumption DEF pastVars, GateTimer, At, Alive, FileTokens,
      Issued, CallTokens, Owner, Token, Record, TypeOK, CallTypeOK,
      FileTypeOK, OwnTypeOK, SetTypeOK, osVars, fileVars, callVars, ownVars
  <2>24. CASE LeaseTimer(p)
    BY <2>24, SentinelAssumption DEF pastVars, LeaseTimer, At, Alive, FileTokens,
      Issued, CallTokens, Owner, Token, Record, TypeOK, CallTypeOK,
      FileTypeOK, OwnTypeOK, SetTypeOK, osVars, fileVars, callVars, ownVars
  <2>25. CASE Beat(p)
    BY <2>25, SentinelAssumption DEF pastVars, Beat, At, Parsed, Alive, FileTokens,
      Issued, CallTokens, Owner, Token, Record, TypeOK, CallTypeOK,
      FileTypeOK, OwnTypeOK, SetTypeOK, osVars, fileVars, callVars, ownVars
  <2>26. CASE Release(p)
    BY <2>26, SentinelAssumption DEF pastVars, Release, At, Alive, FileTokens, Issued,
      CallTokens, Owner, Token, Record, TypeOK, CallTypeOK, FileTypeOK,
      OwnTypeOK, SetTypeOK, osVars, fileVars, callVars, ownVars
  <2> QED
    BY <2>1, <2>2, <2>3, <2>4, <2>5, <2>6, <2>7, <2>8, <2>9, <2>10, <2>11,
      <2>12, <2>13, <2>14, <2>15, <2>16, <2>17, <2>18, <2>19, <2>20, <2>21,
      <2>22, <2>23, <2>24, <2>25, <2>26 DEF CallStep, TimerStep
<1> QED
  BY <1>1, <1>2

(* So are the tokens that calls, scans and timers work with. *)
LEMMA StepCallTokens == IInv /\ StableBoot /\ [Next]_vars => CallTokens'
<1> SUFFICES ASSUME IInv, StableBoot, [Next]_vars PROVE CallTokens'
  OBVIOUS
<1>1. CASE UNCHANGED vars
  BY <1>1 DEF pastVars, IInv, CallTokens, Issued, vars, osVars, fileVars, callVars,
     ownVars
<1>2. CASE Next
  <2> SUFFICES ASSUME NEW p \in Proc,
                      \/ Start(p) \/ Crash(p) \/ Begin(p) \/ Expire(p)
                      \/ CallStep(p) \/ TimerStep(p) \/ Beat(p) \/ Release(p)
               PROVE  CallTokens'
    BY <1>2 DEF Next
  <2> USE DEF IInv
  <2>1. CASE Start(p)
    BY <2>1, SentinelAssumption DEF pastVars, Start, Alive, CallTokens, FileTokens,
      Issued, Owner, Token, Record, TypeOK, CallTypeOK, FileTypeOK, OwnTypeOK,
      SetTypeOK, osVars, fileVars, callVars, ownVars
  <2>2. CASE Crash(p)
    BY <2>2, SentinelAssumption DEF Leave, Return, pastVars, Crash, Alive, CallTokens, FileTokens,
      Issued, Owner, Token, Record, TypeOK, CallTypeOK, FileTypeOK, OwnTypeOK,
      SetTypeOK, osVars, fileVars, callVars, ownVars
  <2>3. CASE Begin(p)
    BY <2>3, SentinelAssumption DEF pastVars, Begin, At, Enter, Alive, CallTokens,
      FileTokens, Issued, Owner, Token, Record, TypeOK, CallTypeOK,
      FileTypeOK, OwnTypeOK, SetTypeOK, osVars, fileVars, callVars, ownVars
  <2>4. CASE Expire(p)
    BY <2>4, SentinelAssumption DEF pastVars, Expire, Alive, CallTokens, FileTokens,
      Issued, Owner, Token, Record, TypeOK, CallTypeOK, FileTypeOK, OwnTypeOK,
      SetTypeOK, osVars, fileVars, callVars, ownVars
  <2>5. CASE GatePublish(p)
    BY <2>5, SentinelAssumption DEF pastVars, GatePublish, At, OwnRecord, Goto,
      Return, Alive, Leave, CallTokens, FileTokens, Issued, Owner, Token,
      Record, TypeOK, CallTypeOK, FileTypeOK, OwnTypeOK, SetTypeOK, osVars,
      fileVars, callVars, ownVars
  <2>6. CASE GateRead(p)
    BY <2>6, SentinelAssumption DEF Readings, pastVars, GateRead, At, Read, Parsed, Alive,
      CallTokens, FileTokens, Issued, Owner, Token, Record, TypeOK,
      CallTypeOK, FileTypeOK, OwnTypeOK, SetTypeOK, osVars, fileVars,
      callVars, ownVars
  <2>7. CASE GateJudge(p)
    BY <2>7, SentinelAssumption DEF pastVars, GateJudge, At, WaitOrGiveUp, Climb,
      Alive, Return, PollAgain, Leave, CallTokens, FileTokens, Issued, Owner,
      Token, Record, TypeOK, CallTypeOK, FileTypeOK, OwnTypeOK, SetTypeOK,
      osVars, fileVars, callVars, ownVars
  <2>8. CASE ClaimPublish(p)
    <3>1. CASE UNCHANGED uses /\ Goto(p, "claimJudge")
      BY <2>8, <3>1 DEF pastVars, ClaimPublish, Goto, At, Alive, CallTokens, Issued,
         TypeOK, CallTypeOK, ownVars
    <3>2. CASE UNCHANGED uses /\ Return(p)
      BY <2>8, <3>2 DEF pastVars, ClaimPublish, Return, Leave, At, Alive, CallTokens,
         Issued, TypeOK, CallTypeOK, ownVars
    <3>3. CASE uses' = [uses EXCEPT ![p] = @ + 1] /\ Goto(p, "recheck")
      <4>2. \A t : Issued(t) => Issued(t)'
        BY <3>3 DEF Issued, Owner, Token, TypeOK, OwnTypeOK
      <4> QED
        BY <2>8, <3>3, <4>2 DEF pastVars, ClaimPublish, Goto, At, Alive, CallTokens,
           TypeOK, CallTypeOK, ownVars
    <3> QED
      BY <2>8, <3>1, <3>2, <3>3 DEF ClaimPublish
  <2>9. CASE ClaimJudge(p)
    BY <2>9, SentinelAssumption DEF pastVars, ClaimJudge, At, PollAgain, Return,
      Climb, Alive, Leave, CallTokens, FileTokens, Issued, Owner, Token,
      Record, TypeOK, CallTypeOK, FileTypeOK, OwnTypeOK, SetTypeOK, osVars,
      fileVars, callVars, ownVars
  <2>10. CASE Recheck(p)
    BY <2>10, SentinelAssumption DEF Readings, pastVars, Recheck, At, Parsed, Goto, PollAgain,
      Alive, CallTokens, FileTokens, Issued, Owner, Token, Record, TypeOK,
      CallTypeOK, FileTypeOK, OwnTypeOK, SetTypeOK, osVars, fileVars,
      callVars, ownVars
  <2>11. CASE GateReap(p)
    BY <2>11, SentinelAssumption DEF pastVars, GateReap, At, PollAgain, Alive,
      CallTokens, FileTokens, Issued, Owner, Token, Record, TypeOK,
      CallTypeOK, FileTypeOK, OwnTypeOK, SetTypeOK, osVars, fileVars,
      callVars, ownVars
  <2>12. CASE LeasePublish(p)
    <3>1. CASE FinishAcquire(p) /\ held' = held
      BY <2>12, <3>1, SentinelAssumption DEF pastVars, LeasePublish, FinishAcquire,
         Leave, At, Alive, CallTokens, FileTokens, Issued, Owner, Token,
         Record,
        TypeOK, CallTypeOK, FileTypeOK, OwnTypeOK, SetTypeOK, osVars, fileVars,
        ownVars
    <3>2. CASE FinishAcquire(p) /\ held' # held
      BY <2>12, <3>2, SentinelAssumption DEF pastVars, LeasePublish, FinishAcquire,
         Leave, At, Alive, CallTokens, FileTokens, Issued, Owner, Token,
         Record,
        TypeOK, CallTypeOK, FileTypeOK, OwnTypeOK, SetTypeOK, osVars, fileVars,
        ownVars
    <3>3. CASE Goto(p, "leaseRead")
      BY <2>12, <3>3, SentinelAssumption DEF pastVars, LeasePublish, Goto, At, Alive,
         CallTokens, FileTokens, Issued, Owner, Token, Record,
        TypeOK, CallTypeOK, FileTypeOK, OwnTypeOK, SetTypeOK, osVars, fileVars,
        ownVars
    <3> QED
      BY <2>12, <3>1, <3>2, <3>3 DEF LeasePublish
  <2>13. CASE LeaseRead(p)
    BY <2>13, SentinelAssumption DEF Readings, pastVars, LeaseRead, At, Read, Parsed, Alive,
      CallTokens, FileTokens, Issued, Owner, Token, Record, TypeOK,
      CallTypeOK, FileTypeOK, OwnTypeOK, SetTypeOK, osVars, fileVars,
      callVars, ownVars
  <2>14. CASE LeaseJudge(p)
    <3>1. CASE FinishAcquire(p)
      BY <2>14, <3>1, SentinelAssumption DEF pastVars, LeaseJudge, FinishAcquire, Leave,
         At, Alive, CallTokens, FileTokens, Issued, Owner, Token, Record,
        TypeOK, CallTypeOK, FileTypeOK, OwnTypeOK, SetTypeOK, osVars, fileVars,
        ownVars
    <3>2. CASE Goto(p, "leaseRecheck")
      BY <2>14, <3>2, SentinelAssumption DEF pastVars, LeaseJudge, Goto, At, Alive,
         CallTokens, FileTokens, Issued, Owner, Token, Record,
        TypeOK, CallTypeOK, FileTypeOK, OwnTypeOK, SetTypeOK, osVars, fileVars,
        ownVars
    <3> QED
      BY <2>14, <3>1, <3>2 DEF LeaseJudge
  <2>15. CASE LeaseRecheck(p)
    BY <2>15, SentinelAssumption DEF Readings, Read, pastVars, LeaseRecheck, At, Parsed, Goto,
      FinishAcquire, Alive, Leave, CallTokens, FileTokens, Issued, Owner,
      Token, Record, TypeOK, CallTypeOK, FileTypeOK, OwnTypeOK, SetTypeOK,
      osVars, fileVars, callVars, ownVars
  <2>16. CASE LeaseReap(p)
    BY <2>16, SentinelAssumption DEF pastVars, LeaseReap, At, Goto, FinishAcquire,
      Alive, Leave, CallTokens, FileTokens, Issued, Owner, Token, Record,
      TypeOK, CallTypeOK, FileTypeOK, OwnTypeOK, SetTypeOK, osVars, fileVars,
      callVars, ownVars
  <2>17. CASE LeaseAgain(p)
    BY <2>17, SentinelAssumption DEF pastVars, LeaseAgain, At, FinishAcquire,
      OwnRecord, Alive, Leave, CallTokens, FileTokens, Issued, Owner, Token,
      Record, TypeOK, CallTypeOK, FileTypeOK, OwnTypeOK, SetTypeOK, osVars,
      fileVars, callVars, ownVars
  <2>18. CASE GateCheck(p)
    BY <2>18, SentinelAssumption DEF Readings, pastVars, GateCheck, At, Parsed, Goto, Return,
      Alive, Leave, CallTokens, FileTokens, Issued, Owner, Token, Record,
      TypeOK, CallTypeOK, FileTypeOK, OwnTypeOK, SetTypeOK, osVars, fileVars,
      callVars, ownVars
  <2>19. CASE GateDrop(p)
    BY <2>19, SentinelAssumption DEF pastVars, GateDrop, At, Return, Alive, Leave,
      CallTokens, FileTokens, Issued, Owner, Token, Record, TypeOK,
      CallTypeOK, FileTypeOK, OwnTypeOK, SetTypeOK, osVars, fileVars,
      callVars, ownVars
  <2>20. CASE BeatRename(p)
    BY <2>20, SentinelAssumption DEF pastVars, BeatRename, At, Return, Alive, Leave,
      CallTokens, FileTokens, Issued, Owner, Token, Record, TypeOK,
      CallTypeOK, FileTypeOK, OwnTypeOK, SetTypeOK, osVars, fileVars,
      callVars, ownVars
  <2>21. CASE LeaseCheck(p)
    BY <2>21, SentinelAssumption DEF Readings, pastVars, LeaseCheck, At, Parsed, Goto, Return,
      Alive, Leave, CallTokens, FileTokens, Issued, Owner, Token, Record,
      TypeOK, CallTypeOK, FileTypeOK, OwnTypeOK, SetTypeOK, osVars, fileVars,
      callVars, ownVars
  <2>22. CASE LeaseDrop(p)
    BY <2>22, SentinelAssumption DEF pastVars, LeaseDrop, At, Return, Alive, Leave,
      CallTokens, FileTokens, Issued, Owner, Token, Record, TypeOK,
      CallTypeOK, FileTypeOK, OwnTypeOK, SetTypeOK, osVars, fileVars,
      callVars, ownVars
  <2>23. CASE GateTimer(p)
    BY <2>23, SentinelAssumption DEF pastVars, GateTimer, At, Enter, Alive,
      CallTokens, FileTokens, Issued, Owner, Token, Record, TypeOK,
      CallTypeOK, FileTypeOK, OwnTypeOK, SetTypeOK, osVars, fileVars,
      callVars, ownVars
  <2>24. CASE LeaseTimer(p)
    BY <2>24, SentinelAssumption DEF pastVars, LeaseTimer, At, Enter, Alive,
      CallTokens, FileTokens, Issued, Owner, Token, Record, TypeOK,
      CallTypeOK, FileTypeOK, OwnTypeOK, SetTypeOK, osVars, fileVars,
      callVars, ownVars
  <2>25. CASE Beat(p)
    BY <2>25, SentinelAssumption DEF pastVars, Beat, At, Parsed, Enter, Alive,
      CallTokens, FileTokens, Issued, Owner, Token, Record, TypeOK,
      CallTypeOK, FileTypeOK, OwnTypeOK, SetTypeOK, osVars, fileVars,
      callVars, ownVars
  <2>26. CASE Release(p)
    BY <2>26, SentinelAssumption DEF pastVars, Release, At, Enter, Alive, CallTokens,
      FileTokens, Issued, Owner, Token, Record, TypeOK, CallTypeOK,
      FileTypeOK, OwnTypeOK, SetTypeOK, osVars, fileVars, callVars, ownVars
  <2> QED
    BY <2>1, <2>2, <2>3, <2>4, <2>5, <2>6, <2>7, <2>8, <2>9, <2>10, <2>11,
      <2>12, <2>13, <2>14, <2>15, <2>16, <2>17, <2>18, <2>19, <2>20, <2>21,
      <2>22, <2>23, <2>24, <2>25, <2>26 DEF CallStep, TimerStep
<1> QED
  BY <1>1, <1>2

(* What canReclaim says is so: the owner of the record is dead, for good. *)
LEMMA JudgedDead ==
    ASSUME IInv, StableBoot, NEW p \in Proc, NEW r, Issued(r.tok),
           r.boot \in Boot \cup {Unknown}, NEW known \in BOOLEAN,
           CanReclaim(p, r, known)
    PROVE  Dead(Owner(r.tok))
<1>1. Owner(r.tok) \in Proc /\ uses[Owner(r.tok)] \in Nat /\ uses[Owner(r.tok)] # 0
  BY DEF Issued, Owner, Token, IInv, TypeOK, OwnTypeOK
<1>2. ~Alive(Owner(r.tok))
  BY <1>1, ReclaimIsSafe DEF IInv
<1>3. life[Owner(r.tok)] # "unborn"
  BY <1>1 DEF IInv, Unborn
<1> QED
  BY <1>1, <1>2, <1>3 DEF Alive, Dead, IInv, TypeOK, OwnTypeOK

(* A dead process stays dead, and its tokens stay drawn. *)
LEMMA DeadForGood == 
    ASSUME TypeOK, [Next]_vars, NEW q \in Proc, Dead(q) PROVE Dead(q)'
<1>1. CASE UNCHANGED vars
  BY <1>1 DEF pastVars, vars, osVars, Dead
<1>2. CASE Next
  <2> PICK p \in Proc : \/ Start(p) \/ Crash(p) \/ Begin(p) \/ Expire(p)
                        \/ CallStep(p) \/ TimerStep(p) \/ Beat(p) \/ Release(p)
    BY <1>2 DEF Next
  <2>1. CASE Start(p) \/ Crash(p)
    BY <2>1 DEF Leave, Return, Start, Crash, Dead, TypeOK, OwnTypeOK, Alive
  <2>2. CASE Begin(p) \/ Expire(p) \/ CallStep(p) \/ TimerStep(p) \/ Beat(p) \/ Release(p)
    BY <2>2 DEF pastVars, Begin, Expire, CallStep, TimerStep, Beat, Release,
       GatePublish, GateRead, GateJudge, ClaimPublish, ClaimJudge, Recheck,
       GateReap, LeasePublish, LeaseRead, LeaseJudge, LeaseRecheck, LeaseReap,
       LeaseAgain, GateCheck, GateDrop, BeatRename, LeaseCheck, LeaseDrop,
       GateTimer, LeaseTimer, osVars, Dead
  <2> QED
    BY <2>1, <2>2
<1> QED
  BY <1>1, <1>2

(* The claims change only when one is published, and then at the end of its *)
(* chain, past links whose owners are all dead.                             *)
LEMMA StepChain == IInv /\ StableBoot /\ [Next]_vars => Chain'
<1> SUFFICES ASSUME IInv, StableBoot, [Next]_vars PROVE Chain'
  OBVIOUS
<1>0. \A c \in claims : Owner(c.tok) \in Proc
  BY DEF IInv, FileTokens, Issued, Owner, Token
<1>1. CASE UNCHANGED claims
  BY <1>0, <1>1, DeadForGood DEF IInv, Chain
<1>2. ASSUME NEW p \in Proc, ClaimPublish(p), claims' # claims PROVE Chain'
  <2> DEFINE g == seen[p].tok
             n == depth[p]
             t == subject[p]
  <2>1. /\ pc[p] = "claim" /\ ClaimAt(p) = {} /\ UNCHANGED <<life, depth, subject, seen>>
    BY <1>2 DEF pastVars, ClaimPublish, At, Goto, osVars
  <2>2. n \in Nat /\ g \in Token /\ t \in Token
    BY <2>1 DEF IInv, TypeOK, CallTypeOK, SetTypeOK, Record
  <2>3. PICK e : /\ e.gate = g /\ e.depth = n /\ e.subject = t
                 /\ claims' = claims \cup {e}
    BY <1>2 DEF ClaimPublish
  <2>4. \A c \in claims : c.depth \in Nat
    BY DEF IInv, TypeOK, FileTypeOK, Claim
  <2>5. \A c \in claims : ~(c.gate = g /\ c.depth = n)
    <3> SUFFICES ASSUME NEW c \in claims, c.gate = g, c.depth = n PROVE FALSE
      OBVIOUS
    <3>1. CASE n = 0
      BY <2>1, <3>1 DEF IInv, Chain, Walking, Walks, ClaimAt
    <3>2. CASE n # 0
      <4>1. PICK d \in claims : d.gate = g /\ d.depth = n - 1 /\ d.tok = t
        BY <2>1, <3>2 DEF IInv, Walking, Walks
      <4>2. PICK d2 \in claims : d2.gate = g /\ d2.depth = n - 1 /\ d2.tok = c.subject
        BY <3>2 DEF IInv, Chain
      <4>3. d = d2
        BY <4>1, <4>2 DEF IInv, Chain
      <4> QED
        BY <2>1, <4>1, <4>2, <4>3 DEF ClaimAt
    <3> QED
      BY <3>1, <3>2
  <2>6. \A c \in claims : c.gate = g => c.depth < n
    <3> SUFFICES ASSUME NEW c \in claims, c.gate = g, n < c.depth PROVE FALSE
      BY <2>2, <2>4, <2>5
    <3>1. n \in 0..(c.depth - 1)
      BY <2>2, <2>4
    <3> QED
      BY <2>5, <3>1 DEF IInv, Chain
  <2>7. n = 0 => t = g
    BY <2>1 DEF IInv, Walking, Walks
  <2>8. n # 0 => \E d \in claims : /\ d.gate = g /\ d.depth = n - 1 /\ d.tok = t
                                  /\ Dead(Owner(d.tok))
    BY <2>1 DEF IInv, Walking, Walks
  <2>9. \A c \in claims : c.gate = g => Dead(Owner(c.tok))
    <3> SUFFICES ASSUME NEW c \in claims, c.gate = g PROVE Dead(Owner(c.tok))
      OBVIOUS
    <3>1. n # 0
      BY <2>4, <2>6
    <3>2. PICK d \in claims : /\ d.gate = g /\ d.depth = n - 1 /\ d.tok = t
                             /\ Dead(Owner(d.tok))
      BY <2>8, <3>1
    <3>3. c.depth < n /\ c.depth \in Nat
      BY <2>4, <2>6
    <3>4. c.depth = d.depth => c = d
      BY <3>2 DEF IInv, Chain
    <3>5. c.depth < d.depth => Dead(Owner(c.tok))
      BY <3>2 DEF IInv, Chain
    <3> QED
      BY <2>2, <3>2, <3>3, <3>4, <3>5
  <2> HIDE DEF g, n, t
  <2>10. (\A c \in claims : c.depth = 0 => c.subject = c.gate)'
    BY <2>3, <2>7 DEF IInv, Chain
  <2>11. (\A c \in claims : c.depth # 0 =>
            \E d \in claims : /\ d.gate = c.gate /\ d.depth = c.depth - 1
                              /\ d.tok = c.subject)'
    BY <2>3, <2>8 DEF IInv, Chain
  <2>12. (\A c, d \in claims : c.gate = d.gate /\ c.depth = d.depth => c = d)'
    BY <2>3, <2>5 DEF IInv, Chain
  <2>13. (\A c, d \in claims :
            c.gate = d.gate /\ c.depth < d.depth => Dead(Owner(c.tok)))'
    <3> SUFFICES ASSUME NEW c \in claims', NEW d \in claims',
                        c.gate = d.gate, c.depth < d.depth
                 PROVE  Dead(Owner(c.tok))
      BY <2>1 DEF Dead
    <3>1. CASE d \in claims
      <4>1. c # e
        BY <2>2, <2>3, <2>4, <2>6, <3>1
      <4> QED
        BY <2>3, <3>1, <4>1 DEF IInv, Chain
    <3>2. CASE d = e
      <4>1. c # e
        BY <2>2, <2>3, <3>2
      <4> QED
        BY <2>3, <2>9, <3>2, <4>1
    <3> QED
      BY <2>3, <3>1, <3>2
  <2>14. (\A d \in claims : \A i \in 0..(d.depth - 1) :
            \E c \in claims : c.gate = d.gate /\ c.depth = i)'
    <3> SUFFICES ASSUME NEW d \in claims', NEW i \in 0..(d.depth - 1)
                 PROVE  \E c \in claims' : c.gate = d.gate /\ c.depth = i
      OBVIOUS
    <3>1. CASE d \in claims
      BY <2>3, <3>1 DEF IInv, Chain
    <3>2. CASE d = e
      <4>1. n # 0 /\ i \in 0..(n - 1)
        BY <2>2, <2>3, <3>2
      <4>2. PICK f \in claims : f.gate = g /\ f.depth = n - 1
        BY <2>8, <4>1
      <4>3. CASE i = n - 1
        BY <2>3, <3>2, <4>2, <4>3
      <4>4. CASE i # n - 1
        <5>1. i \in 0..(f.depth - 1)
          BY <2>2, <4>1, <4>2, <4>4
        <5>2. PICK c \in claims : c.gate = f.gate /\ c.depth = i
          BY <5>1 DEF IInv, Chain
        <5> QED
          BY <2>3, <3>2, <4>2, <5>2
      <4> QED
        BY <4>3, <4>4
    <3> QED
      BY <2>3, <3>1, <3>2
  <2> QED
    BY <2>10, <2>11, <2>12, <2>13, <2>14 DEF Chain
<1>3. CASE UNCHANGED vars
  BY <1>1, <1>3 DEF pastVars, vars, fileVars
<1>4. CASE Next
  <2> PICK p \in Proc : \/ Start(p) \/ Crash(p) \/ Begin(p) \/ Expire(p)
                        \/ CallStep(p) \/ TimerStep(p) \/ Beat(p) \/ Release(p)
    BY <1>4 DEF Next
  <2>1. CASE ClaimPublish(p)
    BY <1>1, <1>2, <2>1
  <2>2. CASE ~ClaimPublish(p)
    <3>1. UNCHANGED claims
      BY <2>2 DEF Leave, Return, pastVars, Start, Crash, Begin, Expire, CallStep, TimerStep, Beat,
         Release, GatePublish, GateRead, GateJudge, ClaimJudge, Recheck,
         GateReap, LeasePublish, LeaseRead, LeaseJudge, LeaseRecheck,
         LeaseReap, LeaseAgain, GateCheck, GateDrop, BeatRename, LeaseCheck,
         LeaseDrop, GateTimer, LeaseTimer, fileVars
    <3> QED
      BY <1>1, <3>1
  <2> QED
    BY <2>1, <2>2
<1> QED
  BY <1>3, <1>4

(* What a step leaves of the calls of the other processes. *)
LEMMA OthersWait ==
    ASSUME TypeOK, NEW p \in Proc, NEW q \in Proc, q # p,
           \/ Start(p) \/ Crash(p) \/ Begin(p) \/ Expire(p)
           \/ CallStep(p) \/ TimerStep(p) \/ Beat(p) \/ Release(p)
    PROVE  /\ pc'[q] = pc[q] /\ tok'[q] = tok[q] /\ seen'[q] = seen[q]
           /\ depth'[q] = depth[q] /\ subject'[q] = subject[q]
           /\ life'[q] = life[q] /\ held'[q] = held[q]
           /\ leaseRetry'[q] = leaseRetry[q]
<1> USE DEF TypeOK, CallTypeOK, OwnTypeOK
<1>1. CASE Start(p) \/ Crash(p) \/ Begin(p) \/ Expire(p)
  BY <1>1 DEF Leave, Return, pastVars, Start, Crash, Begin, Expire, Enter, callVars, osVars, ownVars
<1>2. CASE CallStep(p)
  <2>1. UNCHANGED life
    BY <1>2 DEF pastVars, CallStep, GatePublish, GateRead, GateJudge, ClaimPublish,
       ClaimJudge, Recheck, GateReap, LeasePublish, LeaseRead, LeaseJudge,
       LeaseRecheck, LeaseReap, LeaseAgain, GateCheck, GateDrop, BeatRename,
       LeaseCheck, LeaseDrop, osVars
  <2>2. held'[q] = held[q] /\ leaseRetry'[q] = leaseRetry[q]
    BY <1>2 DEF pastVars, CallStep, GatePublish, GateRead, GateJudge, ClaimPublish,
       ClaimJudge, Recheck, GateReap, LeasePublish, LeaseRead, LeaseJudge,
       LeaseRecheck, LeaseReap, LeaseAgain, GateCheck, GateDrop, BeatRename,
       LeaseCheck, LeaseDrop, ownVars
  <2>3. \/ \E l \in Points : Goto(p, l)
        \/ \E l \in Points, f \in Record \cup {None} : Read(p, l, f)
        \/ \E d \in Nat, t \in Token : Climb(p, d, t)
        \/ \E l \in Points, t \in Token \cup {None} : Leave(p, l, t)
        \/ PollAgain(p)
    <3>1. CASE GatePublish(p) \/ Recheck(p) \/ GateReap(p) \/ LeasePublish(p) \/ LeaseJudge(p) \/ LeaseReap(p) \/ LeaseAgain(p) \/ GateCheck(p) \/ GateDrop(p) \/ BeatRename(p) \/ LeaseCheck(p) \/ LeaseDrop(p) \/ ClaimPublish(p)
      BY <3>1 DEF GatePublish, Recheck, GateReap, LeasePublish, LeaseJudge,
         LeaseReap, LeaseAgain, GateCheck, GateDrop, BeatRename,
         LeaseCheck, LeaseDrop, ClaimPublish, Return, FinishAcquire, Points
    <3>2. CASE GateRead(p) \/ LeaseRead(p) \/ LeaseRecheck(p)
      <4>1. /\ Readings(gate) \subseteq Record \cup {None}
            /\ Readings(lease) \subseteq Record \cup {None}
        BY DEF Readings, Parsed, FileTypeOK
      <4> QED
        BY <3>2, <4>1 DEF GateRead, LeaseRead, LeaseRecheck, FinishAcquire,
           Points
    <3>3. CASE GateJudge(p)
      BY <3>3 DEF GateJudge, WaitOrGiveUp, Return, Points, Record
    <3>4. CASE ClaimJudge(p) /\ ~Return(p)
      <4>1. PICK c \in ClaimAt(p), known \in BOOLEAN :
              IF ~CanReclaim(p, c, known) THEN PollAgain(p)
              ELSE IF depth[p] + 1 = ClaimDepth THEN Return(p)
              ELSE Climb(p, depth[p] + 1, c.tok)
        BY <3>4 DEF ClaimJudge
      <4>2. c.tok \in Token /\ depth[p] + 1 \in Nat
        BY <4>1 DEF ClaimAt, FileTypeOK, Claim
      <4> QED
        BY <4>1, <4>2 DEF Return, Points
    <3>5. CASE Return(p)
      BY <3>5 DEF Return, Points
    <3> QED
      BY <1>2, <3>1, <3>2, <3>3, <3>4, <3>5 DEF CallStep
  <2> QED
    BY <2>1, <2>2, <2>3 DEF Goto, Read, Climb, Leave, PollAgain
<1>3. CASE TimerStep(p) \/ Beat(p) \/ Release(p)
  BY <1>3 DEF pastVars, TimerStep, GateTimer, LeaseTimer, Beat, Release, Enter, osVars,
     ownVars
<1> QED
  BY <1>1, <1>2, <1>3

(* Only q's own calls take it from one place in the walk to the next.       *)
LEMMA StepWalking == IInv /\ StableBoot /\ [Next]_vars => Walking'
<1> SUFFICES ASSUME IInv, StableBoot, [Next]_vars, NEW q \in Proc
             PROVE  Walks(q)'
  BY DEF Walking
<1> USE DEF IInv
<1>1. Walks(q)
  BY DEF Walking
<1>2. /\ \A c \in claims : Owner(c.tok) \in Proc /\ c.tok \in Token
      /\ seen[q] # None => Owner(seen[q].tok) \in Proc
  BY DEF FileTokens, CallTokens, Issued, Owner, Token
<1>3. ASSUME claims \subseteq claims',
             UNCHANGED <<pc[q], seen[q], depth[q], subject[q]>>
      PROVE  Walks(q)'
  BY <1>1, <1>2, <1>3, DeadForGood DEF Walks
<1>4. CASE UNCHANGED vars
  BY <1>3, <1>4 DEF pastVars, vars, fileVars, callVars
<1>5. CASE Next
  <2> PICK p \in Proc : \/ Start(p) \/ Crash(p) \/ Begin(p) \/ Expire(p)
                        \/ CallStep(p) \/ TimerStep(p) \/ Beat(p) \/ Release(p)
    BY <1>5 DEF Next
  <2>1. claims \subseteq claims'
    BY DEF Leave, Return, pastVars, Start, Crash, Begin, Expire, CallStep, TimerStep, Beat, Release,
       GatePublish, GateRead, GateJudge, ClaimPublish, ClaimJudge, Recheck,
       GateReap, LeasePublish, LeaseRead, LeaseJudge, LeaseRecheck, LeaseReap,
       LeaseAgain, GateCheck, GateDrop, BeatRename, LeaseCheck, LeaseDrop,
       GateTimer, LeaseTimer, fileVars
  <2>2. CASE q # p
    BY <1>3, <2>1, <2>2, OthersWait
  <2>3. CASE q = p /\ (Start(p) \/ Crash(p) \/ Expire(p))
    BY <1>3, <2>1, <2>3 DEF Leave, Return, Start, Crash, Expire, callVars,
       Walks, TypeOK, CallTypeOK
  <2>4. CASE q = p /\ GateJudge(p)
    <3>1. ASSUME NEW known \in BOOLEAN, seen[p] # None, CanReclaim(p, seen[p], known)
          PROVE  Dead(Owner(seen[p].tok))
      BY <3>1, JudgedDead DEF CallTokens, TypeOK, CallTypeOK, Record
    <3>2. CASE pc'[p] # "claim"
      BY <2>4, <3>2, SentinelAssumption DEF GateJudge, WaitOrGiveUp, Return,
         Leave, PollAgain, Climb, Walks, TypeOK, CallTypeOK
    <3>3. CASE pc'[p] = "claim"
      <4>1. /\ Dead(Owner(seen[p].tok)) /\ seen[p] # None
            /\ Climb(p, 0, seen[p].tok) /\ UNCHANGED life
        BY <2>4, <3>1, <3>3 DEF pastVars, GateJudge, WaitOrGiveUp, Return, Leave,
           PollAgain, Points, TypeOK, CallTypeOK, osVars
      <4> QED
        BY <2>4, <4>1 DEF Climb, Walks, TypeOK, CallTypeOK, Dead
    <3> QED
      BY <3>2, <3>3
  <2>r. CASE q = p /\ ClaimJudge(p) /\ Return(p)
    BY <2>r DEF Return, Leave, Walks, TypeOK, CallTypeOK
  <2>5. CASE q = p /\ ClaimJudge(p) /\ ~Return(p)
    <3>1. PICK c \in ClaimAt(p), known \in BOOLEAN :
            IF ~CanReclaim(p, c, known) THEN PollAgain(p)
            ELSE IF depth[p] + 1 = ClaimDepth THEN Return(p)
            ELSE Climb(p, depth[p] + 1, c.tok)
      BY <2>5 DEF ClaimJudge
    <3>2. c \in claims /\ c.gate = seen[p].tok /\ c.depth = depth[p]
      BY <3>1 DEF ClaimAt
    <3>3. CASE PollAgain(p) \/ Return(p)
      BY <2>5, <3>3 DEF PollAgain, Return, Leave, Walks, TypeOK, CallTypeOK
    <3>4. CASE Climb(p, depth[p] + 1, c.tok) /\ CanReclaim(p, c, known)
      <4>1. Dead(Owner(c.tok))
        BY <3>2, <3>4, JudgedDead DEF FileTokens, TypeOK, FileTypeOK, Claim
      <4>2. UNCHANGED <<life, claims>>
        BY <2>5 DEF pastVars, ClaimJudge, osVars, fileVars
      <4>3. pc[p] = "claimJudge" /\ depth[p] \in Nat
        BY <2>5 DEF ClaimJudge, At, TypeOK, CallTypeOK
      <4> QED
        BY <1>1, <2>5, <3>2, <3>4, <4>1, <4>2, <4>3 DEF Climb, Walks, TypeOK,
           CallTypeOK, Dead
    <3> QED
      BY <3>1, <3>3, <3>4
  <2>6. CASE q = p /\ ClaimPublish(p)
    <3>1. CASE Return(p)
      BY <2>6, <3>1 DEF Return, Leave, Walks, TypeOK, CallTypeOK
    <3>2. CASE Goto(p, "claimJudge")
      BY <1>1, <2>6, <3>2, <2>1, DeadForGood, <1>2 DEF ClaimPublish, At, Goto,
         Walks, TypeOK, CallTypeOK
    <3>3. CASE /\ Goto(p, "recheck")
               /\ claims' = claims \cup
                    {[gate |-> seen[p].tok, depth |-> depth[p],
                      subject |-> subject[p], tok |-> <<p, uses[p] + 1>>,
                      boot |-> fp[p]]}
      <4>1. \E e \in claims' : e.gate = seen[p].tok /\ Owner(e.tok) = p
        <5> DEFINE e == [gate |-> seen[p].tok, depth |-> depth[p],
                         subject |-> subject[p], tok |-> <<p, uses[p] + 1>>,
                         boot |-> fp[p]]
        <5>1. e \in claims'
          BY <3>3
        <5>2. e.gate = seen[p].tok /\ Owner(e.tok) = p
          BY DEF Owner
        <5> QED
          BY <5>1, <5>2
      <4> QED
        BY <1>1, <2>6, <3>3, <4>1, DeadForGood, <1>2 DEF ClaimPublish, At,
           Goto, Walks, TypeOK, CallTypeOK
    <3> QED
      BY <2>6, <3>1, <3>2, <3>3 DEF ClaimPublish
  <2>7. CASE q = p /\ Recheck(p)
    <3>1. CASE Goto(p, "gateReap")
      BY <1>1, <2>7, <3>1, <2>1, DeadForGood, <1>2 DEF Recheck, At, Goto,
         Walks, TypeOK, CallTypeOK
    <3>2. CASE PollAgain(p)
      BY <2>7, <3>2 DEF PollAgain, Walks, TypeOK, CallTypeOK
    <3> QED
      BY <2>7, <3>1, <3>2 DEF Recheck
  <2>8. CASE q = p /\ ~(Start(p) \/ Crash(p) \/ Expire(p) \/ GateJudge(p)
                        \/ ClaimJudge(p) \/ ClaimPublish(p) \/ Recheck(p))
    <3>1. pc'[p] \notin {"claim", "claimJudge", "recheck", "gateReap"}
      BY <2>8 DEF TypeOK, CallTypeOK, Begin, CallStep, TimerStep, Beat,
         Release, GatePublish, GateRead, GateReap, LeasePublish, LeaseRead,
         LeaseJudge, LeaseRecheck, LeaseReap, LeaseAgain, GateCheck, GateDrop,
         BeatRename, LeaseCheck, LeaseDrop, GateTimer, LeaseTimer, Goto, Read,
         Enter, Leave, PollAgain, Return, FinishAcquire
    <3> QED
      BY <2>8, <3>1 DEF Walks
  <2> QED
    BY <2>2, <2>3, <2>4, <2>r, <2>5, <2>6, <2>7, <2>8
<1> QED
  BY <1>4, <1>5

(* Two live processes cannot both own a link of the claim chain of one gate. *)
LEMMA OneClaimant ==
    ASSUME IInv, NEW p \in Proc, NEW q \in Proc, Alive(p), Alive(q),
           NEW c \in claims, NEW d \in claims, c.gate = d.gate,
           Owner(c.tok) = p, Owner(d.tok) = q
    PROVE  p = q
<1>1. c.depth \in Nat /\ d.depth \in Nat
  BY DEF IInv, TypeOK, FileTypeOK, Claim
<1>2. c.depth = d.depth => c = d
  BY DEF IInv, Chain
<1>3. ~(c.depth < d.depth) /\ ~(d.depth < c.depth)
  BY DEF IInv, Chain, Dead, Alive
<1> QED
  BY <1>1, <1>2, <1>3

(* The gate changes only by a publish over no gate, by its live owner's own *)
(* release, and by the one live claimant of a dead owner's.                 *)
LEMMA StepGateHeld == IInv /\ StableBoot /\ [Next]_vars => GateHeld'
<1> SUFFICES ASSUME IInv, StableBoot, [Next]_vars, NEW q \in Proc
             PROVE  HoldsGate(q)'
  BY DEF GateHeld
<1> USE DEF IInv
<1>1. HoldsGate(q)
  BY DEF GateHeld
<1>2. CASE UNCHANGED vars
  BY <1>1, <1>2 DEF pastVars, vars, fileVars, callVars, osVars, HoldsGate, At, Alive,
     GateIs
<1>3. CASE Next
  <2> PICK p \in Proc : \/ Start(p) \/ Crash(p) \/ Begin(p) \/ Expire(p)
                        \/ CallStep(p) \/ TimerStep(p) \/ Beat(p) \/ Release(p)
    BY <1>3 DEF Next
  <2>1. ASSUME UNCHANGED <<gate, life[q], pc[q], tok[q], seen[q]>>
        PROVE  HoldsGate(q)'
    BY <1>1, <2>1 DEF HoldsGate, At, Alive, GateIs
  <2>2. CASE q # p /\ ~(GatePublish(p) \/ GateReap(p) \/ GateDrop(p))
    <3>1. UNCHANGED gate
      BY <2>2 DEF Leave, Return, pastVars, Start, Crash, Begin, Expire, CallStep, TimerStep, Beat,
         Release, GateRead, GateJudge, ClaimPublish, ClaimJudge, Recheck,
         LeasePublish, LeaseRead, LeaseJudge, LeaseRecheck, LeaseReap,
         LeaseAgain, GateCheck, BeatRename, LeaseCheck, LeaseDrop, GateTimer,
         LeaseTimer, fileVars
    <3> QED
      BY <2>1, <2>2, <3>1, OthersWait
  <2>3. CASE q # p /\ GatePublish(p)
    <3>1. gate' = gate \/ gate = None
      BY <2>3 DEF GatePublish
    <3>2. (~GateIs(tok[q]) /\ ~GateIs(seen[q].tok)) \/ gate' = gate
      BY <3>1, SentinelAssumption DEF GateIs
    <3> QED
      BY <1>1, <2>1, <2>3, <3>2, OthersWait DEF HoldsGate, At, Alive
  <2>4. CASE q # p /\ GateReap(p)
    <3>1. Alive(p) /\ GateIs(seen[p].tok) /\ Dead(Owner(seen[p].tok))
      BY <2>4 DEF GateReap, At, GateHeld, HoldsGate, Walking, Walks
    <3>2. ~(Alive(q) /\ pc[q] \in CriticalPoints \cup {"gateDrop"})
      <4> SUFFICES ASSUME Alive(q), pc[q] \in CriticalPoints \cup {"gateDrop"}
                   PROVE  FALSE
        OBVIOUS
      <4>1. GateIs(tok[q]) /\ Owner(tok[q]) = q
        BY <1>1 DEF HoldsGate, CallTokens, CriticalPoints
      <4> QED
        BY <3>1, <4>1 DEF GateIs, Dead, Alive
    <3>3. ~At(q, "gateReap")
      <4> SUFFICES ASSUME At(q, "gateReap") PROVE FALSE
        OBVIOUS
      <4>1. seen[q].tok = seen[p].tok /\ Alive(q)
        BY <1>1, <3>1 DEF HoldsGate, GateIs, At
      <4>2. PICK c \in claims : c.gate = seen[p].tok /\ Owner(c.tok) = p
        BY <2>4 DEF GateReap, At, Walking, Walks
      <4>3. PICK d \in claims : d.gate = seen[q].tok /\ Owner(d.tok) = q
        BY DEF At, Walking, Walks
      <4> QED
        BY <2>4, <3>1, <4>1, <4>2, <4>3, OneClaimant
    <3> QED
      BY <2>4, <3>2, <3>3, OthersWait DEF HoldsGate, At, Alive
  <2>5. CASE q # p /\ GateDrop(p)
    <3>1. Alive(p) /\ GateIs(tok[p]) /\ Owner(tok[p]) = p
      BY <2>5 DEF GateDrop, At, GateHeld, HoldsGate, CallTokens
    <3>2. ~(Alive(q) /\ pc[q] \in CriticalPoints \cup {"gateDrop"})
      BY <1>1, <2>5, <3>1 DEF HoldsGate, CallTokens, CriticalPoints, GateIs
    <3>3. ~At(q, "gateReap")
      BY <1>1, <3>1 DEF HoldsGate, GateIs, At, Walking, Walks, Dead, Alive
    <3> QED
      BY <2>5, <3>2, <3>3, OthersWait DEF HoldsGate, At, Alive
  <2>6. CASE q = p /\ (Start(p) \/ Crash(p) \/ Expire(p))
    BY <1>1, <2>6 DEF Leave, Return, pastVars, Start, Crash, Expire, HoldsGate, At, Alive, GateIs,
       fileVars, callVars, osVars, Unborn, TypeOK, OwnTypeOK, CriticalPoints
  <2>7. CASE q = p /\ GatePublish(p)
    <3>1. CASE Goto(p, "lease") /\ gate' = OwnRecord(p)
      <4>1. gate' \in Record /\ gate'.tok = tok[p]
        BY <2>7, <3>1 DEF OwnRecord, Record, GatePublish, At, TypeOK,
           CallTypeOK, SetTypeOK
      <4> QED
        BY <2>7, <3>1, <4>1 DEF Goto, HoldsGate, At, GateIs, TypeOK, CallTypeOK
    <3>2. CASE Goto(p, "gateRead") \/ Return(p)
      BY <2>7, <3>2 DEF Goto, Return, Leave, HoldsGate, At, TypeOK,
         CallTypeOK, CriticalPoints
    <3> QED
      BY <2>7, <3>1, <3>2 DEF GatePublish
  <2>8. CASE q = p /\ (Recheck(p) \/ GateCheck(p))
    <3>1. UNCHANGED gate /\ pc[p] # "loop"
      BY <2>8 DEF pastVars, Recheck, GateCheck, fileVars, At
    <3>2. \A now \in Readings(gate) : now = None \/ (gate \in Record /\ now = gate)
      BY DEF Readings, Parsed, TypeOK, FileTypeOK
    <3>3. CASE Recheck(p)
      BY <2>8, <3>1, <3>2, <3>3 DEF Recheck, Goto, PollAgain, HoldsGate, At,
         GateIs, TypeOK, CallTypeOK, CriticalPoints
    <3>4. CASE GateCheck(p)
      BY <2>8, <3>1, <3>2, <3>4 DEF GateCheck, Goto, Return, Leave, HoldsGate,
         At, GateIs, TypeOK, CallTypeOK, CriticalPoints
    <3> QED
      BY <2>8, <3>3, <3>4
  <2>9. CASE q = p /\ (LeasePublish(p) \/ LeaseRead(p) \/ LeaseJudge(p)
                        \/ LeaseRecheck(p) \/ LeaseReap(p) \/ LeaseAgain(p))
    <3>1. /\ UNCHANGED <<gate, life>> /\ Alive(p) /\ pc[p] \in CriticalPoints
          /\ tok'[p] = tok[p]
      BY <2>9 DEF pastVars, LeasePublish, LeaseRead, LeaseJudge, LeaseRecheck,
         LeaseReap, LeaseAgain, At, CriticalPoints, fileVars, osVars, Goto,
         Read, FinishAcquire, Leave, TypeOK, CallTypeOK
    <3>2. pc'[p] # "gateReap"
      BY <2>9 DEF LeasePublish, LeaseRead, LeaseJudge, LeaseRecheck,
         LeaseReap, LeaseAgain, Goto, Read, FinishAcquire, Leave, TypeOK,
         CallTypeOK
    <3> QED
      BY <1>1, <2>9, <3>1, <3>2 DEF HoldsGate, At, Alive, GateIs
  <2>10. CASE q = p /\ ~(Start(p) \/ Crash(p) \/ Expire(p) \/ GatePublish(p)
                         \/ Recheck(p) \/ GateCheck(p) \/ LeasePublish(p)
                         \/ LeaseRead(p) \/ LeaseJudge(p) \/ LeaseRecheck(p)
                         \/ LeaseReap(p) \/ LeaseAgain(p))
    <3>1. pc'[p] \notin CriticalPoints \cup {"gateDrop", "gateReap"}
      BY <2>10 DEF TypeOK, CallTypeOK, Begin, CallStep, TimerStep, Beat,
         Release, GateRead, GateJudge, ClaimPublish, ClaimJudge, GateReap,
         GateDrop, BeatRename, LeaseCheck, LeaseDrop, GateTimer, LeaseTimer,
         Goto, Read, Climb, Enter, Leave, PollAgain, WaitOrGiveUp, Return,
         CriticalPoints
    <3> QED
      BY <2>10, <3>1 DEF HoldsGate, At
  <2> QED
    BY <2>2, <2>3, <2>4, <2>5, <2>6, <2>7, <2>8, <2>9, <2>10
<1> QED
  BY <1>2, <1>3

(* A new token is above all that were drawn; an old one moves between the  *)
(* scans, the timers and the call of its process.                           *)
LEMMA StepHandedOnce == IInv /\ StableBoot /\ [Next]_vars => HandedOnce'
<1> SUFFICES ASSUME IInv, StableBoot, [Next]_vars PROVE HandedOnce'
  OBVIOUS
<1>1. CASE UNCHANGED vars
  BY <1>1 DEF pastVars, IInv, HandedOnce, vars, osVars, fileVars, callVars, ownVars
<1>2. CASE Next
  <2> SUFFICES ASSUME NEW p \in Proc,
                      \/ Start(p) \/ Crash(p) \/ Begin(p) \/ Expire(p)
                      \/ CallStep(p) \/ TimerStep(p) \/ Beat(p) \/ Release(p)
               PROVE  HandedOnce'
    BY <1>2 DEF Next
  <2> USE DEF IInv
  <2>1. CASE Start(p)
    BY <2>1 DEF pastVars, Start, Alive, HandedOnce, CallTokens, Issued, Owner, Token,
      TypeOK, CallTypeOK, FileTypeOK, OwnTypeOK, SetTypeOK, fileVars,
      callVars, ownVars
  <2>2. CASE Crash(p)
    BY <2>2 DEF Leave, Return, pastVars, Crash, Alive, HandedOnce, CallTokens, Issued, Owner, Token,
      TypeOK, CallTypeOK, FileTypeOK, OwnTypeOK, SetTypeOK, fileVars,
      callVars, ownVars
  <2>3. CASE Begin(p)
    BY <2>3 DEF pastVars, Begin, At, Enter, Alive, HandedOnce, CallTokens, Issued,
      Owner, Token, TypeOK, CallTypeOK, FileTypeOK, OwnTypeOK, SetTypeOK,
      fileVars, callVars, ownVars
  <2>4. CASE Expire(p)
    BY <2>4 DEF pastVars, Expire, Alive, HandedOnce, CallTokens, Issued, Owner, Token,
      TypeOK, CallTypeOK, FileTypeOK, OwnTypeOK, SetTypeOK, fileVars,
      callVars, ownVars
  <2>5. CASE GatePublish(p)
    BY <2>5 DEF pastVars, GatePublish, At, Goto, Return, Alive, Leave, HandedOnce,
      CallTokens, Issued, Owner, Token, TypeOK, CallTypeOK, FileTypeOK,
      OwnTypeOK, SetTypeOK, fileVars, callVars, ownVars
  <2>6. CASE GateRead(p)
    BY <2>6 DEF pastVars, GateRead, At, Read, Alive, HandedOnce, CallTokens, Issued,
      Owner, Token, TypeOK, CallTypeOK, FileTypeOK, OwnTypeOK, SetTypeOK,
      fileVars, callVars, ownVars
  <2>7. CASE GateJudge(p)
    BY <2>7 DEF pastVars, GateJudge, At, WaitOrGiveUp, Climb, Alive, Return,
      PollAgain, Leave, HandedOnce, CallTokens, Issued, Owner, Token, TypeOK,
      CallTypeOK, FileTypeOK, OwnTypeOK, SetTypeOK, fileVars, callVars,
      ownVars
  <2>8. CASE ClaimPublish(p)
    BY <2>8 DEF pastVars, ClaimPublish, At, Goto, Return, Alive, Leave, HandedOnce,
      CallTokens, Issued, Owner, Token, TypeOK, CallTypeOK, FileTypeOK,
      OwnTypeOK, SetTypeOK, fileVars, callVars, ownVars
  <2>9. CASE ClaimJudge(p)
    BY <2>9 DEF pastVars, ClaimJudge, At, PollAgain, Return, Climb, Alive, Leave,
      HandedOnce, CallTokens, Issued, Owner, Token, TypeOK, CallTypeOK,
      FileTypeOK, OwnTypeOK, SetTypeOK, fileVars, callVars, ownVars
  <2>10. CASE Recheck(p)
    BY <2>10 DEF pastVars, Recheck, At, Goto, PollAgain, Alive, HandedOnce,
      CallTokens, Issued, Owner, Token, TypeOK, CallTypeOK, FileTypeOK,
      OwnTypeOK, SetTypeOK, fileVars, callVars, ownVars
  <2>11. CASE GateReap(p)
    BY <2>11 DEF pastVars, GateReap, At, PollAgain, Alive, HandedOnce, CallTokens,
      Issued, Owner, Token, TypeOK, CallTypeOK, FileTypeOK, OwnTypeOK,
      SetTypeOK, fileVars, callVars, ownVars
  <2>12. CASE LeasePublish(p)
    BY <2>12 DEF pastVars, LeasePublish, At, FinishAcquire, Goto, Alive, Leave,
      HandedOnce, CallTokens, Issued, Owner, Token, TypeOK, CallTypeOK,
      FileTypeOK, OwnTypeOK, SetTypeOK, fileVars, callVars, ownVars
  <2>13. CASE LeaseRead(p)
    BY <2>13 DEF pastVars, LeaseRead, At, Read, Alive, HandedOnce, CallTokens, Issued,
      Owner, Token, TypeOK, CallTypeOK, FileTypeOK, OwnTypeOK, SetTypeOK,
      fileVars, callVars, ownVars
  <2>14. CASE LeaseJudge(p)
    BY <2>14 DEF pastVars, LeaseJudge, At, FinishAcquire, Goto, Alive, Leave,
      HandedOnce, CallTokens, Issued, Owner, Token, TypeOK, CallTypeOK,
      FileTypeOK, OwnTypeOK, SetTypeOK, fileVars, callVars, ownVars
  <2>15. CASE LeaseRecheck(p)
    BY <2>15 DEF Read, pastVars, LeaseRecheck, At, Goto, FinishAcquire, Alive, Leave,
      HandedOnce, CallTokens, Issued, Owner, Token, TypeOK, CallTypeOK,
      FileTypeOK, OwnTypeOK, SetTypeOK, fileVars, callVars, ownVars
  <2>16. CASE LeaseReap(p)
    BY <2>16 DEF pastVars, LeaseReap, At, Goto, FinishAcquire, Alive, Leave,
      HandedOnce, CallTokens, Issued, Owner, Token, TypeOK, CallTypeOK,
      FileTypeOK, OwnTypeOK, SetTypeOK, fileVars, callVars, ownVars
  <2>17. CASE LeaseAgain(p)
    BY <2>17 DEF pastVars, LeaseAgain, At, FinishAcquire, Alive, Leave, HandedOnce,
      CallTokens, Issued, Owner, Token, TypeOK, CallTypeOK, FileTypeOK,
      OwnTypeOK, SetTypeOK, fileVars, callVars, ownVars
  <2>18. CASE GateCheck(p)
    BY <2>18 DEF pastVars, GateCheck, At, Goto, Return, Alive, Leave, HandedOnce,
      CallTokens, Issued, Owner, Token, TypeOK, CallTypeOK, FileTypeOK,
      OwnTypeOK, SetTypeOK, fileVars, callVars, ownVars
  <2>19. CASE GateDrop(p)
    BY <2>19 DEF pastVars, GateDrop, At, Return, Alive, Leave, HandedOnce, CallTokens,
      Issued, Owner, Token, TypeOK, CallTypeOK, FileTypeOK, OwnTypeOK,
      SetTypeOK, fileVars, callVars, ownVars
  <2>20. CASE BeatRename(p)
    BY <2>20 DEF pastVars, BeatRename, At, Return, Alive, Leave, HandedOnce,
      CallTokens, Issued, Owner, Token, TypeOK, CallTypeOK, FileTypeOK,
      OwnTypeOK, SetTypeOK, fileVars, callVars, ownVars
  <2>21. CASE LeaseCheck(p)
    BY <2>21 DEF pastVars, LeaseCheck, At, Goto, Return, Alive, Leave, HandedOnce,
      CallTokens, Issued, Owner, Token, TypeOK, CallTypeOK, FileTypeOK,
      OwnTypeOK, SetTypeOK, fileVars, callVars, ownVars
  <2>22. CASE LeaseDrop(p)
    BY <2>22 DEF pastVars, LeaseDrop, At, Return, Alive, Leave, HandedOnce,
      CallTokens, Issued, Owner, Token, TypeOK, CallTypeOK, FileTypeOK,
      OwnTypeOK, SetTypeOK, fileVars, callVars, ownVars
  <2>23. CASE GateTimer(p)
    BY <2>23 DEF pastVars, GateTimer, At, Enter, Alive, HandedOnce, CallTokens,
      Issued, Owner, Token, TypeOK, CallTypeOK, FileTypeOK, OwnTypeOK,
      SetTypeOK, fileVars, callVars, ownVars
  <2>24. CASE LeaseTimer(p)
    BY <2>24 DEF pastVars, LeaseTimer, At, Enter, Alive, HandedOnce, CallTokens,
      Issued, Owner, Token, TypeOK, CallTypeOK, FileTypeOK, OwnTypeOK,
      SetTypeOK, fileVars, callVars, ownVars
  <2>25. CASE Beat(p)
    BY <2>25 DEF pastVars, Beat, At, Enter, Alive, HandedOnce, CallTokens, Issued,
      Owner, Token, TypeOK, CallTypeOK, FileTypeOK, OwnTypeOK, SetTypeOK,
      fileVars, callVars, ownVars
  <2>26. CASE Release(p)
    BY <2>26 DEF pastVars, Release, At, Enter, Alive, HandedOnce, CallTokens, Issued,
      Owner, Token, TypeOK, CallTypeOK, FileTypeOK, OwnTypeOK, SetTypeOK,
      fileVars, callVars, ownVars
  <2> QED
    BY <2>1, <2>2, <2>3, <2>4, <2>5, <2>6, <2>7, <2>8, <2>9, <2>10, <2>11,
      <2>12, <2>13, <2>14, <2>15, <2>16, <2>17, <2>18, <2>19, <2>20, <2>21,
      <2>22, <2>23, <2>24, <2>25, <2>26 DEF CallStep, TimerStep
<1> QED
  BY <1>1, <1>2

(* Two live processes are not in the critical section together. *)
LEMMA CriticalAlone ==
    ASSUME IInv, NEW p \in Proc, NEW q \in Proc, Alive(p), Alive(q),
           pc[p] \in CriticalPoints, pc[q] \in CriticalPoints
    PROVE  p = q
<1>1. GateIs(tok[p]) /\ GateIs(tok[q])
  BY DEF IInv, GateHeld, HoldsGate
<1>2. Owner(tok[p]) = p /\ Owner(tok[q]) = q
  BY DEF IInv, CallTokens, CriticalPoints
<1> QED
  BY <1>1, <1>2 DEF GateIs

(* What was reclaimed unread stays on the account. *)
LEMMA BlindStays ==
    ASSUME TypeOK, [Next]_vars, ~blind' PROVE ~blind
<1>1. CASE UNCHANGED vars
  BY <1>1 DEF vars, pastVars
<1>2. CASE Next
  <2> PICK p \in Proc : \/ Start(p) \/ Crash(p) \/ Begin(p) \/ Expire(p)
                        \/ CallStep(p) \/ TimerStep(p) \/ Beat(p) \/ Release(p)
    BY <1>2 DEF Next
  <2> QED
    BY DEF Start, Crash, Begin, Expire, CallStep, TimerStep, Beat, Release,
       GatePublish, GateRead, GateJudge, ClaimPublish, ClaimJudge, Recheck,
       GateReap, LeasePublish, LeaseRead, LeaseJudge, LeaseRecheck, LeaseReap,
       LeaseAgain, GateCheck, GateDrop, BeatRename, LeaseCheck, LeaseDrop,
       GateTimer, LeaseTimer, pastVars
<1> QED
  BY <1>1, <1>2

(* The owner of a record that is not alive was, once. *)
LEMMA NotAliveDead ==
    ASSUME IInv, lease \in Record, ~Alive(Owner(lease.tok))
    PROVE  Dead(Owner(lease.tok))
<1>1. Owner(lease.tok) \in Proc /\ uses[Owner(lease.tok)] # 0
  BY DEF IInv, FileTokens, Issued, Owner, Token, TypeOK, OwnTypeOK
<1> QED
  BY <1>1 DEF IInv, Unborn, Alive, Dead, TypeOK, OwnTypeOK

(* The lease changes only by a publish over no lease and a reclaim, in the  *)
(* critical section, and by its live owner's own release.                   *)
LEMMA StepLeaseKnown == IInv /\ StableBoot /\ [Next]_vars => LeaseKnown'
<1> SUFFICES ASSUME IInv, StableBoot, [Next]_vars, ~blind', NEW q \in Proc
             PROVE  KnowsLease(q)'
  BY DEF LeaseKnown
<1> USE DEF IInv
<1>b. ~blind
  BY BlindStays
<1>k. \A p \in Proc : KnowsLease(p)
  BY <1>b DEF LeaseKnown
<1>1. KnowsLease(q)
  BY <1>k
<1>2. lease \in Record => Owner(lease.tok) \in Proc
  BY DEF FileTokens, Issued, Owner, Token
<1>3. ASSUME UNCHANGED <<lease, life[q], pc[q], tok[q], seen[q], held[q]>>
      PROVE  KnowsLease(q)'
  BY <1>1, <1>2, <1>3, DeadForGood DEF KnowsLease, Alive, LeaseIs
<1>4. CASE UNCHANGED vars
  BY <1>3, <1>4 DEF pastVars, vars, fileVars, callVars, osVars, ownVars
<1>5. CASE Next
  <2> PICK p \in Proc : \/ Start(p) \/ Crash(p) \/ Begin(p) \/ Expire(p)
                        \/ CallStep(p) \/ TimerStep(p) \/ Beat(p) \/ Release(p)
    BY <1>5 DEF Next
  <2>1. CASE q # p /\ ~(LeasePublish(p) \/ LeaseAgain(p) \/ LeaseReap(p)
                        \/ LeaseDrop(p) \/ BeatRename(p))
    <3>1. UNCHANGED lease
      BY <2>1 DEF Leave, Return, pastVars, Start, Crash, Begin, Expire, CallStep, TimerStep, Beat,
         Release, GatePublish, GateReap, GateDrop, GateRead, GateJudge,
         ClaimPublish, ClaimJudge, Recheck, LeaseRead, LeaseJudge,
         LeaseRecheck, GateCheck, LeaseCheck, GateTimer, LeaseTimer, fileVars
    <3> QED
      BY <1>3, <2>1, <3>1, OthersWait
  <2>2. CASE q # p /\ BeatRename(p)
    <3>1. UNCHANGED lease
      BY <1>k, <2>2 DEF BeatRename, At, KnowsLease
    <3> QED
      BY <1>3, <2>2, <3>1, OthersWait
  <2>3. CASE q # p /\ (LeasePublish(p) \/ LeaseAgain(p) \/ LeaseReap(p)) /\ Alive(q)
    <3>1. Alive(p) /\ pc[p] \in CriticalPoints /\ pc[q] \notin CriticalPoints
      BY <2>3, CriticalAlone DEF LeasePublish, LeaseAgain, LeaseReap, At,
         CriticalPoints
    <3>2. \A t : LeaseIs(t) /\ lease' # lease =>
                   LeaseReap(p) /\ Owner(t) # q
      BY <1>k, <2>3, SentinelAssumption DEF LeasePublish, LeaseAgain,
         LeaseReap, LeaseIs, At, KnowsLease, Dead, Alive
    <3>3. (\E t \in held[q] : TRUE) \/ pc[q] \in {"leaseDrop", "beat"} => lease' = lease
      BY <1>1, <2>3, <3>2 DEF KnowsLease, CallTokens
    <3>4. CASE lease' = lease
      BY <1>3, <2>3, <3>4, OthersWait
    <3>5. CASE held[q] = {} /\ pc[q] \notin CriticalPoints \cup {"leaseDrop", "beat"}
      BY <2>3, <3>5, OthersWait DEF KnowsLease, CriticalPoints
    <3> QED
      BY <3>1, <3>3, <3>4, <3>5
  <2>4. CASE q # p /\ LeaseDrop(p) /\ Alive(q)
    <3>1. Alive(p) /\ LeaseIs(tok[p]) /\ Owner(tok[p]) = p
      BY <1>k, <2>4 DEF LeaseDrop, At, KnowsLease, CallTokens
    <3>2. held[q] = {} /\ pc[q] \notin {"leaseDrop", "beat"}
      BY <1>1, <2>4, <3>1 DEF KnowsLease, CallTokens, LeaseIs
    <3>3. pc[q] # "leaseReap"
      BY <1>1, <2>4, <3>1, SentinelAssumption DEF KnowsLease, LeaseIs, Dead,
         Alive
    <3> QED
      BY <2>4, <3>2, <3>3, OthersWait DEF KnowsLease
  <2>5. CASE q # p /\ ~Alive(q)
    BY <2>5, OthersWait DEF KnowsLease, Alive
  <2>6. CASE q = p /\ (Start(p) \/ Crash(p) \/ Expire(p))
    BY <1>1, <1>3, <2>6 DEF Leave, Return, pastVars, Start, Crash, Expire, KnowsLease, Alive, fileVars,
       callVars, osVars, ownVars, Unborn, TypeOK, OwnTypeOK
  <2> USE DEF TypeOK, CallTypeOK, OwnTypeOK
  <2>7. CASE q = p /\ (LeasePublish(p) \/ LeaseAgain(p))
    <3>1. Alive(p) /\ Alive(p)' /\ tok[p] \in Token
      BY <2>7 DEF pastVars, LeasePublish, LeaseAgain, At, Alive, osVars, SetTypeOK
    <3>2. CASE lease' = OwnRecord(p) /\ lease = None /\ FinishAcquire(p)
               /\ held' = [held EXCEPT ![p] = @ \cup {tok[p]}]
      <4>1. lease' \in Record /\ lease'.tok = tok[p]
        BY <3>1, <3>2 DEF OwnRecord, Record
      <4>2. held[p] = {}
        BY <1>1, <2>7, <3>1, <3>2, SentinelAssumption DEF KnowsLease, LeaseIs
      <4>3. held'[p] = {tok[p]}
        BY <3>2, <4>2
      <4> QED
        BY <2>7, <3>2, <4>1, <4>3 DEF KnowsLease, LeaseIs, FinishAcquire, Leave
    <3>3. CASE UNCHANGED <<lease, held>> /\ FinishAcquire(p)
      BY <1>1, <2>7, <3>1, <3>3 DEF KnowsLease, LeaseIs, FinishAcquire, Leave
    <3>4. CASE UNCHANGED <<lease, held>> /\ Goto(p, "leaseRead")
      BY <1>1, <2>7, <3>1, <3>4 DEF KnowsLease, LeaseIs, Goto
    <3> QED
      BY <2>7, <3>2, <3>3, <3>4 DEF LeasePublish, LeaseAgain
  <2>8. CASE q = p /\ LeaseReap(p)
    <3>1. Alive(p) /\ Alive(p)' /\ pc[p] = "leaseReap" /\ UNCHANGED held
      BY <2>8 DEF pastVars, LeaseReap, At, Alive, osVars, ownVars
    <3>2. held[p] = {}
      BY <1>1, <2>8, <3>1, SentinelAssumption DEF KnowsLease, LeaseIs,
         CallTokens, Dead, Alive
    <3> QED
      BY <2>8, <3>1, <3>2 DEF LeaseReap, KnowsLease, Goto, FinishAcquire, Leave
  <2>9. CASE q = p /\ LeaseDrop(p)
    <3>1. Alive(p) /\ pc[p] = "leaseDrop" /\ UNCHANGED held /\ LeaseIs(tok[p])
      BY <1>1, <2>9 DEF LeaseDrop, At, KnowsLease
    <3>2. held[p] = {}
      BY <1>1, <2>9, <3>1 DEF KnowsLease, LeaseIs, HandedOnce
    <3> QED
      BY <2>9, <3>1, <3>2 DEF LeaseDrop, KnowsLease, Return, Leave
  <2>10. CASE q = p /\ BeatRename(p)
    <3>1. UNCHANGED <<lease, held, life>>
      BY <1>k, <2>10 DEF BeatRename, At, KnowsLease, ownVars, osVars
    <3> QED
      BY <1>1, <2>10, <3>1 DEF BeatRename, KnowsLease, Return, Leave, Alive,
         LeaseIs
  <2>11. CASE q = p /\ (LeaseRead(p) \/ LeaseJudge(p))
    <3>1. UNCHANGED <<lease, held, life>> /\ pc[p] # "loop"
      BY <2>11 DEF pastVars, LeaseRead, LeaseJudge, At, fileVars, ownVars, osVars
    <3>2. CASE LeaseRead(p)
      BY <1>1, <2>11, <3>1, <3>2 DEF Readings, LeaseRead, Read, Parsed, KnowsLease,
         Alive, LeaseIs, FileTypeOK
    <3>3. CASE LeaseJudge(p)
      BY <1>1, <2>11, <3>1, <3>3 DEF LeaseJudge, At, Goto, FinishAcquire,
         Leave, KnowsLease, Alive, LeaseIs
    <3> QED
      BY <2>11, <3>2, <3>3
  <2>12. CASE q = p /\ LeaseRecheck(p)
    <3>1. UNCHANGED <<lease, held, life>> /\ pc[p] = "leaseRecheck" /\ Alive(p)
      BY <2>12 DEF LeaseRecheck, At, fileVars, ownVars, osVars
    <3>2. CASE FinishAcquire(p) \/ Goto(p, "leaseAgain")
      BY <1>1, <2>12, <3>1, <3>2 DEF FinishAcquire, Leave, Goto, KnowsLease,
         Alive, LeaseIs
    <3>3. CASE /\ Goto(p, "leaseReap") /\ seen[p] = None
               /\ blind' = (blind \/ (lease \in Record /\ Alive(Owner(lease.tok))))
      <4>1. lease \in Record => Dead(Owner(lease.tok))
        BY <3>3, NotAliveDead
      <4> QED
        BY <1>1, <2>12, <3>1, <3>3, <4>1 DEF Goto, KnowsLease, Alive, LeaseIs,
           Dead
    <3>4. ASSUME NEW now \in Readings(lease), NEW known \in BOOLEAN,
                 Read(p, "leaseReap", now), now # None,
                 CanReclaim(p, now, known)
          PROVE  KnowsLease(q)'
      <4>1. lease \in Record /\ now = lease
        BY <3>4 DEF Readings, Parsed, FileTypeOK
      <4>3. Dead(Owner(lease.tok))
        BY <3>4, <4>1, JudgedDead DEF FileTokens, Record
      <4> QED
        BY <1>1, <2>12, <3>1, <3>4, <4>1, <4>3 DEF Read, KnowsLease,
           Alive, LeaseIs, Dead
    <3> QED
      BY <2>12, <3>2, <3>3, <3>4 DEF LeaseRecheck
  <2>13. CASE q = p /\ (Release(p) \/ Beat(p))
    <3>1. UNCHANGED <<lease, life>> /\ Alive(p) /\ held'[p] \subseteq held[p]
      BY <2>13 DEF pastVars, Release, Beat, At, fileVars, osVars, ownVars
    <3>2. CASE Release(p)
      BY <1>1, <2>13, <3>1, <3>2 DEF Release, Enter, KnowsLease, Alive, LeaseIs
    <3>3. CASE Beat(p)
      <4>1. lease \in Record
        BY <3>3 DEF Beat, Parsed, FileTypeOK
      <4> QED
        BY <1>1, <2>13, <3>1, <3>3, <4>1 DEF Beat, Enter, KnowsLease, Alive,
           LeaseIs
    <3> QED
      BY <2>13, <3>2, <3>3
  <2>14. CASE q = p /\ LeaseCheck(p)
    <3>1. \A now \in Readings(lease) :
             now = None \/ (lease \in Record /\ now = lease)
      BY DEF Readings, Parsed, FileTypeOK
    <3> QED
      BY <1>1, <2>14, <3>1 DEF pastVars, LeaseCheck, Goto, Return, Leave, KnowsLease,
         Alive, LeaseIs, fileVars, ownVars, osVars, At
  <2>15. CASE q = p /\ (Begin(p) \/ GatePublish(p) \/ GateRead(p)
                        \/ GateJudge(p) \/ ClaimPublish(p) \/ ClaimJudge(p)
                        \/ Recheck(p) \/ GateReap(p) \/ GateCheck(p)
                        \/ GateDrop(p) \/ TimerStep(p))
    <3>1. UNCHANGED <<lease, held, life>>
      BY <2>15 DEF pastVars, Begin, GatePublish, GateRead, GateJudge, ClaimPublish,
         ClaimJudge, Recheck, GateReap, GateCheck, GateDrop, TimerStep,
         GateTimer, LeaseTimer, fileVars, ownVars, osVars
    <3>2. pc'[p] \notin {"leaseDrop", "beat", "leaseJudge", "leaseRecheck", "leaseReap"}
      BY <2>15 DEF Begin, GatePublish, GateRead, GateJudge, ClaimPublish,
         ClaimJudge, Recheck, GateReap, GateCheck, GateDrop, TimerStep,
         GateTimer, LeaseTimer, Goto, Read, Climb, Enter, Leave, PollAgain,
         WaitOrGiveUp, Return
    <3> QED
      BY <1>1, <2>15, <3>1, <3>2 DEF KnowsLease, Alive, LeaseIs
  <2> QED
    BY <2>1, <2>2, <2>3, <2>4, <2>5, <2>6, <2>7, <2>8, <2>9, <2>10, <2>11,
       <2>12, <2>13, <2>14, <2>15 DEF CallStep
<1> QED
  BY <1>4, <1>5

-----------------------------------------------------------------------------
(* The initial states satisfy the inductive invariant, *)
LEMMA InitInv == Init => IInv
<1> SUFFICES ASSUME Init PROVE IInv
  OBVIOUS
<1>1. TypeOK
  BY InitTypeOK
<1>2. PidUnique /\ Unborn
  BY DEF Init, PidUnique, Unborn, Alive
<1>3. FileTokens /\ CallTokens /\ Chain
  BY SentinelAssumption DEF Init, FileTokens, CallTokens, Chain
<1>4. Walking /\ GateHeld /\ LeaseKnown /\ HandedOnce
  BY DEF Init, Walking, Walks, GateHeld, HoldsGate, LeaseKnown, KnowsLease,
         HandedOnce, At, Alive, CriticalPoints
<1> QED
  BY <1>1, <1>2, <1>3, <1>4 DEF IInv

(* and every step keeps it, part by part as proved above. *)
LEMMA StepInv == IInv /\ StableBoot /\ [Next]_vars => IInv'
  BY StepTypeOK, StepPidUnique, StepUnborn, StepFileTokens, StepCallTokens,
     StepChain, StepWalking, StepGateHeld, StepLeaseKnown, StepHandedOnce
     DEF IInv

(* Every variable keeps its type, whatever the boot identities. *)
THEOREM TypeCorrect == Spec => []TypeOK
<1>1. Init => TypeOK
  BY InitTypeOK
<1>2. TypeOK /\ [Next]_vars => TypeOK'
  BY StepTypeOK
<1> QED
  BY <1>1, <1>2, PTL DEF Spec

(* So it holds in every behaviour with one boot identity. *)
LEMMA Inductive == ASSUME StableBoot PROVE Spec => []IInv
<1>1. Init => IInv
  BY InitInv
<1>2. IInv /\ [Next]_vars => IInv'
  BY StepInv
<1> QED
  BY <1>1, <1>2, PTL DEF Spec

(* A running scan's own record stays at the lease's path: no reclaim of a   *)
(* record that was read, no other owner's heartbeat and no late release     *)
(* removes it.                                                              *)
THEOREM LeaseStays == ASSUME StableBoot PROVE Spec => []WriterOnDisk
<1>1. IInv => WriterOnDisk
  BY DEF IInv, LeaseKnown, KnowsLease, WriterOnDisk
<1> QED
  BY <1>1, Inductive, PTL

(* At most one scan runs under the lease, in all live processes together,   *)
(* until a live owner's lease is reclaimed unread.                          *)
THEOREM MutualExclusion == ASSUME StableBoot PROVE Spec => []OneWriter
<1>1. IInv => OneWriter
  BY DEF IInv, LeaseKnown, KnowsLease, LeaseIs, OneWriter
<1> QED
  BY <1>1, Inductive, PTL

(* At most one live process is in the reclaim-and-publish section.          *)
THEOREM GateExclusion == ASSUME StableBoot PROVE Spec => []OneInGate
<1>1. IInv => OneInGate
  BY CriticalAlone DEF OneInGate
<1> QED
  BY <1>1, Inductive, PTL

(* A process unlinks the file it checked, never a successor's; the gate in  *)
(* any case, the lease until a live owner's is reclaimed unread.            *)
THEOREM UnlinksAreSafe == ASSUME StableBoot PROVE Spec => []UnlinksWhatItChecked
<1>1. IInv => UnlinksWhatItChecked
  <2> SUFFICES ASSUME IInv, NEW p \in Proc
               PROVE  /\ At(p, "gateReap")  => GateIs(seen[p].tok)
                      /\ At(p, "gateDrop")  => GateIs(tok[p])
                      /\ At(p, "leaseDrop") /\ ~blind => LeaseIs(tok[p])
                      /\ At(p, "leaseReap") /\ ~blind =>
                           IF seen[p] # None THEN LeaseIs(seen[p].tok)
                           ELSE lease \in Record => ~Alive(Owner(lease.tok))
    BY DEF UnlinksWhatItChecked
  <2>1. HoldsGate(p) /\ (~blind => KnowsLease(p))
    BY DEF IInv, GateHeld, LeaseKnown
  <2>2. ASSUME NEW q, Dead(q) PROVE ~Alive(q)
    BY <2>2 DEF Dead, Alive
  <2> QED
    BY <2>1, <2>2 DEF HoldsGate, KnowsLease, At
<1> QED
  BY <1>1, Inductive, PTL

(* A live owner's record leaves the lease's path only in its own release,   *)
(* or when, or after, a live owner's lease was reclaimed unread.            *)
THEOREM LiveOwnerNotFenced == ASSUME StableBoot PROVE Spec => NoFencing
<1> DEFINE Kept ==
      \A p \in Proc :
         /\ Alive(p) /\ lease \in Record /\ Owner(lease.tok) = p
         /\ lease' # lease
         => blind \/ (pc[p] = "leaseDrop" /\ tok[p] = lease.tok)
<1>1. IInv /\ [Next]_vars => [Kept]_vars
  <2> SUFFICES ASSUME IInv, Next, NEW q \in Proc, Alive(q), lease \in Record,
                      Owner(lease.tok) = q, lease' # lease, ~blind
               PROVE  pc[q] = "leaseDrop" /\ tok[q] = lease.tok
    OBVIOUS
  <2> USE DEF IInv
  <2>k. \A p \in Proc : KnowsLease(p)
    BY DEF LeaseKnown
  <2> PICK p \in Proc : \/ Start(p) \/ Crash(p) \/ Begin(p) \/ Expire(p)
                        \/ CallStep(p) \/ TimerStep(p) \/ Beat(p) \/ Release(p)
    BY DEF Next
  <2>1. LeasePublish(p) \/ LeaseAgain(p) \/ LeaseReap(p) \/ LeaseDrop(p)
          \/ BeatRename(p)
    BY DEF Leave, Return, pastVars, Start, Crash, Begin, Expire, CallStep, TimerStep, Beat, Release,
           GatePublish, GateReap, GateDrop, GateRead, GateJudge, ClaimPublish,
           ClaimJudge, Recheck, LeaseRead, LeaseJudge, LeaseRecheck,
           GateCheck, LeaseCheck, GateTimer, LeaseTimer, fileVars
  <2>2. ~(LeasePublish(p) \/ LeaseAgain(p))
    BY SentinelAssumption DEF LeasePublish, LeaseAgain
  <2>3. ~BeatRename(p)
    BY <2>k DEF BeatRename, At, KnowsLease
  <2>4. ~LeaseReap(p)
    BY <2>k, SentinelAssumption DEF LeaseReap, At, KnowsLease, LeaseIs,
       Dead, Alive
  <2>5. CASE LeaseDrop(p)
    BY <2>k, <2>5 DEF LeaseDrop, At, KnowsLease, LeaseIs, CallTokens
  <2> QED
    BY <2>1, <2>2, <2>3, <2>4, <2>5
<1>2. Spec => []IInv
  BY Inductive
<1> QED
  BY <1>1, <1>2, PTL DEF Spec, NoFencing

-----------------------------------------------------------------------------
(* The lease implements the abstract lock: a grant is Acquire, the call of  *)
(* release() is Release, a crash is Crash, and every other step stutters.   *)
LEMMA LockInit == Init => Lock!Init
  BY DEF Init, Lock!Init, Alive

(* Every step of the code is a step of the abstract lock, or stutters. *)
LEMMA LockStep == IInv /\ StableBoot /\ [Next]_vars => [Lock!Next]_Lock!vars
<1> SUFFICES ASSUME IInv, StableBoot, [Next]_vars
             PROVE  [Lock!Next]_Lock!vars
  OBVIOUS
<1> DEFINE up == {p \in Proc : Alive(p)}
           writers == {p \in Proc : Alive(p) /\ held[p] # {} /\ ~blind}
<1> USE DEF IInv
<1>1. ASSUME UNCHANGED <<life, held, blind>> PROVE UNCHANGED Lock!vars
  BY <1>1 DEF Lock!vars, Alive
<1>k. ~blind => \A p \in Proc : KnowsLease(p)
  BY DEF LeaseKnown
<1>2. CASE UNCHANGED vars
  BY <1>1, <1>2 DEF vars, osVars, ownVars, pastVars
<1>3. CASE Next
  <2> PICK p \in Proc : \/ Start(p) \/ Crash(p) \/ Begin(p) \/ Expire(p)
                        \/ CallStep(p) \/ TimerStep(p) \/ Beat(p) \/ Release(p)
    BY <1>3 DEF Next
  <2>1. CASE Start(p)
    <3>1. p \notin up /\ up' = up \cup {p}
      BY <2>1 DEF Start, Alive, TypeOK, OwnTypeOK
    <3>2. writers' = writers
      BY <2>1 DEF Start, Alive, Unborn, TypeOK, OwnTypeOK, ownVars, pastVars
    <3> QED
      BY <3>1, <3>2 DEF Lock!Next, Lock!Start
  <2>2. CASE Crash(p)
    <3>1. p \in up /\ up' = up \ {p}
      BY <2>2 DEF Crash, Alive, TypeOK, OwnTypeOK
    <3>2. writers' = writers \ {p}
      BY <2>2 DEF Crash, Alive, TypeOK, OwnTypeOK
    <3> QED
      BY <3>1, <3>2 DEF Lock!Next, Lock!Crash
  <2>3. CASE LeasePublish(p) \/ LeaseAgain(p)
    <3>1. Alive(p) /\ UNCHANGED <<life, blind>>
      BY <2>3 DEF LeasePublish, LeaseAgain, At, osVars, pastVars
    <3>2. CASE UNCHANGED held
      BY <1>1, <3>1, <3>2
    <3>3. CASE blind
      <4>1. UNCHANGED <<up, writers>>
        BY <3>1, <3>3 DEF Alive
      <4> QED
        BY <4>1 DEF Lock!vars
    <3>4. CASE ~blind /\ lease = None /\ held' = [held EXCEPT ![p] = @ \cup {tok[p]}]
      <4>1. \A q \in Proc : Alive(q) => held[q] = {}
        BY <1>k, <3>4, SentinelAssumption DEF KnowsLease, LeaseIs
      <4>2. p \in up /\ up' = up /\ writers = {} /\ writers' = {p}
        BY <3>1, <3>4, <4>1 DEF Alive, TypeOK, OwnTypeOK
      <4> QED
        BY <4>2 DEF Lock!Next, Lock!Acquire
    <3> QED
      BY <2>3, <3>2, <3>3, <3>4 DEF LeasePublish, LeaseAgain
  <2>4. CASE Release(p)
    <3>1. PICK t \in held[p] : held' = [held EXCEPT ![p] = @ \ {t}]
      BY <2>4 DEF Release
    <3>2. Alive(p) /\ UNCHANGED <<life, blind>>
      BY <2>4 DEF Release, At, osVars, pastVars
    <3>3. CASE blind
      <4>1. UNCHANGED <<up, writers>>
        BY <3>2, <3>3 DEF Alive
      <4> QED
        BY <4>1 DEF Lock!vars
    <3>4. CASE ~blind
      <4>1. held[p] = {t} /\ \A q \in Proc : Alive(q) /\ q # p => held[q] = {}
        BY <1>k, <3>1, <3>2, <3>4 DEF KnowsLease, LeaseIs, CallTokens
      <4>2. up' = up /\ writers = {p} /\ writers' = {}
        BY <3>1, <3>2, <3>4, <4>1 DEF Alive, TypeOK, OwnTypeOK
      <4> QED
        BY <4>2 DEF Lock!Next, Lock!Release
    <3> QED
      BY <3>3, <3>4
  <2>5. CASE LeaseRecheck(p)
    <3>1. UNCHANGED <<life, held>> /\ (blind' = blind \/ blind')
      <4> DEFINE alive == lease \in Record /\ Alive(Owner(lease.tok))
      <4>1. UNCHANGED <<life, held>>
        BY <2>5 DEF LeaseRecheck, osVars, ownVars
      <4>2. blind' = blind \/ blind' = (blind \/ alive)
        BY <2>5, Zenon DEF LeaseRecheck
      <4>3. blind \in BOOLEAN /\ alive \in BOOLEAN
        BY DEF TypeOK, OwnTypeOK
      <4> QED
        BY <4>1, <4>2, <4>3
    <3>2. CASE blind' = blind
      BY <1>1, <3>1, <3>2
    <3>3. CASE blind' /\ writers = {}
      <4>1. UNCHANGED <<up, writers>>
        BY <3>1, <3>3 DEF Alive
      <4> QED
        BY <4>1 DEF Lock!vars
    <3>4. CASE blind' /\ writers # {}
      <4>1. PICK w \in Proc : Alive(w) /\ held[w] # {} /\ ~blind
        BY <3>4
      <4>2. writers = {w}
        BY <1>k, <4>1 DEF KnowsLease, LeaseIs, CallTokens
      <4>3. up' = up /\ writers' = {}
        BY <3>1, <3>4 DEF Alive
      <4> QED
        BY <4>1, <4>2, <4>3 DEF Lock!Next, Lock!Release
    <3> QED
      BY <3>1, <3>2, <3>3, <3>4
  <2>6. CASE ~(Start(p) \/ Crash(p) \/ LeasePublish(p) \/ LeaseAgain(p)
               \/ Release(p) \/ LeaseRecheck(p))
    <3>1. UNCHANGED <<life, held, blind>>
      BY <2>6 DEF Begin, Expire, CallStep, TimerStep, Beat, GatePublish,
         GateReap, GateDrop, GateRead, GateJudge, ClaimPublish, ClaimJudge,
         Recheck, LeaseRead, LeaseJudge, LeaseReap, GateCheck,
         BeatRename, LeaseCheck, LeaseDrop, GateTimer, LeaseTimer,
         osVars, ownVars, pastVars
    <3> QED
      BY <1>1, <3>1
  <2> QED
    BY <2>1, <2>2, <2>3, <2>4, <2>5, <2>6
<1> QED
  BY <1>2, <1>3

(* So the lease of scan-lock.ts implements WriterLock. *)
THEOREM LeaseImplementsLock == ASSUME StableBoot PROVE Spec => ImplementsLock
<1>1. Init => Lock!Init
  BY LockInit
<1>2. IInv /\ [Next]_vars => [Lock!Next]_Lock!vars
  BY LockStep
<1>3. Spec => []IInv
  BY Inductive
<1> QED
  BY <1>1, <1>2, <1>3, PTL DEF Spec, ImplementsLock, Lock!Spec

-----------------------------------------------------------------------------
(* A live process's file is in the hands of a scan, of a timer, or of the   *)
(* call that will give it back: not of one that only looks at it.           *)
GateCall == CriticalPoints \cup {"gateCheck", "gateDrop"}
LeaseCall == {"leaseCheck", "leaseDrop"}
GateAccounted(p) ==
    Alive(p) /\ gate \in Record /\ Owner(gate.tok) = p =>
        \/ gate.tok \in gateRetry[p] \cup gateLeft
        \/ tok[p] = gate.tok /\ pc[p] \in GateCall
LeaseAccounted(p) ==
    Alive(p) /\ lease \in Record /\ Owner(lease.tok) = p =>
        \/ lease.tok \in held[p] \cup leaseRetry[p] \cup leaseLeft
        \/ tok[p] = lease.tok /\ pc[p] \in LeaseCall
BeatsOwn(p) ==
    pc[p] = "beat" => /\ seen[p] # None /\ seen[p].tok = tok[p]
                      /\ tok[p] \in held[p] \cup leaseRetry[p]
Accounted == \A p \in Proc : GateAccounted(p) /\ LeaseAccounted(p) /\ BeatsOwn(p)

Step(p) == \/ Start(p) \/ Crash(p) \/ Begin(p) \/ Expire(p)
           \/ CallStep(p) \/ TimerStep(p) \/ Beat(p) \/ Release(p)

(* Who is not born has no file. *)
LEMMA NoFileYet ==
    ASSUME IInv, NEW p \in Proc, life[p] = "unborn"
    PROVE  /\ ~(gate \in Record /\ Owner(gate.tok) = p)
           /\ ~(lease \in Record /\ Owner(lease.tok) = p)
<1>1. ASSUME NEW t, Issued(t) PROVE Owner(t) # p
  <2>1. t[2] \in Nat /\ 1 <= t[2] /\ t[2] <= uses[Owner(t)]
    BY <1>1 DEF Issued, Token
  <2>2. uses[p] = 0
    BY DEF IInv, Unborn
  <2> QED
    BY <2>1, <2>2
<1> QED
  BY <1>1 DEF IInv, FileTokens

(* A file left for another's stays noted while its owner lives. *)
LEMMA LeftStays ==
    ASSUME NEW q \in Proc, NEW p \in Proc, Step(p), ~(p = q /\ Crash(p))
    PROVE  \A t : Owner(t) = q =>
             /\ t \in gateLeft => t \in gateLeft'
             /\ t \in leaseLeft => t \in leaseLeft'
<1>1. CASE Crash(p)
  BY <1>1 DEF Crash
<1>2. CASE GateCheck(p)
  BY <1>2 DEF GateCheck
<1>3. CASE LeaseCheck(p)
  BY <1>3 DEF LeaseCheck
<1>4. CASE ~(Crash(p) \/ GateCheck(p) \/ LeaseCheck(p))
  <2>1. UNCHANGED <<gateLeft, leaseLeft>>
    BY <1>4
       DEF pastVars, Step, Start, Begin, Expire, CallStep, TimerStep, Beat, Release,
           GatePublish, GateRead, GateJudge, ClaimPublish, ClaimJudge, Recheck, GateReap,
           LeasePublish, LeaseRead, LeaseJudge, LeaseRecheck, LeaseReap, LeaseAgain,
           GateDrop, BeatRename, LeaseDrop, GateTimer, LeaseTimer
  <2> QED
    BY <2>1
<1> QED
  BY <1>1, <1>2, <1>3, <1>4

LEMMA StepBeatsOwn ==
    ASSUME IInv, NEW q \in Proc, BeatsOwn(q), NEW p \in Proc, Step(p)
    PROVE  BeatsOwn(q)'
<1> USE DEF IInv
<1>t. /\ pc \in [Proc -> Points] /\ tok \in [Proc -> Token \cup {None}]
      /\ seen \in [Proc -> Record \cup {None}]
  BY DEF TypeOK, CallTypeOK
<1>1. CASE q # p
  <2>1. /\ pc'[q] = pc[q] /\ tok'[q] = tok[q] /\ seen'[q] = seen[q]
        /\ held'[q] = held[q] /\ leaseRetry'[q] = leaseRetry[q]
    BY <1>1, OthersWait DEF Step
  <2> QED
    BY <2>1 DEF BeatsOwn
<1>2. CASE q = p
  <2>1. CASE Beat(p)
    <3>1. PICK t \in held[p] \cup leaseRetry[p] :
            /\ Parsed(lease) # None /\ lease.tok = t
            /\ Enter(p, "beat", t, Unknown, lease)
      BY <2>1 DEF Beat
    <3>2. UNCHANGED <<held, leaseRetry>>
      BY <2>1 DEF Beat, ownVars
    <3>3. tok'[p] = t /\ seen'[p] = lease
      BY <1>t, <3>1 DEF Enter
    <3>4. lease # None
      BY <3>1, SentinelAssumption DEF Parsed
    <3> QED
      BY <1>2, <3>1, <3>2, <3>3, <3>4 DEF BeatsOwn
  <2>2. CASE Start(p) \/ Expire(p)
    <3>1. pc[p] # "beat" /\ pc' = pc
      BY <2>2 DEF Start, Expire, Unborn, callVars
    <3> QED
      BY <1>2, <3>1 DEF BeatsOwn
  <2>3. CASE ~(Beat(p) \/ Start(p) \/ Expire(p))
    <3>1. pc'[p] # "beat"
      BY <1>t, <2>3
         DEF Step, Crash, Begin, CallStep, TimerStep, Release, GatePublish, GateRead,
           GateJudge, ClaimPublish, ClaimJudge, Recheck, GateReap, LeasePublish,
           LeaseRead, LeaseJudge, LeaseRecheck, LeaseReap, LeaseAgain, GateCheck,
           GateDrop, BeatRename, LeaseCheck, LeaseDrop, GateTimer, LeaseTimer,
           Goto, Read, Climb, Enter, Leave, Return, PollAgain, WaitOrGiveUp, FinishAcquire
    <3> QED
      BY <1>2, <3>1 DEF BeatsOwn
  <2> QED
    BY <2>1, <2>2, <2>3
<1> QED
  BY <1>1, <1>2

LEMMA StepGateAccounted ==
    ASSUME IInv, NEW q \in Proc, GateAccounted(q), NEW p \in Proc, Step(p)
    PROVE  GateAccounted(q)'
<1> USE DEF IInv
<1>t. pc \in [Proc -> Points] /\ tok \in [Proc -> Token \cup {None}]
      /\ gateRetry \in [Proc -> SUBSET Token] /\ life \in [Proc -> {"unborn", "alive", "dead"}]
  BY DEF TypeOK, CallTypeOK, OwnTypeOK
<1>l. ~(p = q /\ Crash(p)) =>
        \A t : Owner(t) = q /\ t \in gateLeft => t \in gateLeft'
  BY LeftStays
<1>1. ASSUME UNCHANGED gate, gateRetry'[q] = gateRetry[q], Alive(q)' => Alive(q),
             ~(p = q /\ Crash(p)),
             pc[q] \in GateCall => pc'[q] \in GateCall /\ tok'[q] = tok[q]
      PROVE  GateAccounted(q)'
  BY <1>l, <1>1 DEF GateAccounted
<1>2. CASE q # p
  <2>1. /\ pc'[q] = pc[q] /\ tok'[q] = tok[q] /\ life'[q] = life[q]
    BY <1>2, OthersWait DEF Step
  <2>2. gateRetry'[q] = gateRetry[q]
    BY <1>t, <1>2
       DEF Leave, Return, pastVars, ownVars, Step, Start, Crash, Begin, Expire, CallStep, TimerStep, Beat, Release,
           GatePublish, GateRead, GateJudge, ClaimPublish, ClaimJudge, Recheck, GateReap,
           LeasePublish, LeaseRead, LeaseJudge, LeaseRecheck, LeaseReap, LeaseAgain, GateCheck,
           GateDrop, BeatRename, LeaseCheck, LeaseDrop, GateTimer, LeaseTimer
  <2>3. \/ UNCHANGED gate
        \/ GatePublish(p) /\ gate' = OwnRecord(p)
        \/ gate' = None
    BY
       DEF Leave, Return, pastVars, fileVars, Step, Start, Crash, Begin, Expire, CallStep, TimerStep, Beat, Release,
           GatePublish, GateRead, GateJudge, ClaimPublish, ClaimJudge, Recheck, GateReap,
           LeasePublish, LeaseRead, LeaseJudge, LeaseRecheck, LeaseReap, LeaseAgain, GateCheck,
           GateDrop, BeatRename, LeaseCheck, LeaseDrop, GateTimer, LeaseTimer
  <2>4. GatePublish(p) => Owner(tok[p]) = p
    BY DEF GatePublish, At, CallTokens
  <2> QED
    BY <1>1, <1>2, <2>1, <2>2, <2>3, <2>4, SentinelAssumption
       DEF GateAccounted, OwnRecord, Alive
<1>3. CASE q = p
  <2>1. CASE Start(p)
    BY <1>3, <2>1, NoFileYet DEF pastVars, Start, fileVars, GateAccounted
  <2>2. CASE Crash(p)
    <3>1. ~Alive(p)'
      BY <1>t, <2>2 DEF Crash, Alive
    <3> QED
      BY <1>3, <3>1 DEF GateAccounted
  <2>a. CASE Expire(p)
    <3>1. /\ UNCHANGED <<gate, gateRetry, life, pc, tok>> /\ gateLeft' = gateLeft
      BY <2>a DEF pastVars, Expire, fileVars, ownVars, osVars
    <3> QED
      BY <1>3, <3>1 DEF GateAccounted, Alive
  <2>3. CASE Begin(p) \/ Beat(p) \/ Release(p) \/ LeaseTimer(p)
    <3>1. /\ UNCHANGED <<gate, gateRetry, life>> /\ gateLeft' = gateLeft
          /\ pc[p] = "loop"
      BY <2>3 DEF pastVars, Begin, Beat, Release, LeaseTimer, At, fileVars, ownVars, osVars
    <3> QED
      BY <1>3, <3>1 DEF GateAccounted, GateCall, CriticalPoints, Alive
  <2>4. CASE GatePublish(p)
    <3>1. /\ pc[p] = "gate" /\ UNCHANGED <<gateRetry, life, gateLeft>>
          /\ gate' = gate \/ (gate' = OwnRecord(p) /\ Goto(p, "lease"))
      BY <2>4 DEF pastVars, GatePublish, At, osVars, ownVars
    <3>2. CASE gate' = gate
      BY <1>3, <3>1, <3>2 DEF GateAccounted, GateCall, CriticalPoints, Alive
    <3>3. CASE gate' = OwnRecord(p) /\ Goto(p, "lease")
      BY <1>t, <1>3, <3>3 DEF Goto, OwnRecord, GateAccounted, GateCall, CriticalPoints
    <3> QED
      BY <3>1, <3>2, <3>3
  <2>5. CASE \/ GateRead(p) \/ GateJudge(p) \/ ClaimPublish(p) \/ ClaimJudge(p)
             \/ Recheck(p) \/ BeatRename(p) \/ LeaseCheck(p) \/ LeaseDrop(p)
    <3>1. pc[p] \notin GateCall /\ UNCHANGED <<gate, gateRetry, life, gateLeft>>
      BY <2>5 DEF pastVars, GateRead, GateJudge, ClaimPublish, ClaimJudge, Recheck, BeatRename,
         LeaseCheck, LeaseDrop, At, GateCall, CriticalPoints, fileVars, ownVars, osVars
    <3> QED
      BY <1>3, <3>1 DEF GateAccounted, Alive
  <2>6. CASE GateReap(p)
    <3>1. /\ pc[p] = "gateReap" /\ UNCHANGED <<gateRetry, life, gateLeft>>
          /\ gate' = gate \/ gate' = None
      BY <2>6 DEF pastVars, GateReap, At, ownVars, osVars
    <3> QED
      BY <1>1, <1>3, <3>1, SentinelAssumption DEF GateAccounted, GateCall, CriticalPoints, Alive
  <2>7. CASE \/ LeasePublish(p) \/ LeaseRead(p) \/ LeaseJudge(p) \/ LeaseRecheck(p)
             \/ LeaseReap(p) \/ LeaseAgain(p)
    <3>1. UNCHANGED <<gate, gateRetry, life, gateLeft>>
      BY <2>7 DEF pastVars, LeasePublish, LeaseRead, LeaseJudge, LeaseRecheck, LeaseReap,
         LeaseAgain, fileVars, ownVars, osVars
    <3>2. tok'[p] = tok[p] /\ pc'[p] \in GateCall
      BY <1>t, <2>7 DEF LeasePublish, LeaseRead, LeaseJudge, LeaseRecheck, LeaseReap,
         LeaseAgain, Goto, Read, FinishAcquire, Leave, GateCall, CriticalPoints
    <3> QED
      BY <1>3, <3>1, <3>2 DEF GateAccounted, Alive
  <2>8. CASE GateCheck(p)
    <3>1. pc[p] = "gateCheck" /\ Alive(p) /\ UNCHANGED <<gate, gateRetry, life>>
      BY <2>8 DEF pastVars, GateCheck, At, fileVars, ownVars, osVars
    <3>2. CASE Goto(p, "gateDrop") /\ UNCHANGED gateLeft
      <4>1. pc'[p] = "gateDrop" /\ tok'[p] = tok[p]
        BY <1>t, <3>2 DEF Goto
      <4> QED
        BY <1>3, <3>1, <3>2, <4>1 DEF GateAccounted, GateCall, Alive
    <3>3. CASE gateLeft' = IF GateIs(tok[p]) THEN gateLeft \cup {tok[p]} ELSE gateLeft
      BY <1>3, <3>1, <3>3 DEF GateAccounted, GateIs, Alive
    <3> QED
      BY <2>8, <3>2, <3>3 DEF GateCheck
  <2>9. CASE GateDrop(p)
    <3>1. Alive(p) /\ GateIs(tok[p]) /\ UNCHANGED <<life, gateLeft>>
      BY <1>3, <2>9 DEF pastVars, GateDrop, At, GateHeld, HoldsGate, osVars
    <3>2. gate' = None \/ (gate' = gate /\ tok[p] \in gateRetry'[p])
      BY <1>t, <2>9 DEF GateDrop
    <3> QED
      BY <1>3, <3>1, <3>2, SentinelAssumption DEF GateAccounted, GateIs
  <2>10. CASE GateTimer(p)
    <3>1. UNCHANGED <<gate, life, gateLeft>> /\ pc[p] = "loop"
      BY <2>10 DEF pastVars, GateTimer, At, fileVars, osVars
    <3>2. PICK t \in gateRetry[p] :
            /\ gateRetry' = [gateRetry EXCEPT ![p] = @ \ {t}]
            /\ Enter(p, "gateCheck", t, Unknown, None)
      BY <2>10 DEF GateTimer
    <3>3. /\ gateRetry'[p] = gateRetry[p] \ {t} /\ tok'[p] = t /\ pc'[p] = "gateCheck"
      BY <1>t, <3>2 DEF Enter
    <3> QED
      BY <1>3, <3>1, <3>3 DEF GateAccounted, GateCall, CriticalPoints, Alive
  <2> QED
    BY <2>1, <2>2, <2>a, <2>3, <2>4, <2>5, <2>6, <2>7, <2>8, <2>9, <2>10
       DEF Step, CallStep, TimerStep
<1> QED
  BY <1>2, <1>3

LEMMA StepLeaseAccounted ==
    ASSUME IInv, NEW q \in Proc, LeaseAccounted(q), NEW p \in Proc, BeatsOwn(p),
           Step(p)
    PROVE  LeaseAccounted(q)'
<1> USE DEF IInv
<1>t. /\ pc \in [Proc -> Points] /\ tok \in [Proc -> Token \cup {None}]
      /\ held \in [Proc -> SUBSET Token] /\ leaseRetry \in [Proc -> SUBSET Token]
      /\ life \in [Proc -> {"unborn", "alive", "dead"}]
  BY DEF TypeOK, CallTypeOK, OwnTypeOK
<1>l. ~(p = q /\ Crash(p)) =>
        \A t : Owner(t) = q /\ t \in leaseLeft => t \in leaseLeft'
  BY LeftStays
<1>1. ASSUME UNCHANGED lease, held'[q] = held[q], leaseRetry'[q] = leaseRetry[q],
             Alive(q)' => Alive(q), ~(p = q /\ Crash(p)),
             pc[q] \in LeaseCall => pc'[q] \in LeaseCall /\ tok'[q] = tok[q]
      PROVE  LeaseAccounted(q)'
  BY <1>l, <1>1 DEF LeaseAccounted
<1>2. BeatRename(p) =>
        \/ UNCHANGED lease
        \/ /\ lease' = seen[p] /\ Owner(lease'.tok) = p
           /\ lease'.tok \in held[p] \cup leaseRetry[p]
  BY DEF BeatRename, At, BeatsOwn, CallTokens
<1>3. CASE q # p
  <2>1. /\ pc'[q] = pc[q] /\ tok'[q] = tok[q] /\ life'[q] = life[q]
        /\ held'[q] = held[q] /\ leaseRetry'[q] = leaseRetry[q]
    BY <1>3, OthersWait DEF Step
  <2>2. \/ UNCHANGED lease
        \/ (LeasePublish(p) \/ LeaseAgain(p)) /\ lease' = OwnRecord(p)
        \/ Owner(lease'.tok) = p
        \/ lease' = None
    BY <1>2
       DEF Leave, Return, pastVars, fileVars, Step, Start, Crash, Begin, Expire, CallStep, TimerStep, Beat, Release,
           GatePublish, GateRead, GateJudge, ClaimPublish, ClaimJudge, Recheck, GateReap,
           LeasePublish, LeaseRead, LeaseJudge, LeaseRecheck, LeaseReap, LeaseAgain, GateCheck,
           GateDrop, LeaseCheck, LeaseDrop, GateTimer, LeaseTimer
  <2>3. LeasePublish(p) \/ LeaseAgain(p) => Owner(tok[p]) = p
    BY DEF LeasePublish, LeaseAgain, At, CallTokens
  <2> QED
    BY <1>1, <1>3, <2>1, <2>2, <2>3, SentinelAssumption
       DEF LeaseAccounted, OwnRecord, Alive
<1>4. CASE q = p
  <2>1. CASE Start(p)
    BY <1>4, <2>1, NoFileYet DEF pastVars, Start, fileVars, LeaseAccounted
  <2>2. CASE Crash(p)
    <3>1. ~Alive(p)'
      BY <1>t, <2>2 DEF Crash, Alive
    <3> QED
      BY <1>4, <3>1 DEF LeaseAccounted
  <2>a. CASE Expire(p)
    <3>1. UNCHANGED <<lease, held, leaseRetry, life, pc, tok, leaseLeft>>
      BY <2>a DEF pastVars, Expire, fileVars, ownVars, osVars
    <3> QED
      BY <1>4, <3>1 DEF LeaseAccounted, Alive
  <2>3. CASE Begin(p) \/ Beat(p) \/ GateTimer(p)
    <3>1. UNCHANGED <<lease, held, leaseRetry, life, leaseLeft>> /\ pc[p] = "loop"
      BY <2>3 DEF pastVars, Begin, Beat, GateTimer, At, fileVars, ownVars, osVars
    <3> QED
      BY <1>4, <3>1 DEF LeaseAccounted, LeaseCall, Alive
  <2>4. CASE \/ GatePublish(p) \/ GateRead(p) \/ GateJudge(p) \/ ClaimPublish(p)
             \/ ClaimJudge(p) \/ Recheck(p) \/ GateReap(p) \/ LeaseRead(p)
             \/ LeaseJudge(p) \/ LeaseRecheck(p) \/ GateCheck(p) \/ GateDrop(p)
    <3>1. pc[p] \notin LeaseCall
      BY <2>4 DEF GatePublish, GateRead, GateJudge, ClaimPublish, ClaimJudge, Recheck,
         GateReap, LeaseRead, LeaseJudge, LeaseRecheck, GateCheck, GateDrop,
         At, LeaseCall
    <3>2. UNCHANGED <<lease, held, leaseRetry, life, leaseLeft>>
      BY <2>4 DEF pastVars, GatePublish, GateRead, GateJudge, ClaimPublish, ClaimJudge,
         Recheck, GateReap, LeaseRead, LeaseJudge, LeaseRecheck, GateCheck, GateDrop,
         fileVars, ownVars, osVars
    <3> QED
      BY <1>4, <3>1, <3>2 DEF LeaseAccounted, Alive
  <2>b. CASE BeatRename(p)
    <3>1. UNCHANGED <<held, leaseRetry, life, leaseLeft>> /\ pc[p] = "beat"
      BY <2>b DEF pastVars, BeatRename, At, ownVars, osVars
    <3> QED
      BY <1>2, <1>4, <2>b, <3>1 DEF LeaseAccounted, LeaseCall, Alive
  <2>5. CASE LeasePublish(p) \/ LeaseAgain(p)
    <3>1. /\ pc[p] \notin LeaseCall /\ UNCHANGED <<leaseRetry, life, leaseLeft>>
          /\ \/ UNCHANGED <<lease, held>>
             \/ lease' = OwnRecord(p) /\ held' = [held EXCEPT ![p] = @ \cup {tok[p]}]
      BY <2>5 DEF pastVars, LeasePublish, LeaseAgain, At, LeaseCall, osVars
    <3>2. CASE UNCHANGED <<lease, held>>
      BY <1>4, <3>1, <3>2 DEF LeaseAccounted, Alive
    <3>3. CASE lease' = OwnRecord(p) /\ held' = [held EXCEPT ![p] = @ \cup {tok[p]}]
      BY <1>t, <1>4, <3>3 DEF OwnRecord, LeaseAccounted
    <3> QED
      BY <3>1, <3>2, <3>3
  <2>6. CASE LeaseReap(p)
    <3>1. /\ pc[p] \notin LeaseCall /\ UNCHANGED <<held, leaseRetry, life, leaseLeft>>
          /\ lease' = None \/ lease' = lease
      BY <2>6 DEF pastVars, LeaseReap, At, LeaseCall, ownVars, osVars
    <3> QED
      BY <1>4, <3>1, SentinelAssumption DEF LeaseAccounted, Alive
  <2>7. CASE Release(p)
    <3>1. UNCHANGED <<lease, leaseRetry, life, leaseLeft>> /\ pc[p] = "loop"
      BY <2>7 DEF pastVars, Release, At, fileVars, osVars
    <3>2. PICK t \in held[p] : /\ held' = [held EXCEPT ![p] = @ \ {t}]
                               /\ Enter(p, "leaseCheck", t, Unknown, None)
      BY <2>7 DEF Release
    <3>3. held'[p] = held[p] \ {t} /\ tok'[p] = t /\ pc'[p] = "leaseCheck"
      BY <1>t, <3>2 DEF Enter
    <3> QED
      BY <1>4, <3>1, <3>3 DEF LeaseAccounted, LeaseCall, Alive
  <2>8. CASE LeaseTimer(p)
    <3>1. UNCHANGED <<lease, held, life, leaseLeft>> /\ pc[p] = "loop"
      BY <2>8 DEF pastVars, LeaseTimer, At, fileVars, osVars
    <3>2. PICK t \in leaseRetry[p] :
            /\ leaseRetry' = [leaseRetry EXCEPT ![p] = @ \ {t}]
            /\ Enter(p, "leaseCheck", t, Unknown, None)
      BY <2>8 DEF LeaseTimer
    <3>3. leaseRetry'[p] = leaseRetry[p] \ {t} /\ tok'[p] = t /\ pc'[p] = "leaseCheck"
      BY <1>t, <3>2 DEF Enter
    <3> QED
      BY <1>4, <3>1, <3>3 DEF LeaseAccounted, LeaseCall, Alive
  <2>9. CASE LeaseCheck(p)
    <3>1. pc[p] = "leaseCheck" /\ Alive(p) /\ UNCHANGED <<lease, held, leaseRetry, life>>
      BY <2>9 DEF pastVars, LeaseCheck, At, fileVars, ownVars, osVars
    <3>2. CASE Goto(p, "leaseDrop") /\ UNCHANGED leaseLeft
      <4>1. pc'[p] = "leaseDrop" /\ tok'[p] = tok[p]
        BY <1>t, <3>2 DEF Goto
      <4> QED
        BY <1>4, <3>1, <3>2, <4>1 DEF LeaseAccounted, LeaseCall, Alive
    <3>3. CASE leaseLeft' = IF LeaseIs(tok[p]) THEN leaseLeft \cup {tok[p]} ELSE leaseLeft
      BY <1>4, <3>1, <3>3 DEF LeaseAccounted, LeaseIs, Alive
    <3> QED
      BY <2>9, <3>2, <3>3 DEF LeaseCheck
  <2>10. CASE LeaseDrop(p)
    <3>1. UNCHANGED <<life, held, leaseLeft>>
      BY <2>10 DEF pastVars, LeaseDrop, osVars
    <3>2. \/ lease' = None
          \/ /\ lease' = lease
             /\ leaseRetry'[p] = leaseRetry[p] \cup {tok[p]}
      BY <1>t, <2>10 DEF LeaseDrop
    <3> QED
      BY <1>4, <3>1, <3>2, SentinelAssumption DEF LeaseAccounted, Alive
  <2> QED
    BY <2>1, <2>2, <2>a, <2>3, <2>4, <2>b, <2>5, <2>6, <2>7, <2>8, <2>9, <2>10
       DEF Step, CallStep, TimerStep
<1> QED
  BY <1>3, <1>4

(* No live process leaves a gate or a lease that nothing of its own will    *)
(* ever delete, but for one its release could not read: a failed unlink is  *)
(* retried by its timer, and a heartbeat publishes no record but that of a  *)
(* lease its process will release.                                          *)
THEOREM FilesAreAccounted == ASSUME StableBoot PROVE Spec => []NothingOrphaned
<1>1. Init => Accounted
  BY DEF Init, Accounted, GateAccounted, LeaseAccounted, BeatsOwn, Alive
<1>2. IInv /\ Accounted /\ [Next]_vars => Accounted'
  <2> SUFFICES ASSUME IInv, Accounted, [Next]_vars, NEW q \in Proc
               PROVE  GateAccounted(q)' /\ LeaseAccounted(q)' /\ BeatsOwn(q)'
    BY DEF Accounted
  <2>1. GateAccounted(q) /\ LeaseAccounted(q) /\ BeatsOwn(q)
    BY DEF Accounted
  <2>2. CASE UNCHANGED vars
    BY <2>1, <2>2 DEF pastVars, vars, osVars, fileVars, callVars, ownVars, GateAccounted,
       LeaseAccounted, BeatsOwn, Alive
  <2>3. CASE Next
    <3>1. PICK p \in Proc : Step(p)
      BY <2>3 DEF Next, Step
    <3>2. BeatsOwn(p)
      BY DEF Accounted
    <3> QED
      BY <2>1, <3>1, <3>2, StepGateAccounted, StepLeaseAccounted, StepBeatsOwn
  <2> QED
    BY <2>2, <2>3
<1>3. IInv /\ Accounted => NothingOrphaned
  BY DEF Accounted, GateAccounted, LeaseAccounted, NothingOrphaned
<1>4. Spec => []IInv
  BY Inductive
<1> QED
  BY <1>1, <1>2, <1>3, <1>4, PTL DEF Spec
=============================================================================
