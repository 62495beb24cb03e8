------------------------------ MODULE MCWriters ------------------------------
(* Instances of ScanLease, Journal, Memory and History for TLC.  They share    *)
(* nothing: a behaviour is one of one of them, while the others stay in an     *)
(* initial state.                                                              *)
EXTENDS MCScanLease, Journal, Memory, History
CONSTANTS c1, c2, k1, k2, w1, w2

WritersInit == Init /\ JournalInit /\ MemoryInit /\ HistoryInit
(* One of the initial states of the lease. *)
NoLock == gate = None /\ lease = None /\ \A p, q \in Proc : pid[p] = pid[q]
WritersNext ==
    \/ /\ JournalInit /\ MemoryInit /\ HistoryInit
       /\ Next
       /\ UNCHANGED <<journalVars, memoryVars, historyVars>>
    \/ /\ Init /\ NoLock /\ MemoryInit /\ HistoryInit
       /\ JournalNext
       /\ UNCHANGED <<vars, memoryVars, historyVars>>
    \/ /\ Init /\ NoLock /\ JournalInit /\ HistoryInit
       /\ MemoryNext
       /\ UNCHANGED <<vars, journalVars, historyVars>>
    \/ /\ Init /\ NoLock /\ JournalInit /\ MemoryInit
       /\ HistoryNext
       /\ UNCHANGED <<vars, journalVars, memoryVars>>
WritersSpec ==
    WritersInit /\ [][WritersNext]_<<vars, journalVars, memoryVars, historyVars>>

(* What may still matter: not how often a process that has died called, not  *)
(* a file that was left to itself and is gone (its token does not recur);    *)
(* and once a scan was flawed, the entries need not add up, and a timeline   *)
(* that was lost need hold nothing.                                          *)
There(f) == IF f \in Record THEN {f.tok} ELSE {}
Steady == flaws \subseteq {"lost"}
View ==
    <<osVars, [p \in Proc |-> IF life[p] = "dead" THEN 0 ELSE uses[p]], fileVars,
      callVars, ownVars, gateLeft \cap There(gate), leaseLeft \cap There(lease),
      blind, journalVars, memoryVars,
      graph, indexed, snapshot, scanning, saved, Steady,
      IF Steady THEN {told} ELSE {}, IF "lost" \in flaws THEN {} ELSE {timeline}>>
=============================================================================
