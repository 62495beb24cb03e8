------------------------------ MODULE MCGraphs ------------------------------
(* Instances of DeepMap, Partition, ImportCycles and DeadCode for TLC.  They *)
(* share nothing: a behaviour is one of one of them, while the others stay   *)
(* in their initial states.                                                  *)
EXTENDS DeepMap, Partition, ImportCycles, DeadCode, TLC
CONSTANTS p, q, a, i, j, x, y

Init == DeepMapInit /\ PartitionInit /\ CyclesInit /\ DeadInit
Next ==
    \/ /\ PartitionInit /\ CyclesInit /\ DeadInit
       /\ DeepMapNext
       /\ UNCHANGED <<partitionVars, cycleVars, deadVars>>
    \/ /\ DeepMapInit /\ CyclesInit /\ DeadInit
       /\ PartitionNext
       /\ UNCHANGED <<deepMapVars, cycleVars, deadVars>>
    \/ /\ DeepMapInit /\ PartitionInit /\ DeadInit
       /\ CyclesNext
       /\ UNCHANGED <<deepMapVars, partitionVars, deadVars>>
    \/ /\ DeepMapInit /\ PartitionInit /\ CyclesInit
       /\ DeadNext
       /\ UNCHANGED <<deepMapVars, partitionVars, cycleVars>>
Spec == Init /\ [][Next]_<<deepMapVars, partitionVars, cycleVars, deadVars>>

EachTier == {{1}, {2}, {3}}
(* Four components of four or three names. *)
DistinctAndNot == {<<1, 2, 3, 4>>, <<1, 2, 3, 3>>}
Interchangeable ==
    Permutations(Planner) \cup Permutations(Ingester) \cup Permutations(Component)
=============================================================================
