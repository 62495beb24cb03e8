---------------------------- MODULE MCFreshness ----------------------------
(* Instances of Freshness for TLC. *)
EXTENDS Freshness, TLC

Interchangeable ==
    Permutations(File) \cup Permutations(Hooks) \cup Permutations(Refreshers)
        \cup Permutations(Scans)

(* What may still matter of the variables of p: nothing but its verdict when *)
(* it has ended; of the events it captured, once the files to walk are       *)
(* chosen, those that are still there; and of the stamp it read, its age,    *)
(* but for the refresh that writes it back.                                  *)
BeforeWalk == {"captureRead", "empty", "emptyWrite", "lease", "inFlight",
               "inFlightWrite", "detect"}
Here(p) ==
    IF pc[p] \in Gone THEN <<IF p \in Hooks THEN pc[p] ELSE "ended">>
    ELSE <<pc[p], IF pc[p] \in BeforeWalk THEN snap[p] ELSE snap[p] \cap ledger,
           IF pc[p] = "refreshWrite" THEN prior[p] ELSE prior[p].age,
           walk[p], new[p], quiet[p], attempt[p], slept[p]>>
(* A saved hash is only compared with that of the file.                      *)
View ==
    <<disk, graph, [f \in File |-> hash[f] = disk[f]], unstored, ledger, marked,
      stamp, lease, mutex, file, [p \in Proc |-> Here(p)]>>
=============================================================================
