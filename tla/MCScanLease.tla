----------------------------- MODULE MCScanLease -----------------------------
(* Instances of ScanLease for TLC. *)
EXTENDS ScanLease, TLC

Interchangeable == Permutations(Proc) \cup Permutations(Pid)
=============================================================================
