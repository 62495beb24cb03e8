---------------------------- MODULE MCScanStore ----------------------------
(* Instances of ScanStore for TLC: a module, one that imports it and that   *)
(* is only ever added and removed, and a manifest.                          *)
EXTENDS ScanStore, FiniteSets, TLC

CONSTANTS lib, app, manifest

TwoVersions == lib :> {1, 2} @@ app :> {1}
AnyVersions == [f \in File |-> {1, 2}]
OneImport == {<<app, lib>>}

(* Bound: of the five things that can go wrong, two since the last full scan. *)
FewFaults ==
    Cardinality(blame) <= 2
=============================================================================
