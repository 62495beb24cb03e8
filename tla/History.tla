------------------------------- MODULE History -------------------------------
(***************************************************************************)
(* The history that scans keep (scanner.ts, diff.ts): snapshots/, and      *)
(* timeline.json, each entry of which is the difference between a snapshot *)
(* and what the scan found.                                                *)
(*                                                                         *)
(* An incremental scan writes a snapshot of the stored graph and compares  *)
(* with the latest snapshot; a full scan clears the store and compares     *)
(* with the latest snapshot there is; an incremental scan that fails its   *)
(* integrity check goes on as a full one.  The timeline is read, appended  *)
(* to, cut to the history limit and rewritten in place, before the scan    *)
(* stores its graph.  The scan holds the lease, so there is one at a time; *)
(* it may be killed before any of its writes, or in the middle of one that *)
(* is not atomic.  A failure to clear the store, to write or read the      *)
(* snapshot, to read or write the timeline, or to store the graph is       *)
(* swallowed, and the scan goes on; any other one ends the scan, as a kill *)
(* does.  How a mode is chosen and what an incremental scan finds is       *)
(* ScanStore's; here it may find any graph.                                *)
(*                                                                         *)
(* A graph is the version of each component, connections included; an      *)
(* entry of the timeline is a number.                                      *)
(***************************************************************************)
EXTENDS Naturals, Sequences

CONSTANTS
    Key,           \* keys of components and connections
    MaxVersion,    \* versions are 1..MaxVersion
    HistoryLimit,  \* NAVGATOR_HISTORY_LIMIT
    MaxScans,      \* bound on the scans
    HistoryFaults  \* TRUE if file operations may fail and scans be killed

ASSUME HistoryAssumption ==
    /\ {MaxVersion, HistoryLimit, MaxScans} \subseteq Nat \ {0}
    /\ HistoryFaults \in BOOLEAN

VARIABLES
    graph,     \* the stored graph
    indexed,   \* is there an index.json?
    snapshot,  \* the latest snapshot, {} or {a graph}; one cut short is {}
    timeline,  \* timeline.json: its entries; one cut short is empty
    scanning,  \* the state of the scan
    saved,     \* the entries saved so far
    told,      \* (history) the graph that the entries saved so far add up to
    flaws      \* (history) what may have put the history out of step

historyVars == <<graph, indexed, snapshot, timeline, scanning, saved, told, flaws>>

(* 0 is the version of a component that is not there. *)
Graph == [Key -> 0..MaxVersion]
Nothing == [c \in Key |-> 0]
Unscanned == [at |-> "idle"]

HistoryInit ==
    /\ graph = Nothing /\ indexed = FALSE
    /\ snapshot = {} /\ timeline = <<>>
    /\ scanning = Unscanned
    /\ saved = 0
    /\ told = Nothing /\ flaws = {}

-----------------------------------------------------------------------------
(* saveTimelineEntry. *)

(* Mutant: the entries kept are the oldest. *)
PrunedFirst(s) == IF Len(s) > HistoryLimit THEN SubSeq(s, 1, HistoryLimit) ELSE s
Pruned(s) ==
    IF Len(s) > HistoryLimit THEN SubSeq(s, Len(s) - HistoryLimit + 1, Len(s)) ELSE s

(* The timeline that is read: one that cannot be read counts as empty.      *)
TimelineRead == {timeline} \cup (IF HistoryFaults THEN {<<>>} ELSE {})
(* What of the history a timeline does not hold any more.                    *)
Lost(t) == IF t = timeline THEN {} ELSE {"lost"}

SaveEntry(read) ==
    /\ saved' = saved + 1
    /\ timeline' = Pruned(Append(read, saved + 1))

(* The write fails, or is killed: one cut short cannot be parsed.            *)
SaveFails ==
    /\ HistoryFaults
    /\ timeline' \in {timeline, <<>>}
    /\ UNCHANGED saved

(* A scan that finds nothing to do; it ends if it cannot write its entry.   *)
Noop ==
    /\ scanning = Unscanned
    /\ indexed /\ saved < MaxScans
    /\ \/ \E read \in TimelineRead : SaveEntry(read) /\ flaws' = flaws \cup Lost(read)
       \/ SaveFails /\ flaws' = flaws \cup Lost(timeline')
    /\ UNCHANGED <<graph, indexed, snapshot, scanning, told>>

(* A file that is unlinked or written over in part: of each component there *)
(* is the old, the new or nothing.                                          *)
Mixed(old, new) == {g \in Graph : \A c \in Key : g[c] \in {0, old[c], new[c]}}

(* clearStorage; the scan is the first one if there is nothing to clear.    *)
(* What cannot be unlinked stays.                                           *)
Clear ==
    \/ graph' = Nothing /\ indexed' = FALSE
    \/ HistoryFaults /\ graph' \in Mixed(graph, Nothing) /\ indexed' \in {indexed, FALSE}

BeginFull ==
    /\ scanning = Unscanned /\ saved < MaxScans
    /\ Clear
    /\ scanning' = [at |-> "baseline"]
    /\ flaws' = IF indexed THEN flaws \cup {"full"} ELSE flaws
    /\ UNCHANGED <<snapshot, timeline, saved, told>>

BeginIncremental ==
    /\ scanning = Unscanned /\ saved < MaxScans
    /\ indexed
    /\ scanning' = [at |-> "snapshot"]
    /\ UNCHANGED <<graph, indexed, snapshot, timeline, saved, told, flaws>>

(* What the scan goes on with, once it has its baseline.                    *)
CompareWith(base) ==
    \E found \in Graph : scanning' = [at |-> "compare", base |-> base, found |-> found]

(* createSnapshot.  What of the stored graph cannot be read is not in it; if *)
(* it cannot be written, the latest one is cut short or the one before, and  *)
(* the scan has no baseline.                                                 *)
WriteSnapshot ==
    /\ scanning.at = "snapshot"
    /\ \/ /\ snapshot' = {graph}
          /\ scanning' = [at |-> "baseline"]
          /\ UNCHANGED flaws
       \/ /\ HistoryFaults
          /\ \E read \in Mixed(graph, Nothing) \ {graph} : snapshot' = {read}
          /\ scanning' = [at |-> "baseline"]
          /\ flaws' = flaws \cup {"baseless"}
       \/ /\ HistoryFaults
          /\ snapshot' \in {snapshot, {}}
          /\ CompareWith({})
          /\ flaws' = flaws \cup {"baseless"}
    /\ UNCHANGED <<graph, indexed, timeline, saved, told>>

(* loadLatestSnapshot: one that cannot be read counts as none.               *)
LoadBaseline ==
    /\ scanning.at = "baseline"
    /\ \/ CompareWith(snapshot) /\ UNCHANGED flaws
       \/ /\ HistoryFaults /\ snapshot # {}
          /\ CompareWith({})
          /\ flaws' = flaws \cup {"baseless"}
    /\ UNCHANGED <<graph, indexed, snapshot, timeline, saved, told>>

(* The integrity check fails: scan() is entered again, and clears.          *)
Promote ==
    /\ scanning.at = "compare" /\ indexed
    /\ Clear
    /\ scanning' = [at |-> "baseline"]
    /\ UNCHANGED <<snapshot, timeline, saved, told, flaws>>

(* Mutant: components that are gone are not looked for. *)
ChangedPresent(base, found) ==
    {c \in Key : found[c] # 0 /\ \A g \in base : g[c] # found[c]}
(* computeArchitectureDiff: added, modified and removed.                    *)
Changed(base, found) ==
    {c \in Key : IF base = {} THEN found[c] # 0 ELSE \A g \in base : g[c] # found[c]}

(* An entry is due if anything changed or there was no snapshot.            *)
EntryDue == scanning.base = {} \/ Changed(scanning.base, scanning.found) # {}

SaveDiff ==
    LET changed == Changed(scanning.base, scanning.found) IN
    /\ scanning.at = "compare"
    /\ \/ /\ EntryDue
          /\ \E read \in TimelineRead : SaveEntry(read) /\ flaws' = flaws \cup Lost(read)
          /\ told' = [c \in Key |-> IF c \in changed THEN scanning.found[c] ELSE told[c]]
       \/ /\ EntryDue
          /\ SaveFails
          /\ flaws' = flaws \cup {"untold"} \cup Lost(timeline')
          /\ UNCHANGED told
       \/ ~EntryDue /\ UNCHANGED <<timeline, saved, told, flaws>>
    /\ scanning' = [at |-> "index", found |-> scanning.found]
    /\ UNCHANGED <<graph, indexed, snapshot>>

BuildIndex ==
    /\ scanning.at = "index"
    /\ indexed' = TRUE
    /\ scanning' = [scanning EXCEPT !.at = "store"]
    /\ UNCHANGED <<graph, snapshot, timeline, saved, told, flaws>>

(* The graph is written in place; a failure is swallowed.                    *)
Store ==
    /\ scanning.at = "store"
    /\ \/ graph' = scanning.found /\ UNCHANGED flaws
       \/ /\ HistoryFaults
          /\ graph' \in Mixed(graph, scanning.found) \ {scanning.found}
          /\ flaws' = flaws \cup {"unstored"}
    /\ scanning' = Unscanned
    /\ UNCHANGED <<indexed, snapshot, timeline, saved, told>>

(* Killed, or ended by a failure that is not swallowed.  Snapshots, the      *)
(* timeline and the graph are written in place: a snapshot or timeline that  *)
(* is cut short cannot be parsed, which counts as there being none.          *)
KillScan ==
    /\ HistoryFaults /\ scanning # Unscanned
    /\ \/ UNCHANGED <<graph, snapshot, timeline>>
       \/ scanning.at = "snapshot" /\ snapshot' = {} /\ UNCHANGED <<graph, timeline>>
       \/ scanning.at = "compare" /\ EntryDue /\ timeline' = <<>> /\ UNCHANGED <<graph, snapshot>>
       \/ /\ scanning.at = "store"
          /\ graph' \in Mixed(graph, scanning.found)
          /\ UNCHANGED <<snapshot, timeline>>
    /\ flaws' = flaws \cup {"killed"} \cup Lost(timeline')
    /\ scanning' = Unscanned
    /\ UNCHANGED <<indexed, saved, told>>

HistoryNext ==
    \/ Noop \/ BeginFull \/ BeginIncremental
    \/ WriteSnapshot \/ LoadBaseline \/ Promote \/ SaveDiff \/ BuildIndex \/ Store
    \/ KillScan

HistorySpec == HistoryInit /\ [][HistoryNext]_historyVars

-----------------------------------------------------------------------------
HistoryTypeOK ==
    /\ graph \in Graph /\ told \in Graph
    /\ indexed \in BOOLEAN
    /\ snapshot = {} \/ \E g \in Graph : snapshot = {g}
    /\ timeline \in Seq(1..MaxScans)
    /\ scanning.at \in {"idle", "snapshot", "baseline", "compare", "index", "store"}
    /\ saved \in 0..MaxScans

(* All entries saved so far, applied one after the other, give the stored    *)
(* graph, also across scans that were promoted, unless a scan was killed or  *)
(* ended in mid-way ("killed"), a full scan was made of a project that       *)
(* already had a graph ("full"), or a scan went on without its baseline      *)
(* ("baseless"), its entry ("untold") or its stored graph ("unstored").  A   *)
(* timeline that lost its earlier entries does not disturb the later ones.   *)
TimelineReplays == scanning = Unscanned /\ flaws \subseteq {"lost"} => told = graph

(* "For full scans, still create a snapshot for diff (if prior data exists)": *)
(* when nothing fails and no scan is killed, a full scan's entry too is the   *)
(* difference from the graph before it, and the timeline adds up.             *)
TimelineAddsUp == scanning = Unscanned => told = graph

(* The timeline holds the latest of the entries saved, up to the limit, in   *)
(* order, unless it was once cut short or could not be read, which costs     *)
(* all that it held.                                                         *)
HistoryKept ==
    "lost" \in flaws \/
        /\ Len(timeline) = IF saved < HistoryLimit THEN saved ELSE HistoryLimit
        /\ \A i \in 1..Len(timeline) : timeline[i] = saved - Len(timeline) + i
=============================================================================
