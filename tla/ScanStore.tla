----------------------------- MODULE ScanStore -----------------------------
(***************************************************************************)
(* What a scan reads and writes under .navgator/architecture, file by      *)
(* file: how it chooses between a full, an incremental and an empty scan   *)
(* (selectScanMode), how an incremental scan merges with the stored graph, *)
(* and what a scan that stops half way leaves to the next one              *)
(* (scanner.ts, storage.ts, storage/markdown-view.ts).                     *)
(*                                                                         *)
(* One scan runs at a time, under the scan lease; the project's files are  *)
(* edited meanwhile, and a process may be killed between any two writes.   *)
(* A file's content is a version, 0 if there is no such file.  Of the      *)
(* graph the model keeps which files have a component                      *)
(* (components.full.jsonl), which version of a file its connections were   *)
(* read from, and the connections between files (connections.full.jsonl).  *)
(* Component ids are random at each scan: connections that were written    *)
(* before the components are named by ids nobody knows.  Left out are the  *)
(* optional file per entity and what no scan reads back: graph.json,       *)
(* file_map.json, summaries, metrics, the timeline.                        *)
(***************************************************************************)
EXTENDS Naturals

CONSTANTS
    File,
    Manifests,   \* FULL_SCAN_TRIGGER_FILES
    Versions,    \* the versions a file may have
    Imports,     \* <<f, g>> if f, whatever its version, imports g
    Modes,       \* the modes asked for
    Cap,         \* INCREMENTAL_CAP, 20 in the code
    None,        \* a file of the store that is missing
    Crashes,     \* TRUE if a scan may be killed, or throw
    Errors       \* TRUE if a step whose failure is swallowed may fail

ASSUME FileAssumption == Manifests \subseteq File /\ Imports \subseteq File \X File
ASSUME VersionAssumption == Versions \in [File -> SUBSET (Nat \ {0})]
ASSUME ModeAssumption == Modes \subseteq {"auto", "full", "incremental"}
ASSUME CapAssumption == Cap \in Nat \ {0}
ASSUME FailureAssumption == Crashes \in BOOLEAN /\ Errors \in BOOLEAN

Contents == {c \in [File -> {0} \cup UNION {Versions[f] : f \in File}] :
                \A f \in File : c[f] \in Versions[f] \cup {0}}

VARIABLES
    disk,     \* the content of each file
    hashes,   \* hashes.json: None, or the content hashed, 0 if not listed
    index,    \* index.json: None, or [incs, due]; due if the last full scan
              \* is too old, or the audit found a drift
    comps,    \* components.full.jsonl: the files with a component
    conns,    \* connections.full.jsonl: [read, edges]
    paired,   \* the connections were written after the components
    rdeps,    \* reverse-deps.json: the connections it was made from
    pc, mode, \* where the scan is, and full or incremental
    left,     \* the files it has still to unlink
    read,     \* the content it has of each file
    walk,     \* the files it walks, until it has merged them
    new,      \* the graph it will store: [comps, conns]
    prior,    \* the index an incremental scan loaded
    stopped,  \* (history) a scan stopped short, and none has ended since
    since,    \* (history) incremental scans since a full one began
    blame     \* (history) what went wrong since then: late, unread, cut,
              \* restored, uncounted

storeVars == <<hashes, index, comps, conns, paired, rdeps>>
scanVars  == <<mode, left, read, walk, new, prior>>
histVars  == <<stopped, since, blame>>
vars == <<disk, storeVars, pc, scanVars, histVars>>

Absent  == [f \in File |-> 0]
Present == {f \in File : disk[f] # 0}
NoConns == [read |-> Absent, edges |-> {}]
NoGraph == [comps |-> {}, conns |-> NoConns]
Conns   == [read : Contents, edges : SUBSET Imports]
Index   == [incs : IF "incremental" \in Modes THEN Nat ELSE 0..Cap, due : BOOLEAN]
ASSUME NoneAssumption == None \notin Contents \cup Index
Edges(from, to) == {e \in Imports : e[1] \in from /\ e[2] \in to}

Init ==
    /\ disk \in Contents
    /\ hashes = None /\ index = None
    /\ comps = {} /\ conns = NoConns /\ paired = TRUE /\ rdeps = {}
    /\ pc = "idle" /\ mode = "full" /\ left = {} /\ read = Absent
    /\ walk = {} /\ new = NoGraph /\ prior = None
    /\ stopped = FALSE /\ since = 0 /\ blame = {}

-----------------------------------------------------------------------------
(* Which files changed, and what an auto scan makes of it. *)

(* detectFileChanges: without hashes all files are new. *)
Hashed  == IF hashes = None THEN Absent ELSE hashes
Changed == {f \in File : disk[f] # Hashed[f]}
Added   == {f \in Changed : Hashed[f] = 0}

(* Mutant: new files are like changed ones. *)
SelectModeNew(m) ==
    IF m = "full" \/ index = None THEN "full"
    ELSE IF m = "incremental" THEN "incremental"
    ELSE IF index.due \/ Changed \cap Manifests # {} \/ index.incs >= Cap
    THEN "full"
    ELSE IF Changed = {} THEN "noop" ELSE "incremental"

(* Mutant: incremental scans are not counted. *)
SelectModeCapless(m) ==
    IF m = "full" \/ index = None THEN "full"
    ELSE IF m = "incremental" THEN "incremental"
    ELSE IF index.due \/ Changed \cap Manifests # {} \/ Added # {} THEN "full"
    ELSE IF Changed = {} THEN "noop" ELSE "incremental"

(* selectScanMode; what auto finds unchanged is scanned no further. *)
SelectMode(m) ==
    IF m = "full" \/ index = None THEN "full"
    ELSE IF m = "incremental" THEN "incremental"
    ELSE IF \/ index.due \/ index.incs >= Cap
            \/ Changed \cap Manifests # {} \/ Added # {} THEN "full"
    ELSE IF Changed = {} THEN "noop" ELSE "incremental"

(* A file is written, removed, or put back as it was. *)
Edit(f) ==
    /\ \E v \in (Versions[f] \cup {0}) \ {disk[f]} : disk' = [disk EXCEPT ![f] = v]
    /\ blame' = IF /\ stopped \/ pc # "idle"
                   /\ disk'[f] = Hashed[f] \/ (disk[f] = 0 /\ Hashed[f] # 0)
                THEN blame \cup {"restored"} ELSE blame
    /\ UNCHANGED <<storeVars, pc, scanVars, stopped, since>>

(* The last full scan gets too old. *)
Due ==
    /\ index # None /\ ~index.due
    /\ index' = [index EXCEPT !.due = TRUE]
    /\ UNCHANGED <<disk, hashes, comps, conns, paired, rdeps, pc, scanVars,
                   histVars>>

-----------------------------------------------------------------------------
(* A scan. *)

(* Phase 0; an incremental scan walks what changed and what imports it.     *)
Detect(m) ==
    LET chosen == SelectMode(m) IN
    /\ read' = disk
    /\ prior' = IF chosen = "full" THEN None ELSE index
    /\ mode' = chosen
    /\ walk' = IF chosen = "full" THEN File
               ELSE Changed \cup {f \in File : \E g \in Changed : <<f, g>> \in rdeps}
    /\ left' = IF chosen = "full" THEN {"index", "comps", "conns"} ELSE {}
    /\ pc' = CASE chosen = "full" -> "clear"
               [] chosen = "noop" -> "hash"
               [] OTHER           -> "analyse"
    /\ new' = NoGraph
    /\ since' = IF chosen = "full" THEN 0 ELSE since
    /\ blame' = IF chosen = "full" THEN {} ELSE blame
    /\ UNCHANGED stopped

Begin ==
    /\ pc = "idle"
    /\ \E m \in Modes : Detect(m)
    /\ UNCHANGED <<disk, storeVars>>

(* clearStorage: the unlinks run side by side; the hashes stay. *)
Clear ==
    /\ pc = "clear"
    /\ \E x \in left :
          /\ left' = left \ {x}
          /\ index' = IF x = "index" THEN None ELSE index
          /\ comps' = IF x = "comps" THEN {} ELSE comps
          /\ conns' = IF x = "conns" THEN NoConns ELSE conns
    /\ pc' = IF left' = {} THEN "analyse" ELSE "clear"
    /\ UNCHANGED <<disk, hashes, paired, rdeps, mode, read, walk, new, prior,
                   histVars>>

(* Phases 1 to 3.  Every file that Phase 0 found gets a component; what a   *)
(* file says is read, now, from the files walked that are still there.  A   *)
(* file that cannot be read is passed over, and an analysis that fails      *)
(* gives nothing at all: both are swallowed.                                *)
Found == {f \in File : read[f] # 0}
Readable == {f \in Found \cap walk : disk[f] # 0}
Analyse ==
    \E there \in SUBSET Readable, nodes \in {Found, {}} :
        /\ pc = "analyse"
        /\ \/ there = Readable /\ nodes = Found
           \/ Errors /\ (nodes = Found \/ there = {})
        /\ read' = [f \in File |-> IF f \in there THEN disk[f] ELSE read[f]]
        /\ new' = [comps |-> nodes,
                   conns |-> [read  |-> [f \in File |->
                                          IF f \in there THEN disk[f] ELSE 0],
                              edges |-> Edges(there, Found)]]
        /\ walk' = IF mode = "full" THEN {} ELSE walk
        /\ pc' = IF mode = "full" THEN "index" ELSE "merge"
        /\ blame' = blame
             \cup (IF Readable = Found \cap walk THEN {} ELSE {"late"})
             \cup (IF there = Readable /\ nodes = Found THEN {} ELSE {"unread"})
        /\ UNCHANGED <<disk, storeVars, mode, left, prior, stopped, since>>

(* Phase 4 of an incremental scan: what the stored graph says of the files  *)
(* that were not walked stays.                                              *)
Merged ==
    [comps |-> new.comps \cup (comps \ walk),
     conns |-> [read  |-> [f \in File |-> IF f \in walk THEN new.conns.read[f]
                                          ELSE conns.read[f]],
                edges |-> new.conns.edges \cup {e \in conns.edges : e[1] \notin walk}]]

(* runIntegrityCheck: the ends of each connection are components, and the   *)
(* walked components' files are there.                                      *)
Integrity ==
    /\ \A f \in File \ walk : conns.read[f] # 0 => paired /\ f \in comps
    /\ \A e \in Merged.conns.edges : e[2] \in Merged.comps
    /\ \A f \in Merged.comps : f \in walk => disk[f] # 0

(* Mutant: a merge that fails its check is stored all the same. *)
MergeUnchecked ==
    /\ pc = "merge"
    /\ new' = Merged /\ pc' = "index"
    /\ UNCHANGED <<disk, storeVars, mode, left, read, walk, prior, histVars>>

(* When the check fails the scan starts again as a full one. *)
Merge ==
    /\ pc = "merge"
    /\ IF Integrity
       THEN /\ new' = Merged /\ walk' = {} /\ pc' = "index"
            /\ UNCHANGED <<mode, left, read, prior, histVars>>
       ELSE Detect("full")
    /\ UNCHANGED <<disk, storeVars>>

-----------------------------------------------------------------------------
(* What a scan writes, in this order. *)

Go(l) == pc' = l /\ UNCHANGED <<disk, mode, left, read, walk, new, prior>>

(* buildIndex: an index that knows nothing of earlier scans. *)
WriteIndex ==
    /\ pc = "index"
    /\ index' = [incs |-> 0, due |-> FALSE]
    /\ Go("rdeps")
    /\ UNCHANGED <<hashes, comps, conns, paired, rdeps, histVars>>

(* buildReverseDepsIndex; a failure is swallowed. *)
WriteReverseDeps ==
    /\ pc = "rdeps"
    /\ rdeps' = new.conns.edges \/ (Errors /\ rdeps' = rdeps)
    /\ Go("annotate")
    /\ UNCHANGED <<hashes, index, comps, conns, paired, histVars>>

Count == since' = IF mode = "full" \/ "uncounted" \in blame' THEN 0 ELSE since + 1

(* Mutant: the counter starts again at each scan. *)
AnnotateForgets ==
    /\ pc = "annotate"
    /\ \E breach \in BOOLEAN : index' = [incs |-> 0, due |-> breach]
    /\ Go("comps")
    /\ UNCHANGED <<hashes, comps, conns, paired, rdeps, stopped, blame>>
    /\ Count

(* Phase 5.5: the index gets the counter and the audit's verdict; a failure *)
(* is swallowed.                                                            *)
Annotate ==
    /\ pc = "annotate"
    /\ \/ /\ \E breach \in BOOLEAN :
              index' = [incs |-> IF mode = "full" THEN 0 ELSE prior.incs + 1,
                        due  |-> breach]
          /\ UNCHANGED blame
       \/ /\ Errors /\ blame' = blame \cup {"uncounted"}
          /\ UNCHANGED index
    /\ Count
    /\ Go("comps")
    /\ UNCHANGED <<hashes, comps, conns, paired, rdeps, stopped>>

(* writeFullComponentsJsonl and writeFullConnectionsJsonl: the file is      *)
(* truncated, then written.  The first failure ends both, and is swallowed. *)
Truncate ==
    /\ pc \in {"comps", "conns"}
    /\ \/ /\ IF pc = "comps" THEN comps' = {} /\ conns' = conns
             ELSE conns' = NoConns /\ comps' = comps
          /\ Go(IF pc = "comps" THEN "compsFill" ELSE "connsFill")
          /\ UNCHANGED blame
       \/ /\ Errors /\ blame' = blame \cup {"cut"}
          /\ Go("hash") /\ UNCHANGED <<comps, conns>>
    /\ UNCHANGED <<hashes, index, paired, rdeps, stopped, since>>

Fill ==
    /\ pc \in {"compsFill", "connsFill"}
    /\ \/ /\ IF pc = "compsFill" THEN comps' = new.comps /\ conns' = conns
             ELSE conns' = new.conns /\ comps' = comps
          /\ paired' = (pc = "connsFill")
          /\ Go(IF pc = "compsFill" THEN "conns" ELSE "hash")
          /\ UNCHANGED blame
       \/ /\ Errors /\ blame' = blame \cup {"cut"}
          /\ Go("hash") /\ UNCHANGED <<comps, conns, paired>>
    /\ UNCHANGED <<hashes, index, rdeps, stopped, since>>

(* A file no longer is what the scan has of it. *)
Behind == \E f \in Found : disk[f] # read[f]

(* Phase 6, and the end of an empty scan: the files found are hashed as     *)
(* they are now.                                                            *)
SaveHashes ==
    /\ pc = "hash"
    /\ hashes' = [f \in File |-> IF f \in Found THEN disk[f] ELSE 0]
    /\ blame' = IF Behind THEN blame \cup {"late"} ELSE blame
    /\ stopped' = (stopped /\ mode = "noop")
    /\ pc' = "idle" /\ mode' = "full" /\ left' = {} /\ read' = Absent
    /\ walk' = {} /\ new' = NoGraph /\ prior' = None
    /\ UNCHANGED <<disk, index, comps, conns, paired, rdeps, since>>

-----------------------------------------------------------------------------
(* The scan is killed, or throws.  It cuts the graph short if the graph is  *)
(* not whole and the next auto scan is not going to build it anew.          *)
Torn == \/ mode = "full" /\ pc \in {"clear", "analyse", "index", "rdeps",
                "annotate", "comps", "compsFill", "conns", "connsFill"}
        \/ pc = "connsFill"
Stop ==
    /\ Crashes /\ pc # "idle"
    /\ blame' = blame \cup (IF Torn /\ SelectMode("auto") # "full"
                            THEN {"cut"} ELSE {})
                     \cup (IF Behind THEN {"late"} ELSE {})
                     \cup (IF pc \in {"rdeps", "annotate"}
                            THEN {"uncounted"} ELSE {})
    /\ stopped' = TRUE
    /\ pc' = "idle" /\ mode' = "full" /\ left' = {} /\ read' = Absent
    /\ walk' = {} /\ new' = NoGraph /\ prior' = None
    /\ UNCHANGED <<disk, storeVars, since>>

Scan == \/ Begin \/ Clear \/ Analyse \/ Merge
        \/ WriteIndex \/ WriteReverseDeps \/ Annotate \/ Truncate \/ Fill
        \/ SaveHashes
Next == Scan \/ Stop \/ Due \/ \E f \in File : Edit(f)

Spec == Init /\ [][Next]_vars
-----------------------------------------------------------------------------
Points == {"idle", "clear", "analyse", "merge", "index", "rdeps", "annotate",
           "comps", "compsFill", "conns", "connsFill", "hash"}

(* Types. *)
TypeOK ==
    /\ disk \in Contents /\ read \in Contents
    /\ hashes = None \/ hashes \in Contents
    /\ index = None \/ index \in Index
    /\ prior = None \/ prior \in Index
    /\ comps \in SUBSET File /\ conns \in Conns
    /\ paired \in BOOLEAN /\ rdeps \in SUBSET Imports
    /\ pc \in Points /\ mode \in {"full", "incremental", "noop"}
    /\ left \in SUBSET {"index", "comps", "conns"} /\ walk \in SUBSET File
    /\ new \in [comps : SUBSET File, conns : Conns]
    /\ stopped \in BOOLEAN /\ since \in Nat
    /\ blame \in SUBSET {"late", "unread", "cut", "restored", "uncounted"}

(* The stored graph is the one a full scan would build. *)
Current ==
    /\ comps = Present
    /\ conns.read = disk
    /\ conns.edges = Edges(Present, Present)

(* "Change Detection: SHA-256 file hashing tracks what changed since last   *)
(* scan": when an auto scan would find nothing to do, there is nothing to   *)
(* do.                                                                      *)
NoopIsCurrent == pc = "idle" /\ SelectMode("auto") = "noop" => Current

(* The same, over scans that stop anywhere and swallow any failed write or  *)
(* analysis, unless one of these happened: a file changed between its       *)
(* analysis and the saving of its hash; a file could not be read or         *)
(* analysed; a rebuild that no change of the files asks for again, or the   *)
(* write of the connections, was cut short; a file was put back to its      *)
(* hashed content, or created again, under a scan or after one that         *)
(* stopped.                                                                 *)
NoopIsCurrentUnlessBlamed ==
    blame \cap {"late", "unread", "cut", "restored"} = {} => NoopIsCurrent

(* After a scan that ended, no connection dangles: the components of both   *)
(* its ends are stored, by the ids it names them with.                      *)
StoredGraphClosed ==
    pc = "idle" /\ ~stopped /\ "cut" \notin blame =>
        paired /\ \A e \in conns.edges : e[1] \in comps /\ e[2] \in comps

(* When none is asked for, an incremental scan is at most the Cap-th since a *)
(* full one, unless the counter was lost with a write of the index.         *)
CapHonoured ==
    "incremental" \notin Modes /\ "uncounted" \notin blame => since <= Cap
=============================================================================
