-------------------------- MODULE ScanStore_proofs --------------------------
(***************************************************************************)
(* Theorems about ScanStore: for any files, imports, cap and failures, a   *)
(* stored graph is closed, the cap holds, and an auto scan that finds      *)
(* nothing to do has nothing to do, unless the history is to blame.        *)
(*                                                                         *)
(* The last needs that no incremental scan is asked for by name            *)
(* (AutoOrFull): one that is does not look at what a stopped full scan     *)
(* has left.                                                               *)
(***************************************************************************)
EXTENDS ScanStore, TLAPS

AutoOrFull == "incremental" \notin Modes

Unblamed == blame \cap {"late", "unread", "cut", "restored"} = {}

(* Where the scan is. *)
Control ==
    /\ pc \in {"idle", "clear"} => mode = "full"
    /\ pc = "merge" => mode = "incremental"
    /\ mode = "noop" => pc = "hash"
    /\ mode = "incremental" => prior # None
    /\ mode = "full" /\ pc \in {"clear", "analyse"} => walk = File
    /\ AutoOrFull /\ mode = "incremental" => prior.incs < Cap

(* Incremental scans are counted, in the index or by the one under way. *)
Counting == pc \in {"rdeps", "annotate"}
Counted ==
    /\ index = None \/ (mode = "full" /\ pc # "idle") => since = 0
    /\ index # None /\ ~Counting => since <= index.incs
    /\ mode = "incremental" /\ pc \in {"analyse", "merge", "index", "rdeps", "annotate"} =>
          since <= prior.incs
CapKept == AutoOrFull /\ "uncounted" \notin blame => Counted

-----------------------------------------------------------------------------
(* The graph of a content of the files. *)
There(v) == {f \in File : v[f] # 0}
GraphOf(v) == [comps |-> There(v),
               conns |-> [read |-> v, edges |-> Edges(There(v), There(v))]]

Closed(nodes, edges) == \A e \in edges : e[1] \in nodes /\ e[2] \in nodes
(* Who has an edge was read. *)
Sourced(g) == \A e \in g.edges : g.read[e[1]] # 0

Writing == {"index", "rdeps", "annotate", "comps", "compsFill", "conns", "connsFill"}
Made == pc \in Writing \/ (pc = "hash" /\ mode # "noop")

Sources ==
    /\ Sourced(conns) /\ Sourced(new.conns)
    /\ pc = "merge" => \A e \in new.conns.edges : e[1] \in walk
    /\ pc = "merge" \/ Made => Closed(new.comps, new.conns.edges)
(* What is to be stored is stored. *)
Stored ==
    "cut" \notin blame =>
        /\ pc \in {"conns", "connsFill"} => comps = new.comps
        /\ pc = "hash" /\ mode # "noop" =>
              comps = new.comps /\ conns = new.conns /\ paired
        /\ (pc = "idle" \/ mode = "noop") /\ ~stopped =>
              paired /\ Closed(comps, conns.edges)

-----------------------------------------------------------------------------
(* The files of which v has the content that was hashed. *)
Same(v, h) == {f \in File : v[f] = h[f]}
(* A graph that is right about those. *)
Partly(nodes, links, v, h) ==
    /\ \A f \in Same(v, h) : links.read[f] = v[f] /\ (f \in nodes => v[f] # 0)
    /\ \A e \in Edges(Same(v, h) \cap There(v), There(v) \cap There(h)) :
          e \in links.edges
    /\ \A e \in links.edges : e[2] \in Same(v, h) => v[e[2]] # 0
    /\ Same(v, h) = File => There(v) \subseteq nodes
(* From v to w no file was put back, or created again. *)
Apart(v, w, h) ==
    \A f \in File : /\ w[f] = h[f] => v[f] = h[f]
                    /\ w[f] # 0 /\ h[f] # 0 => v[f] # 0

MustBuild == SelectMode("auto") = "full"
AtRest == pc = "idle" \/ mode = "noop"

NotRestored == pc # "idle" => Apart(read, disk, Hashed)
(* An incremental scan walks what changed, and nothing is new. *)
Walks ==
    mode = "incremental" =>
        /\ There(read) \subseteq There(Hashed)
        /\ Same(read, Hashed) # File
        /\ pc \in {"analyse", "merge"} => File \ walk \subseteq Same(read, Hashed)
        /\ pc \notin {"connsFill", "hash"} => Partly(comps, conns, read, Hashed)
Analysed ==
    /\ pc = "merge" =>
          /\ new.comps = There(read)
          /\ new.conns.read = [f \in File |-> IF f \in walk THEN read[f] ELSE 0]
          /\ new.conns.edges = Edges(There(read) \cap walk, There(read))
    /\ Made => new = GraphOf(read)
(* What is stored between scans. *)
Rests ==
    /\ mode = "noop" => read = Hashed
    /\ AtRest /\ stopped => MustBuild \/ Partly(comps, conns, disk, Hashed)
    /\ AtRest /\ ~stopped =>
          index = None \/ [comps |-> comps, conns |-> conns] = GraphOf(Hashed)
GraphKept ==
    AutoOrFull /\ Unblamed => NotRestored /\ Walks /\ Analysed /\ Rests

StoreIInv == TypeOK /\ Control /\ CapKept /\ Sources /\ Stored /\ GraphKept

-----------------------------------------------------------------------------
(* Constants, contents, modes. *)

LEMMA Consts ==
    /\ Manifests \subseteq File /\ Imports \subseteq File \X File
    /\ Versions \in [File -> SUBSET (Nat \ {0})]
    /\ Modes \subseteq {"auto", "full", "incremental"}
    /\ Cap \in Nat \ {0} /\ None \notin Contents \cup Index
  BY FileAssumption, VersionAssumption, ModeAssumption, CapAssumption,
     NoneAssumption
     DEF FileAssumption, VersionAssumption, ModeAssumption, CapAssumption,
         NoneAssumption

LEMMA ContentsAre ==
    /\ \A c \in Contents : /\ c \in [File -> Nat]
                           /\ \A f \in File : c[f] \in Versions[f] \cup {0}
    /\ \A c \in [File -> Nat] :
         (\A f \in File : c[f] \in Versions[f] \cup {0}) => c \in Contents
    /\ Absent \in Contents
<1>1. Versions \in [File -> SUBSET (Nat \ {0})]
  BY Consts
<1>2. \A c \in Contents : /\ c \in [File -> Nat]
                          /\ \A f \in File : c[f] \in Versions[f] \cup {0}
  BY <1>1 DEF Contents
<1>3. ASSUME NEW c \in [File -> Nat], \A f \in File : c[f] \in Versions[f] \cup {0}
      PROVE  c \in Contents
  <2>1. \A f \in File : c[f] \in {0} \cup UNION {Versions[g] : g \in File}
    BY <1>3
  <2> QED
    BY <1>3, <2>1 DEF Contents
<1>4. Absent \in [File -> Nat] /\ \A f \in File : Absent[f] = 0
  BY DEF Absent
<1> QED
  BY <1>2, <1>3, <1>4

(* Two contents mixed file by file. *)
LEMMA MixedContents ==
    ASSUME NEW c \in Contents, NEW d \in Contents, NEW S
    PROVE  /\ [f \in File |-> IF f \in S THEN c[f] ELSE d[f]] \in Contents
           /\ [f \in File |-> IF f \in S THEN c[f] ELSE 0] \in Contents
<1> DEFINE m == [f \in File |-> IF f \in S THEN c[f] ELSE d[f]]
           n == [f \in File |-> IF f \in S THEN c[f] ELSE 0]
<1>1. m \in [File -> Nat] /\ n \in [File -> Nat]
  BY ContentsAre
<1>2. \A f \in File : m[f] \in Versions[f] \cup {0} /\ n[f] \in Versions[f] \cup {0}
  BY ContentsAre
<1> QED
  BY <1>1, <1>2, ContentsAre

LEMMA HashedType == TypeOK => Hashed \in Contents
  BY ContentsAre DEF TypeOK, Hashed

LEMMA IndexAre ==
    /\ \A i \in Index : /\ i.incs \in Nat /\ i.due \in BOOLEAN
                        /\ AutoOrFull => i.incs <= Cap
                        /\ [i EXCEPT !.due = TRUE] \in Index
                        /\ [i EXCEPT !.due = TRUE].incs = i.incs
    /\ \A b \in BOOLEAN : [incs |-> 0, due |-> b] \in Index
    /\ \A n \in Nat, b \in BOOLEAN :
         (AutoOrFull => n <= Cap) => [incs |-> n, due |-> b] \in Index
<1>1. Cap \in Nat /\ 0 \in 0..Cap
  BY Consts
<1>2. CASE AutoOrFull
  <2>1. Index = [incs : 0..Cap, due : BOOLEAN]
    BY <1>2 DEF Index, AutoOrFull
  <2>2. \A i \in Index : i.incs \in 0..Cap /\ i.due \in BOOLEAN
                          /\ [i EXCEPT !.due = TRUE] \in Index
                          /\ [i EXCEPT !.due = TRUE].incs = i.incs
    BY <2>1
  <2>3. \A n \in 0..Cap, b \in BOOLEAN : [incs |-> n, due |-> b] \in Index
    BY <2>1
  <2>4. /\ \A n \in 0..Cap : n \in Nat /\ n <= Cap
        /\ \A n \in Nat : n <= Cap => n \in 0..Cap
    BY <1>1
  <2> QED
    BY <1>1, <1>2, <2>2, <2>3, <2>4
<1>3. CASE ~AutoOrFull
  <2>1. Index = [incs : Nat, due : BOOLEAN]
    BY <1>3 DEF Index, AutoOrFull
  <2> QED
    BY <1>3, <2>1
<1> QED
  BY <1>2, <1>3

LEMMA Selected ==
    ASSUME NEW m
    PROVE  /\ SelectMode(m) \in {"full", "incremental", "noop"}
           /\ SelectMode("full") = "full"
           /\ index = None => SelectMode(m) = "full"
           /\ m = "auto" /\ SelectMode(m) # "full" =>
                 /\ ~(index.incs >= Cap)
                 /\ Changed \cap Manifests = {} /\ Added = {}
                 /\ SelectMode(m) = "noop" <=> Changed = {}
  BY DEF SelectMode

(* When no incremental scan is asked for, one that is not full was chosen.  *)
LEMMA ChosenByAuto ==
    ASSUME AutoOrFull, NEW m \in Modes \cup {"full"}, SelectMode(m) # "full"
    PROVE  m = "auto"
<1>1. m # "full"
  BY Selected
<1>2. m \in {"auto", "full", "incremental"} /\ m # "incremental"
  BY <1>1, Consts DEF AutoOrFull
<1> QED
  BY <1>1, <1>2

LEMMA NewTypes ==
    /\ NoGraph \in [comps : SUBSET File, conns : Conns] /\ NoConns \in Conns
    /\ \A v \in Contents, S \in SUBSET File, T \in SUBSET File :
         [comps |-> T, conns |-> [read |-> v, edges |-> Edges(S, T)]]
            \in [comps : SUBSET File, conns : Conns]
  BY ContentsAre DEF NoGraph, NoConns, Conns, Edges

LEMMA Unchanged ==
    UNCHANGED vars =>
        UNCHANGED <<disk, hashes, index, comps, conns, paired, rdeps, pc, mode,
                    left, read, walk, new, prior, stopped, since, blame>>
  BY DEF vars, storeVars, scanVars, histVars

-----------------------------------------------------------------------------
LEMMA StoreBegins == Init => StoreIInv
<1> SUFFICES ASSUME Init PROVE StoreIInv
  OBVIOUS
<1> USE DEF Init
<1>1. TypeOK
  BY ContentsAre, NewTypes DEF TypeOK, Points
<1>2. Control
  BY DEF Control
<1>3. CapKept
  BY DEF CapKept, Counted
<1>4. Sources /\ Stored
  BY DEF Sources, Stored, Sourced, NoConns, NoGraph, Made, Writing, Closed
<1>5. GraphKept
  BY DEF GraphKept, MustBuild, SelectMode, NotRestored, Walks, Analysed, Made, Writing, Rests
<1> QED
  BY <1>1, <1>2, <1>3, <1>4, <1>5 DEF StoreIInv

-----------------------------------------------------------------------------
(* Types. *)

LEMMA DetectTypes ==
    ASSUME TypeOK, NEW m, Detect(m)
    PROVE  /\ read' \in Contents /\ prior' \in Index \cup {None}
           /\ mode' \in {"full", "incremental", "noop"} /\ walk' \in SUBSET File
           /\ left' \in SUBSET {"index", "comps", "conns"} /\ pc' \in Points
           /\ new' \in [comps : SUBSET File, conns : Conns]
           /\ stopped' \in BOOLEAN /\ since' \in Nat
           /\ blame' \in SUBSET {"late", "unread", "cut", "restored", "uncounted"}
<1> USE Selected DEF TypeOK, Detect
<1>1. read' \in Contents /\ prior' \in Index \cup {None}
  OBVIOUS
<1>2. mode' \in {"full", "incremental", "noop"} /\ pc' \in Points
  BY DEF Points
<1>3. walk' \in SUBSET File /\ left' \in SUBSET {"index", "comps", "conns"}
  BY DEF Changed
<1>4. new' \in [comps : SUBSET File, conns : Conns]
  BY NewTypes
<1>5. /\ stopped' \in BOOLEAN /\ since' \in Nat
      /\ blame' \in SUBSET {"late", "unread", "cut", "restored", "uncounted"}
  OBVIOUS
<1> QED
  BY <1>1, <1>2, <1>3, <1>4, <1>5

LEMMA MergedTypes ==
    ASSUME TypeOK
    PROVE  Merged \in [comps : SUBSET File, conns : Conns]
<1>0. new.conns.read \in Contents /\ conns.read \in Contents
  BY DEF TypeOK, Conns
<1>1. [f \in File |-> IF f \in walk THEN new.conns.read[f] ELSE conns.read[f]]
         \in Contents
  BY <1>0, MixedContents
<1> QED
  BY <1>1 DEF TypeOK, Merged, Conns

LEMMA StepTypes ==
    ASSUME TypeOK, Control, Scan \/ Stop \/ Due \/ \E f \in File : Edit(f)
    PROVE  TypeOK'
<1> USE DEF storeVars, scanVars, histVars
<1>1. CASE Begin
  <2>1. PICK m \in Modes : Detect(m)
    BY <1>1 DEF Begin
  <2> QED
    BY <1>1, <2>1, DetectTypes DEF Begin, TypeOK
<1>2. CASE Clear
  BY <1>2, NewTypes DEF Clear, TypeOK, Points
<1>3. CASE Analyse
  <2>0. Readable \in SUBSET File /\ Found \in SUBSET File
    BY DEF Readable, Found
  <2>1. PICK there \in SUBSET Readable, nodes \in {Found, {}} :
           /\ read' = [f \in File |-> IF f \in there THEN disk[f] ELSE read[f]]
           /\ new' = [comps |-> nodes,
                      conns |-> [read  |-> [f \in File |->
                                             IF f \in there THEN disk[f] ELSE 0],
                                 edges |-> Edges(there, Found)]]
    BY <1>3 DEF Analyse
  <2>2. read' \in Contents
    <3>1. disk \in Contents /\ read \in Contents
      BY DEF TypeOK
    <3>2. [f \in File |-> IF f \in there THEN disk[f] ELSE read[f]] \in Contents
      BY <3>1, MixedContents
    <3> QED
      BY <2>1, <3>2
  <2>3. new' \in [comps : SUBSET File, conns : Conns]
    <3>0. disk \in Contents /\ read \in Contents
      BY DEF TypeOK
    <3>1. [f \in File |-> IF f \in there THEN disk[f] ELSE 0] \in Contents
      BY <3>0, MixedContents
    <3>2. there \in SUBSET File /\ nodes \in SUBSET File
      BY <2>0
    <3> DEFINE v == [f \in File |-> IF f \in there THEN disk[f] ELSE 0]
    <3> HIDE DEF v
    <3>3. [comps |-> nodes, conns |-> [read |-> v, edges |-> Edges(there, Found)]]
             \in [comps : SUBSET File, conns : Conns]
      BY <2>0, <3>1, <3>2, NewTypes DEF v
    <3> QED
      BY <2>1, <3>3 DEF v
  <2>4. /\ pc' \in Points /\ walk' \in SUBSET File
        /\ blame' \in SUBSET {"late", "unread", "cut", "restored", "uncounted"}
    BY <1>3 DEF Analyse, TypeOK, Points
  <2> QED
    BY <1>3, <2>2, <2>3, <2>4 DEF Analyse, TypeOK
<1>4. CASE Merge
  <2>1. CASE Integrity
    BY <1>4, <2>1, MergedTypes DEF Merge, TypeOK, Points
  <2>2. CASE ~Integrity
    BY <1>4, <2>2, DetectTypes DEF Merge, TypeOK
  <2> QED
    BY <2>1, <2>2
<1>5. CASE WriteIndex
  BY <1>5, IndexAre DEF WriteIndex, Go, TypeOK, Points
<1>6. CASE WriteReverseDeps
  BY <1>6 DEF WriteReverseDeps, Go, TypeOK, Points, Conns
<1>7. CASE Annotate
  <2>1. index' = None \/ index' \in Index
    <3>1. CASE UNCHANGED index
      BY <3>1 DEF TypeOK
    <3>2. ASSUME NEW breach \in BOOLEAN,
                 index' = [incs |-> IF mode = "full" THEN 0 ELSE prior.incs + 1,
                           due  |-> breach]
          PROVE  index' \in Index
      <4>1. mode # "full" => prior \in Index /\ (AutoOrFull => prior.incs < Cap)
        BY <1>7 DEF Annotate, TypeOK, Control
      <4>2. mode # "full" => prior.incs \in Nat /\ Cap \in Nat
        BY <4>1, IndexAre, Consts
      <4> QED
        BY <3>2, <4>1, <4>2, IndexAre
    <3> QED
      BY <1>7, <3>1, <3>2 DEF Annotate
  <2>2. blame' \in SUBSET {"late", "unread", "cut", "restored", "uncounted"}
    BY <1>7 DEF Annotate, TypeOK
  <2>3. since' \in Nat
    <3>1. since' \in {0, since + 1}
      BY <1>7 DEF Annotate, Count
    <3> QED
      BY <3>1 DEF TypeOK
  <2> QED
    BY <1>7, <2>1, <2>2, <2>3 DEF Annotate, Go, TypeOK, Points
<1>8. CASE Truncate
  BY <1>8, NewTypes DEF Truncate, Go, TypeOK, Points
<1>9. CASE Fill
  BY <1>9 DEF Fill, Go, TypeOK, Points
<1>10. CASE SaveHashes
  <2>1. hashes' \in Contents
    BY <1>10, MixedContents DEF SaveHashes, TypeOK
  <2> QED
    BY <1>10, <2>1, ContentsAre, NewTypes DEF SaveHashes, TypeOK, Points
<1>11. CASE Stop
  BY <1>11, ContentsAre, NewTypes DEF Stop, TypeOK, Points
<1>12. CASE Due
  BY <1>12, IndexAre DEF Due, TypeOK
<1>13. ASSUME NEW f \in File, Edit(f) PROVE TypeOK'
  <2>1. disk' \in Contents
    <3>1. PICK v \in (Versions[f] \cup {0}) \ {disk[f]} : disk' = [disk EXCEPT ![f] = v]
      BY <1>13 DEF Edit
    <3>2. v \in Nat /\ disk \in [File -> Nat] /\ \A g \in File : disk[g] \in Versions[g] \cup {0}
      BY <3>1, Consts, ContentsAre DEF TypeOK
    <3> QED
      BY <3>1, <3>2, ContentsAre
  <2> QED
    BY <1>13, <2>1 DEF Edit, TypeOK
<1> QED
  BY <1>1, <1>2, <1>3, <1>4, <1>5, <1>6, <1>7, <1>8, <1>9, <1>10, <1>11, <1>12,
     <1>13 DEF Scan

-----------------------------------------------------------------------------
(* Where the scan is, and how many there were. *)

LEMMA IndexBounds ==
    TypeOK => /\ Cap \in Nat /\ since \in Nat
              /\ index # None => index \in Index /\ index.incs \in Nat
              /\ prior # None => prior \in Index /\ prior.incs \in Nat
  BY Consts, IndexAre DEF TypeOK

LEMMA DetectControl ==
    ASSUME TypeOK, NEW m \in Modes \cup {"full"}, Detect(m)
    PROVE  Control'
<1> USE Selected DEF Detect
<1>1. /\ mode' = SelectMode(m) /\ prior' = IF mode' = "full" THEN None ELSE index
      /\ walk' = File \/ mode' # "full"
      /\ pc' = CASE mode' = "full" -> "clear"
                 [] mode' = "noop" -> "hash"
                 [] OTHER          -> "analyse"
  OBVIOUS
<1>2. mode' # "full" => prior' = index /\ index # None
  BY <1>1
<1>3. ASSUME AutoOrFull, mode' = "incremental" PROVE prior'.incs < Cap
  <2>1. m = "auto"
    BY <1>1, <1>3, ChosenByAuto
  <2>2. ~(index.incs >= Cap) /\ prior' = index /\ index # None
    BY <1>1, <1>2, <1>3, <2>1
  <2> QED
    BY <2>2, IndexBounds
<1>4. mode' \in {"full", "incremental", "noop"}
  BY <1>1
<1> QED
  BY <1>1, <1>2, <1>3, <1>4 DEF Control

LEMMA StepControl ==
    ASSUME TypeOK, Control, Scan \/ Stop \/ Due \/ \E f \in File : Edit(f)
    PROVE  Control'
<1> USE DEF storeVars, scanVars, histVars
<1>1. CASE Begin
  <2>1. PICK m \in Modes : Detect(m)
    BY <1>1 DEF Begin
  <2> QED
    BY <2>1, DetectControl
<1>2. CASE Clear
  <2>1. pc = "clear" /\ pc' \in {"clear", "analyse"} /\ UNCHANGED <<mode, walk, prior>>
    BY <1>2 DEF Clear
  <2> QED
    BY <2>1 DEF Control
<1>3. CASE Analyse
  <2>1. pc = "analyse" /\ pc' = IF mode = "full" THEN "index" ELSE "merge"
    BY <1>3 DEF Analyse
  <2>2. UNCHANGED <<mode, prior>> /\ mode \in {"full", "incremental"}
    BY <1>3, <2>1 DEF Analyse, Control, TypeOK
  <2> QED
    BY <2>1, <2>2 DEF Control
<1>4. CASE Merge
  <2>1. CASE Integrity
    BY <1>4, <2>1 DEF Merge, Control
  <2>2. CASE ~Integrity
    BY <1>4, <2>2, DetectControl DEF Merge
  <2> QED
    BY <2>1, <2>2
<1>5. CASE WriteIndex
  BY <1>5 DEF WriteIndex, Go, Control
<1>6. CASE WriteReverseDeps
  BY <1>6 DEF WriteReverseDeps, Go, Control
<1>7. CASE Annotate
  BY <1>7 DEF Annotate, Go, Count, Control
<1>8. CASE Truncate
  BY <1>8 DEF Truncate, Go, Control
<1>9. CASE Fill
  BY <1>9 DEF Fill, Go, Control
<1>10. CASE SaveHashes
  BY <1>10 DEF SaveHashes, Control
<1>11. CASE Stop
  BY <1>11 DEF Stop, Control
<1>12. CASE Due
  BY <1>12 DEF Due, Control
<1>13. ASSUME NEW f \in File, Edit(f) PROVE Control'
  BY <1>13 DEF Edit, Control
<1> QED
  BY <1>1, <1>2, <1>3, <1>4, <1>5, <1>6, <1>7, <1>8, <1>9, <1>10, <1>11, <1>12,
     <1>13 DEF Scan

LEMMA DetectCounts ==
    ASSUME TypeOK, NEW m, Detect(m), UNCHANGED index,
           pc = "idle" \/ m = "full", pc = "idle" => CapKept
    PROVE  CapKept'
<1> SUFFICES ASSUME AutoOrFull, "uncounted" \notin blame' PROVE Counted'
  BY DEF CapKept
<1> USE DEF Detect, Counted, Counting
<1>1. CASE SelectMode(m) = "full"
  BY <1>1, IndexBounds
<1>2. CASE SelectMode(m) # "full"
  <2>1. pc = "idle" /\ blame' = blame /\ since' = since /\ prior' = index
        /\ mode' \in {"incremental", "noop"} /\ pc' \in {"hash", "analyse"}
    BY <1>2, Selected
  <2>2. index # None
    BY <1>2, Selected
  <2>3. since <= index.incs
    BY <2>1, <2>2 DEF CapKept
  <2> QED
    BY <2>1, <2>2, <2>3
<1> QED
  BY <1>1, <1>2

LEMMA StepCounts ==
    ASSUME TypeOK, Control, CapKept, Scan \/ Stop \/ Due \/ \E f \in File : Edit(f)
    PROVE  CapKept'
<1> USE IndexBounds DEF storeVars, scanVars, histVars
<1>1. CASE Begin
  BY <1>1, DetectCounts DEF Begin, storeVars
<1>2. CASE Clear
  BY <1>2 DEF Clear, CapKept, Counted, Counting, Control
<1>3. CASE Analyse
  BY <1>3 DEF Analyse, CapKept, Counted, Counting, Control
<1>4. CASE Merge
  <2>1. CASE Integrity
    BY <1>4, <2>1 DEF Merge, CapKept, Counted, Counting, Control
  <2>2. CASE ~Integrity
    BY <1>4, <2>2, DetectCounts DEF Merge, storeVars
  <2> QED
    BY <2>1, <2>2
<1>5. CASE WriteIndex
  <2>1. index' # None
    BY <1>5, Consts, IndexAre DEF WriteIndex
  <2> QED
    BY <1>5, <2>1 DEF WriteIndex, Go, CapKept, Counted, Counting, Control
<1>6. CASE WriteReverseDeps
  BY <1>6 DEF WriteReverseDeps, Go, CapKept, Counted, Counting, Control
<1>7. CASE Annotate
  <2> SUFFICES ASSUME AutoOrFull, "uncounted" \notin blame' PROVE Counted'
    BY DEF CapKept
  <2>1. PICK breach \in BOOLEAN :
          /\ index' = [incs |-> IF mode = "full" THEN 0 ELSE prior.incs + 1,
                       due  |-> breach]
          /\ UNCHANGED blame
    BY <1>7 DEF Annotate
  <2>2. /\ pc = "annotate" /\ pc' = "comps" /\ UNCHANGED mode
        /\ since' = IF mode = "full" THEN 0 ELSE since + 1
    BY <1>7, <2>1 DEF Annotate, Count, Go
  <2>3. mode \in {"full", "incremental"}
    BY <2>2 DEF Control, TypeOK
  <2>4. mode = "incremental" => since <= prior.incs /\ prior # None
    BY <2>1, <2>2 DEF CapKept, Counted, Control
  <2>5. index'.incs = IF mode = "full" THEN 0 ELSE prior.incs + 1
    BY <2>1
  <2>6. index' # None
    <3>1. index' \in Index
      <4>1. CASE mode = "full"
        BY <2>1, <4>1, IndexAre
      <4>2. CASE mode = "incremental"
        <5>1. prior.incs + 1 \in Nat /\ (AutoOrFull => prior.incs + 1 <= Cap)
          BY <2>4, <4>2 DEF Control
        <5> QED
          BY <2>1, <4>2, <5>1, IndexAre
      <4> QED
        BY <2>3, <4>1, <4>2
    <3> QED
      BY <3>1, Consts
  <2>7. since' <= index'.incs /\ (mode = "full" => since' = 0)
    BY <2>2, <2>3, <2>4, <2>5
  <2> QED
    BY <2>2, <2>6, <2>7 DEF Counted, Counting
<1>8. CASE Truncate
  BY <1>8 DEF Truncate, Go, CapKept, Counted, Counting, Control
<1>9. CASE Fill
  BY <1>9 DEF Fill, Go, CapKept, Counted, Counting, Control
<1>10. CASE SaveHashes
  BY <1>10 DEF SaveHashes, CapKept, Counted, Counting, Control
<1>11. CASE Stop
  BY <1>11 DEF Stop, CapKept, Counted, Counting, Control
<1>12. CASE Due
  <2>1. index # None /\ index'.incs = index.incs /\ index' # None
    BY <1>12, IndexBounds, IndexAre, Consts DEF Due
  <2> QED
    BY <1>12, <2>1 DEF Due, CapKept, Counted, Counting
<1>13. ASSUME NEW f \in File, Edit(f) PROVE CapKept'
  BY <1>13 DEF Edit, CapKept, Counted, Counting, Control
<1> QED
  BY <1>1, <1>2, <1>3, <1>4, <1>5, <1>6, <1>7, <1>8, <1>9, <1>10, <1>11, <1>12,
     <1>13 DEF Scan

-----------------------------------------------------------------------------
(* Which connections there are. *)

LEMMA EdgesAre ==
    ASSUME NEW S, NEW T
    PROVE  \A e \in Edges(S, T) : /\ e \in Imports /\ e[1] \in S /\ e[2] \in T
                                  /\ e[1] \in File /\ e[2] \in File
  BY Consts DEF Edges

LEMMA EdgeEnds ==
    TypeOK => /\ \A e \in conns.edges \cup new.conns.edges : e[1] \in File /\ e[2] \in File
              /\ new.comps \subseteq File /\ comps \subseteq File
              /\ conns.edges \subseteq Imports /\ new.conns.edges \subseteq Imports
  BY Consts DEF TypeOK, Conns

LEMMA NoEdges ==
    /\ NoGraph.comps = {} /\ NoGraph.conns = NoConns
    /\ NoConns.edges = {} /\ NoConns.read = Absent
    /\ Sourced(NoConns) /\ Closed(NoGraph.comps, NoConns.edges)
  BY DEF NoGraph, NoConns, Sourced, Closed

LEMMA StepSources ==
    ASSUME TypeOK, Control, Sources, Scan \/ Stop \/ Due \/ \E f \in File : Edit(f)
    PROVE  Sources'
<1> USE NoEdges DEF storeVars, scanVars, histVars
<1>1. CASE Begin
  <2>1. new' = NoGraph /\ pc' \in {"clear", "hash", "analyse"} /\ UNCHANGED conns
        /\ (pc' = "hash" => mode' = "noop")
    BY <1>1, Selected DEF Begin, Detect
  <2> QED
    BY <2>1 DEF Sources, Sourced, Made, Writing
<1>2. CASE Clear
  <2>1. /\ pc' \in {"clear", "analyse"} /\ UNCHANGED <<new, walk>>
        /\ conns' \in {conns, NoConns}
    BY <1>2 DEF Clear
  <2> QED
    BY <2>1 DEF Sources, Sourced, Made, Writing
<1>3. CASE Analyse
  <2>1. PICK there \in SUBSET Readable, nodes \in {Found, {}} :
           /\ nodes = Found \/ there = {}
           /\ new' = [comps |-> nodes,
                      conns |-> [read  |-> [f \in File |->
                                             IF f \in there THEN disk[f] ELSE 0],
                                 edges |-> Edges(there, Found)]]
    BY <1>3 DEF Analyse
  <2> DEFINE v == [f \in File |-> IF f \in there THEN disk[f] ELSE 0]
  <2>2. \A e \in Edges(there, Found) :
           v[e[1]] # 0 /\ e[1] \in walk /\ e[1] \in nodes /\ e[2] \in nodes
    BY <2>1, EdgesAre DEF Readable
  <2>3. /\ new'.comps = nodes /\ new'.conns.edges = Edges(there, Found)
        /\ new'.conns.read = v
    BY <2>1
  <2>4. UNCHANGED conns /\ (pc' = "merge" => walk' = walk)
    BY <1>3 DEF Analyse
  <2> HIDE DEF v
  <2> QED
    BY <2>2, <2>3, <2>4 DEF Sources, Sourced, Closed
<1>4. CASE Merge
  <2>1. CASE Integrity
    <3>0. pc = "merge" /\ pc' = "index" /\ new' = Merged /\ UNCHANGED conns
      BY <1>4, <2>1 DEF Merge
    <3>1. ASSUME NEW e \in Merged.conns.edges
          PROVE  /\ Merged.conns.read[e[1]] # 0
                 /\ e[1] \in Merged.comps /\ e[2] \in Merged.comps
      <4>0. Merged.conns.read = [f \in File |-> IF f \in walk THEN new.conns.read[f]
                                               ELSE conns.read[f]]
            /\ Merged.comps = new.comps \cup (comps \ walk)
            /\ Merged.conns.edges = new.conns.edges \cup {x \in conns.edges : x[1] \notin walk}
        BY DEF Merged
      <4>1. CASE e \in new.conns.edges
        BY <3>0, <4>0, <4>1, EdgeEnds DEF Sources, Sourced, Closed
      <4>2. CASE e \in conns.edges /\ e[1] \notin walk
        <5>1. e[1] \in File /\ conns.read[e[1]] # 0
          BY <4>2, EdgeEnds DEF Sources, Sourced
        <5>2. e[1] \in comps /\ e[2] \in Merged.comps
          BY <2>1, <4>2, <5>1 DEF Integrity
        <5> QED
          BY <4>0, <4>2, <5>1, <5>2
      <4> QED
        BY <4>0, <4>1, <4>2
    <3> QED
      BY <3>0, <3>1 DEF Sources, Sourced, Closed
  <2>2. CASE ~Integrity
    <3>1. new' = NoGraph /\ pc' = "clear" /\ UNCHANGED conns
      BY <1>4, <2>2, Selected DEF Merge, Detect
    <3> QED
      BY <3>1 DEF Sources, Sourced, Made, Writing
  <2> QED
    BY <2>1, <2>2
<1>5. CASE WriteIndex
  BY <1>5 DEF WriteIndex, Go, Sources, Sourced, Made, Writing
<1>6. CASE WriteReverseDeps
  BY <1>6 DEF WriteReverseDeps, Go, Sources, Sourced, Made, Writing
<1>7. CASE Annotate
  BY <1>7 DEF Annotate, Go, Sources, Sourced, Made, Writing
<1>8. CASE Truncate
  <2>1. /\ pc \in {"comps", "conns"} /\ pc' \in {"compsFill", "connsFill", "hash"}
        /\ UNCHANGED <<new, walk>> /\ conns' \in {conns, NoConns}
    BY <1>8 DEF Truncate, Go
  <2> QED
    BY <2>1 DEF Sources, Sourced, Made, Writing
<1>9. CASE Fill
  <2>1. /\ pc \in {"compsFill", "connsFill"} /\ pc' \in {"conns", "hash"}
        /\ UNCHANGED <<new, walk>> /\ conns' \in {conns, new.conns}
    BY <1>9 DEF Fill, Go
  <2> QED
    BY <2>1 DEF Sources, Sourced, Made, Writing
<1>10. CASE SaveHashes
  BY <1>10 DEF SaveHashes, Sources, Sourced, Made, Writing
<1>11. CASE Stop
  BY <1>11 DEF Stop, Sources, Sourced, Made, Writing
<1>12. CASE Due
  BY <1>12 DEF Due, Sources, Sourced, Made, Writing
<1>13. ASSUME NEW f \in File, Edit(f) PROVE Sources'
  BY <1>13 DEF Edit, Sources, Sourced, Made, Writing
<1> QED
  BY <1>1, <1>2, <1>3, <1>4, <1>5, <1>6, <1>7, <1>8, <1>9, <1>10, <1>11, <1>12,
     <1>13 DEF Scan

LEMMA StepStored ==
    ASSUME TypeOK, Control, Sources, Stored,
           Scan \/ Stop \/ Due \/ \E f \in File : Edit(f)
    PROVE  Stored'
<1> USE DEF storeVars, scanVars, histVars
<1>1. CASE Begin
  <2>1. /\ UNCHANGED <<stopped, comps, conns, paired>> /\ pc = "idle"
        /\ \/ pc' = "hash" /\ mode' = "noop" /\ blame' = blame
           \/ pc' \in {"clear", "analyse"} /\ mode' # "noop"
    BY <1>1, Selected DEF Begin, Detect
  <2> QED
    BY <2>1 DEF Stored
<1>2. CASE Clear
  <2>1. pc' \in {"clear", "analyse"} /\ mode' # "noop"
    BY <1>2 DEF Clear, Control
  <2> QED
    BY <2>1 DEF Stored
<1>3. CASE Analyse
  <2>1. pc' \in {"index", "merge"} /\ mode' # "noop"
    BY <1>3 DEF Analyse, Control
  <2> QED
    BY <2>1 DEF Stored
<1>4. CASE Merge
  <2>1. pc' \in {"index", "clear"} /\ mode' # "noop"
    BY <1>4, Selected DEF Merge, Detect, Control
  <2> QED
    BY <2>1 DEF Stored
<1>5. CASE WriteIndex
  <2>1. pc' \in {"rdeps", "annotate", "comps"} /\ mode' # "noop"
    BY <1>5 DEF WriteIndex, Go, Control
  <2> QED
    BY <2>1 DEF Stored
<1>6. CASE WriteReverseDeps
  <2>1. pc' \in {"rdeps", "annotate", "comps"} /\ mode' # "noop"
    BY <1>6 DEF WriteReverseDeps, Go, Control
  <2> QED
    BY <2>1 DEF Stored
<1>7. CASE Annotate
  <2>1. pc' \in {"rdeps", "annotate", "comps"} /\ mode' # "noop"
    BY <1>7 DEF Annotate, Go, Control
  <2> QED
    BY <2>1 DEF Stored
<1>8. CASE Truncate
  <2>1. mode' = mode /\ mode # "noop" /\ new' = new
    BY <1>8 DEF Truncate, Go, Control
  <2>2. CASE "cut" \in blame'
    BY <2>2 DEF Stored
  <2>3. CASE "cut" \notin blame'
    <3>1. /\ blame' = blame
          /\ \/ pc' = "compsFill"
             \/ pc = "conns" /\ pc' = "connsFill" /\ comps' = comps
      BY <1>8, <2>3 DEF Truncate, Go
    <3> QED
      BY <2>1, <3>1 DEF Stored
  <2> QED
    BY <2>2, <2>3
<1>9. CASE Fill
  <2>1. mode' = mode /\ mode # "noop" /\ new' = new
    BY <1>9 DEF Fill, Go, Control
  <2>2. CASE "cut" \in blame'
    BY <2>2 DEF Stored
  <2>3. CASE "cut" \notin blame'
    <3>1. /\ blame' = blame
          /\ \/ pc' = "conns" /\ comps' = new.comps
             \/ /\ pc = "connsFill" /\ pc' = "hash" /\ comps' = comps
                /\ conns' = new.conns /\ paired'
      BY <1>9, <2>3 DEF Fill, Go
    <3> QED
      BY <2>1, <3>1 DEF Stored
  <2> QED
    BY <2>2, <2>3
<1>10. CASE SaveHashes
  BY <1>10 DEF SaveHashes, Stored, Sources, Made
<1>11. CASE Stop
  BY <1>11 DEF Stop, Stored
<1>12. CASE Due
  BY <1>12 DEF Due, Stored
<1>13. ASSUME NEW f \in File, Edit(f) PROVE Stored'
  <2>1. blame \subseteq blame'
    BY <1>13 DEF Edit
  <2> QED
    BY <1>13, <2>1 DEF Edit, Stored
<1> QED
  BY <1>1, <1>2, <1>3, <1>4, <1>5, <1>6, <1>7, <1>8, <1>9, <1>10, <1>11, <1>12,
     <1>13 DEF Scan

-----------------------------------------------------------------------------
(* Graphs that are right about part of the files. *)

LEMMA PartlyShrinks ==
    ASSUME NEW nodes, NEW links, NEW v \in Contents, NEW w \in Contents,
           NEW h \in Contents, Partly(nodes, links, v, h), Apart(v, w, h)
    PROVE  Partly(nodes, links, w, h)
<1>1. Same(w, h) \subseteq Same(v, h) /\ \A f \in Same(w, h) : w[f] = v[f]
  BY DEF Same, Apart
<1>2. There(w) \cap There(h) \subseteq There(v) \cap There(h)
  BY DEF There, Apart
<1>3. \A f \in Same(w, h) : links.read[f] = w[f] /\ (f \in nodes => w[f] # 0)
  BY <1>1 DEF Partly
<1>4. ASSUME NEW e \in Edges(Same(w, h) \cap There(w), There(w) \cap There(h))
      PROVE  e \in links.edges
  <2>1. e \in Edges(Same(v, h) \cap There(v), There(v) \cap There(h))
    BY <1>1, <1>2 DEF Edges, There
  <2> QED
    BY <2>1 DEF Partly
<1>5. \A e \in links.edges : e[2] \in Same(w, h) => w[e[2]] # 0
  BY <1>1 DEF Partly
<1>6. ASSUME Same(w, h) = File PROVE There(w) \subseteq nodes
  <2>1. Same(v, h) = File /\ \A f \in File : w[f] = v[f]
    BY <1>1, <1>6 DEF Same
  <2> QED
    BY <2>1 DEF Partly, There
<1> QED
  BY <1>3, <1>4, <1>5, <1>6 DEF Partly

LEMMA GraphIs ==
    ASSUME NEW v
    PROVE  /\ GraphOf(v).comps = There(v)
           /\ GraphOf(v).conns.read = v
           /\ GraphOf(v).conns.edges = Edges(There(v), There(v))
  BY DEF GraphOf

LEMMA WholeIsPartly ==
    ASSUME NEW v \in Contents, NEW h \in Contents
    PROVE  Partly(GraphOf(v).comps, GraphOf(v).conns, v, h)
<1>1. \A f \in There(v) : v[f] # 0
  BY DEF There
<1>2. \A e \in Edges(There(v), There(v)) : v[e[2]] # 0
  BY <1>1, EdgesAre
<1>3. ASSUME NEW e \in Edges(Same(v, h) \cap There(v), There(v) \cap There(h))
      PROVE  e \in Edges(There(v), There(v))
  BY DEF Edges
<1> QED
  BY <1>1, <1>2, <1>3, GraphIs DEF Partly

(* A graph of what was hashed is right about all that is as it was. *)
LEMMA HashedIsPartly ==
    ASSUME NEW v \in Contents, NEW h \in Contents
    PROVE  Partly(GraphOf(h).comps, GraphOf(h).conns, v, h)
<1>1. \A f \in Same(v, h) : v[f] = h[f] /\ (f \in There(h) => v[f] # 0)
  BY DEF Same, There
<1>2. ASSUME NEW e \in Edges(Same(v, h) \cap There(v), There(v) \cap There(h))
      PROVE  e \in Edges(There(h), There(h))
  BY DEF Edges, Same, There
<1>3. \A e \in Edges(There(h), There(h)) : e[2] \in Same(v, h) => v[e[2]] # 0
  BY <1>1, EdgesAre
<1>4. Same(v, h) = File => There(v) \subseteq There(h)
  BY <1>1 DEF There
<1> QED
  BY <1>1, <1>2, <1>3, <1>4, GraphIs DEF Partly

(* If all is as it was hashed, a graph that is partly right is right.       *)
LEMMA PartlyIsWhole ==
    ASSUME TypeOK, Sourced(conns), Partly(comps, conns, disk, Hashed),
           \A f \in File : disk[f] = Hashed[f]
    PROVE  Current
<1>1. Same(disk, Hashed) = File
  BY DEF Same
<1>2. comps = Present
  BY <1>1 DEF Partly, There, Present, TypeOK
<1>3. conns.read = disk
  <2>1. conns.read \in [File -> Nat] /\ disk \in [File -> Nat]
    BY ContentsAre DEF TypeOK, Conns
  <2>2. \A f \in File : conns.read[f] = disk[f]
    BY <1>1 DEF Partly
  <2> QED
    BY <2>1, <2>2
<1>4. ASSUME NEW e \in conns.edges PROVE e \in Edges(Present, Present)
  <2>1. e \in Imports /\ e[1] \in File /\ e[2] \in File
    BY EdgeEnds
  <2>2. disk[e[1]] # 0 /\ disk[e[2]] # 0
    BY <1>1, <1>3, <2>1 DEF Partly, Sourced
  <2> QED
    BY <2>1, <2>2 DEF Edges, Present
<1>5. ASSUME NEW e \in Edges(Present, Present) PROVE e \in conns.edges
  <2>1. e \in Edges(Same(disk, Hashed) \cap There(disk), There(disk) \cap There(Hashed))
    BY <1>1 DEF Edges, Present, There
  <2> QED
    BY <2>1 DEF Partly
<1> QED
  BY <1>2, <1>3, <1>4, <1>5 DEF Current

-----------------------------------------------------------------------------
(* What auto makes of the changes. *)

LEMMA Choice ==
    ASSUME TypeOK
    PROVE  /\ index = None => MustBuild
           /\ index # None /\ index.due => MustBuild
           /\ ~MustBuild =>
                 /\ index # None /\ Added = {}
                 /\ SelectMode("auto") = "noop" => \A f \in File : disk[f] = Hashed[f]
                 /\ SelectMode("auto") = "incremental" => Same(disk, Hashed) # File
                 /\ There(disk) \subseteq There(Hashed)
<1>1. \A f \in File : f \notin Changed <=> disk[f] = Hashed[f]
  BY DEF Changed
<1>2. Changed = {} <=> Same(disk, Hashed) = File
  BY <1>1 DEF Same, Changed
<1>3. ASSUME Added = {} PROVE There(disk) \subseteq There(Hashed)
  BY <1>1, <1>3 DEF Added, There
<1>4. /\ index = None => MustBuild
      /\ index # None /\ index.due => MustBuild
      /\ ~MustBuild => /\ index # None /\ Added = {}
                       /\ SelectMode("auto") = "noop" <=> Changed = {}
  BY Selected DEF MustBuild, SelectMode
<1>5. SelectMode("auto") = "incremental" => SelectMode("auto") # "noop"
  OBVIOUS
<1> QED
  BY <1>1, <1>2, <1>3, <1>4, <1>5

(* More changes do not make a full scan unnecessary. *)
LEMMA StillMustBuild ==
    ASSUME MustBuild, UNCHANGED <<index, hashes>>, Changed \subseteq Changed'
    PROVE  MustBuild'
<1>1. Hashed' = Hashed
  BY DEF Hashed
<1>2. Added \subseteq Added'
  BY <1>1 DEF Added
<1> QED
  BY <1>2 DEF MustBuild, SelectMode

LEMMA SameChoice ==
    ASSUME UNCHANGED <<index, disk>>, Hashed' = Hashed
    PROVE  MustBuild' = MustBuild
<1>1. Changed' = Changed /\ Added' = Added
  BY DEF Changed, Added
<1> QED
  BY <1>1 DEF MustBuild, SelectMode

-----------------------------------------------------------------------------
(* The graph, between scans and through them. *)

GraphRight == NotRestored /\ Walks /\ Analysed /\ Rests

LEMMA HashedStays == UNCHANGED hashes => Hashed' = Hashed
  BY DEF Hashed

LEMMA BuildsAnew ==
    ASSUME NEW m, SelectMode(m) = "full", Detect(m), UNCHANGED <<disk, storeVars>>
    PROVE  GraphRight'
<1>1. /\ pc' = "clear" /\ mode' = "full" /\ read' = disk /\ disk' = disk
      /\ Hashed' = Hashed
  BY HashedStays DEF Detect, storeVars
<1>2. NotRestored'
  BY <1>1 DEF NotRestored, Apart
<1>3. Walks' /\ Rests'
  BY <1>1 DEF Walks, Rests, AtRest
<1>4. Analysed'
  BY <1>1 DEF Analysed, Made, Writing
<1> QED
  BY <1>2, <1>3, <1>4 DEF GraphRight

(* A scan that is not full starts from a graph that is right about all that *)
(* has not changed.                                                         *)
LEMMA BeginsRight ==
    ASSUME TypeOK, AutoOrFull, GraphRight, pc = "idle", NEW m \in Modes, Detect(m),
           SelectMode(m) # "full", UNCHANGED <<disk, storeVars>>
    PROVE  GraphRight'
<1>0. /\ disk \in Contents /\ Hashed \in Contents
      /\ disk \in [File -> Nat] /\ Hashed \in [File -> Nat]
  BY HashedType, ContentsAre DEF TypeOK
<1>1. m = "auto" /\ ~MustBuild /\ SelectMode("auto") \in {"incremental", "noop"}
  BY ChosenByAuto, Selected DEF MustBuild
<1>2. /\ read' = disk /\ disk' = disk /\ Hashed' = Hashed
      /\ UNCHANGED <<comps, conns, index, stopped>>
      /\ mode' = SelectMode("auto")
  BY <1>1, HashedStays DEF Detect, storeVars
<1>3. /\ Partly(comps, conns, disk, Hashed)
      /\ ~stopped => [comps |-> comps, conns |-> conns] = GraphOf(Hashed)
  <2>1. CASE stopped
    BY <1>1, <2>1 DEF GraphRight, Rests, AtRest
  <2>2. CASE ~stopped
    <3>1. [comps |-> comps, conns |-> conns] = GraphOf(Hashed)
      BY <1>1, <2>2, Choice DEF GraphRight, Rests, AtRest
    <3>2. comps = GraphOf(Hashed).comps /\ conns = GraphOf(Hashed).conns
      BY <3>1
    <3> QED
      BY <1>0, <3>1, <3>2, HashedIsPartly
  <2> QED
    BY <2>1, <2>2
<1>4. NotRestored'
  BY <1>2 DEF NotRestored, Apart
<1>5. CASE SelectMode("auto") = "noop"
  <2>1. pc' = "hash" /\ mode' = "noop"
    BY <1>1, <1>5 DEF Detect
  <2>2. read' = Hashed
    BY <1>0, <1>1, <1>2, <1>5, Choice
  <2>3. Rests'
    BY <1>2, <1>3, <2>1, <2>2 DEF Rests, AtRest
  <2> QED
    BY <1>4, <2>1, <2>3 DEF GraphRight, Walks, Analysed, Made, Writing
<1>6. CASE SelectMode("auto") = "incremental"
  <2>1. pc' = "analyse" /\ mode' = "incremental" /\ Changed \subseteq walk'
    BY <1>1, <1>6 DEF Detect
  <2>2. File \ walk' \subseteq Same(disk, Hashed)
    BY <2>1 DEF Same, Changed
  <2>3. There(disk) \subseteq There(Hashed) /\ Same(disk, Hashed) # File
    BY <1>1, <1>6, Choice
  <2>4. Walks'
    BY <1>2, <1>3, <2>1, <2>2, <2>3 DEF Walks
  <2> QED
    BY <1>4, <2>1, <2>4 DEF GraphRight, Analysed, Made, Writing, Rests, AtRest
<1> QED
  BY <1>1, <1>5, <1>6

LEMMA AnalysesRight ==
    ASSUME TypeOK, Control, GraphRight, Analyse, blame' \cap {"late", "unread"} = {}
    PROVE  GraphRight'
<1> DEFINE there == Readable
           v == [f \in File |-> IF f \in there THEN disk[f] ELSE 0]
<1>0. /\ disk \in Contents /\ read \in Contents /\ Hashed \in Contents
      /\ disk \in [File -> Nat] /\ read \in [File -> Nat]
      /\ walk \subseteq File
  BY HashedType, ContentsAre DEF TypeOK
<1>1. /\ pc = "analyse" /\ UNCHANGED <<disk, hashes, comps, conns, mode>>
      /\ Hashed' = Hashed
  BY HashedStays DEF Analyse, storeVars
<1>a. PICK seen \in SUBSET Readable, nodes \in {Found, {}} :
         /\ read' = [f \in File |-> IF f \in seen THEN disk[f] ELSE read[f]]
         /\ new' = [comps |-> nodes,
                    conns |-> [read  |-> [f \in File |->
                                           IF f \in seen THEN disk[f] ELSE 0],
                               edges |-> Edges(seen, Found)]]
         /\ blame' = blame
              \cup (IF Readable = Found \cap walk THEN {} ELSE {"late"})
              \cup (IF seen = Readable /\ nodes = Found THEN {} ELSE {"unread"})
  BY DEF Analyse
<1>b. seen = Readable /\ nodes = Found /\ Readable = Found \cap walk
  BY <1>a
<1>2. there = Found \cap walk
  BY <1>b
<1>3. read' = [f \in File |-> IF f \in there THEN disk[f] ELSE read[f]]
  BY <1>a, <1>b
<1>4. /\ \A f \in there : read'[f] = disk[f] /\ disk[f] # 0 /\ read[f] # 0
      /\ \A f \in File \ there : read'[f] = read[f]
      /\ \A f \in walk \ there : read[f] = 0
  BY <1>0, <1>2, <1>3 DEF Found, Readable
<1>5. There(read') = There(read) /\ Found = There(read)
  BY <1>0, <1>4 DEF There, Found
<1>6. read' \in Contents
  BY <1>0, <1>3, MixedContents
<1>7. /\ new'.comps = Found /\ new'.conns.read = v
      /\ new'.conns.edges = Edges(there, Found)
      /\ new' = [comps |-> Found, conns |-> [read |-> v, edges |-> Edges(there, Found)]]
  BY <1>a, <1>b
<1>m. Apart(read, disk, Hashed)
  BY <1>1 DEF GraphRight, NotRestored
<1>8. NotRestored'
  BY <1>1, <1>4, <1>m DEF NotRestored, Apart
<1>9. Apart(read, read', Hashed)
  BY <1>4, <1>m DEF Apart
<1>10. Walks'
  <2> SUFFICES ASSUME mode = "incremental" PROVE Walks'
    BY <1>1 DEF Walks
  <2>1. /\ There(read) \subseteq There(Hashed) /\ Same(read, Hashed) # File
        /\ File \ walk \subseteq Same(read, Hashed)
        /\ Partly(comps, conns, read, Hashed)
    BY <1>1 DEF GraphRight, Walks
  <2>2. Same(read', Hashed) # File
    BY <1>9, <2>1 DEF Same, Apart
  <2>3. walk' = walk /\ pc' = "merge"
    BY DEF Analyse
  <2>4. File \ walk \subseteq Same(read', Hashed)
    BY <1>2, <1>4, <2>1 DEF Same
  <2>5. Partly(comps, conns, read', Hashed)
    BY <1>0, <1>6, <1>9, <2>1, PartlyShrinks
  <2> QED
    BY <1>1, <1>5, <2>1, <2>2, <2>3, <2>4, <2>5 DEF Walks
<1>11. Analysed'
  <2>1. CASE mode = "full"
    <3>1. walk = File /\ pc' = "index"
      BY <1>1, <2>1 DEF Control, Analyse
    <3>2. there = Found /\ there = There(read')
      BY <1>2, <1>5, <3>1 DEF Found
    <3>3. v = read'
      <4>1. \A f \in File : v[f] = read'[f]
        BY <1>4, <3>1
      <4> QED
        BY <1>3, <4>1
    <3>4. new' = GraphOf(read')
      BY <1>5, <1>7, <3>2, <3>3 DEF GraphOf
    <3> QED
      BY <3>1, <3>4 DEF Analysed
  <2>2. CASE mode # "full"
    <3>1. walk' = walk /\ pc' = "merge"
      BY <2>2 DEF Analyse
    <3>2. v = [f \in File |-> IF f \in walk THEN read'[f] ELSE 0]
      BY <1>2, <1>4
    <3>3. there = There(read') \cap walk
      BY <1>2, <1>5
    <3> QED
      BY <1>5, <1>7, <3>1, <3>2, <3>3 DEF Analysed, Made, Writing
  <2> QED
    BY <2>1, <2>2
<1>12. Rests'
  BY <1>1 DEF Analyse, Rests, AtRest, Control
<1> QED
  BY <1>8, <1>10, <1>11, <1>12 DEF GraphRight

(* A merge that passes its check gives the graph of what was read. *)
LEMMA MergesRight ==
    ASSUME TypeOK, Control, Sources, GraphRight, Merge, Integrity
    PROVE  GraphRight'
<1>0. /\ read \in Contents /\ Hashed \in Contents
      /\ read \in [File -> Nat] /\ walk \subseteq File
      /\ conns.read \in [File -> Nat]
  BY HashedType, ContentsAre DEF TypeOK, Conns
<1>1. /\ pc = "merge" /\ mode = "incremental" /\ pc' = "index" /\ new' = Merged
      /\ UNCHANGED <<disk, hashes, comps, conns, mode, read>> /\ Hashed' = Hashed
  BY HashedStays DEF Merge, Control, storeVars
<1>2. /\ There(read) \subseteq There(Hashed) /\ Same(read, Hashed) # File
      /\ File \ walk \subseteq Same(read, Hashed)
      /\ Partly(comps, conns, read, Hashed)
  BY <1>1 DEF GraphRight, Walks
<1>3. /\ new.comps = There(read)
      /\ new.conns.read = [f \in File |-> IF f \in walk THEN read[f] ELSE 0]
      /\ new.conns.edges = Edges(There(read) \cap walk, There(read))
  BY <1>1 DEF GraphRight, Analysed
<1>4. /\ Merged.comps = new.comps \cup (comps \ walk)
      /\ Merged.conns.read = [f \in File |-> IF f \in walk THEN new.conns.read[f]
                                             ELSE conns.read[f]]
      /\ Merged.conns.edges = new.conns.edges \cup {e \in conns.edges : e[1] \notin walk}
      /\ Merged = [comps |-> Merged.comps,
                   conns |-> [read |-> Merged.conns.read, edges |-> Merged.conns.edges]]
  BY DEF Merged
<1>5. \A f \in File \ walk : conns.read[f] = read[f] /\ (f \in comps => read[f] # 0)
  BY <1>2 DEF Partly
<1>6. Merged.comps = There(read)
  BY <1>3, <1>4, <1>5, EdgeEnds DEF There
<1>7. Merged.conns.read = read
  <2>1. \A f \in File : Merged.conns.read[f] = read[f]
    BY <1>3, <1>4, <1>5
  <2> QED
    BY <1>0, <1>4, <2>1
<1>8. Merged.conns.edges = Edges(There(read), There(read))
  <2>1. ASSUME NEW e \in Edges(There(read), There(read))
        PROVE  e \in Merged.conns.edges
    <3>1. CASE e[1] \in walk
      BY <1>3, <1>4, <3>1 DEF Edges
    <3>2. CASE e[1] \notin walk
      <4>1. e \in Edges(Same(read, Hashed) \cap There(read), There(read) \cap There(Hashed))
        BY <1>2, <3>2, EdgesAre DEF Edges
      <4> QED
        BY <1>2, <1>4, <3>2, <4>1 DEF Partly
    <3> QED
      BY <3>1, <3>2
  <2>2. ASSUME NEW e \in Merged.conns.edges
        PROVE  e \in Edges(There(read), There(read))
    <3>1. CASE e \in new.conns.edges
      BY <1>3, <3>1 DEF Edges
    <3>2. CASE e \in conns.edges /\ e[1] \notin walk
      <4>1. e \in Imports /\ e[1] \in File
        BY <3>2, EdgeEnds
      <4>2. read[e[1]] # 0
        BY <1>5, <3>2, <4>1 DEF Sources, Sourced
      <4>3. e[2] \in There(read)
        BY <1>6, <3>2 DEF Integrity, Merged
      <4> QED
        BY <4>1, <4>2, <4>3 DEF Edges, There
    <3> QED
      BY <1>4, <2>2, <3>1, <3>2
  <2> QED
    BY <2>1, <2>2
<1>9. new' = GraphOf(read')
  BY <1>1, <1>4, <1>6, <1>7, <1>8 DEF GraphOf
<1>10. NotRestored' /\ Walks' /\ Rests'
  BY <1>1, <1>2 DEF GraphRight, NotRestored, Walks, Rests, AtRest
<1> QED
  BY <1>1, <1>9, <1>10 DEF GraphRight, Analysed

(* The other steps. *)
LEMMA ClearsRight ==
    ASSUME Control, GraphRight, Clear
    PROVE  GraphRight'
<1>1. /\ pc = "clear" /\ mode = "full" /\ pc' \in {"clear", "analyse"}
      /\ UNCHANGED <<disk, read, mode>> /\ Hashed' = Hashed
  BY HashedStays DEF Clear, Control
<1>2. NotRestored'
  BY <1>1 DEF GraphRight, NotRestored
<1> QED
  BY <1>1, <1>2 DEF GraphRight, Walks, Analysed, Made, Writing, Rests, AtRest

LEMMA WritesRight ==
    ASSUME Control, GraphRight, WriteIndex \/ WriteReverseDeps \/ Annotate
    PROVE  GraphRight'
<1>1. /\ pc \in {"index", "rdeps", "annotate"} /\ pc' \in {"rdeps", "annotate", "comps"}
      /\ UNCHANGED <<disk, read, mode, new, comps, conns>> /\ Hashed' = Hashed
  BY HashedStays DEF WriteIndex, WriteReverseDeps, Annotate, Go
<1>2. NotRestored' /\ Walks'
  BY <1>1 DEF GraphRight, NotRestored, Walks
<1>3. Analysed'
  BY <1>1 DEF GraphRight, Analysed, Made, Writing
<1>4. Rests'
  BY <1>1 DEF Control, Rests, AtRest
<1> QED
  BY <1>2, <1>3, <1>4 DEF GraphRight

LEMMA StoresRight ==
    ASSUME TypeOK, Control, GraphRight, Truncate \/ Fill, "cut" \notin blame'
    PROVE  GraphRight'
<1>1. /\ UNCHANGED <<disk, read, mode, new>> /\ Hashed' = Hashed
      /\ pc \in {"comps", "compsFill", "conns", "connsFill"}
      /\ pc' \in {"compsFill", "conns", "connsFill", "hash"}
      /\ mode # "noop"
  BY HashedStays DEF Truncate, Fill, Go, Control
<1>2. /\ pc' = "compsFill" => pc = "comps" /\ comps' = {} /\ conns' = conns
      /\ pc' = "conns" => pc = "compsFill" /\ comps' = new.comps /\ conns' = conns
  BY DEF Truncate, Fill, Go
<1>3. NotRestored'
  BY <1>1 DEF GraphRight, NotRestored
<1>4. new = GraphOf(read)
  BY <1>1 DEF GraphRight, Analysed, Made, Writing
<1>5. Analysed' /\ Rests'
  BY <1>1, <1>4 DEF Analysed, Rests, AtRest
<1>6. Walks'
  <2> SUFFICES ASSUME mode = "incremental" PROVE Walks'
    BY <1>1 DEF Walks
  <2>1. There(read) \subseteq There(Hashed) /\ Same(read, Hashed) # File
    BY DEF GraphRight, Walks
  <2>2. pc \in {"comps", "compsFill"} => Partly(comps, conns, read, Hashed)
    BY DEF GraphRight, Walks
  <2>3. CASE pc' = "compsFill"
    <3>1. Partly({}, conns, read, Hashed)
      BY <1>2, <2>1, <2>2, <2>3 DEF Partly
    <3> QED
      BY <1>1, <1>2, <2>1, <2>3, <3>1 DEF Walks
  <2>4. CASE pc' = "conns"
    <3>1. new.comps = There(read)
      BY <1>4, GraphIs
    <3>2. \A g \in There(read) : read[g] # 0
      BY DEF There
    <3>3. Partly(There(read), conns, read, Hashed)
      BY <1>2, <2>2, <2>4, <3>2 DEF Partly
    <3> QED
      BY <1>1, <1>2, <2>1, <2>4, <3>1, <3>3 DEF Walks
  <2>5. CASE pc' \in {"connsFill", "hash"}
    BY <1>1, <2>1, <2>5 DEF Walks
  <2> QED
    BY <1>1, <2>3, <2>4, <2>5
<1> QED
  BY <1>3, <1>5, <1>6 DEF GraphRight

(* Nothing that was read has changed: it is what was read that is hashed.   *)
LEMMA HashesRight ==
    ASSUME TypeOK, Control, Stored, GraphRight, SaveHashes,
           "late" \notin blame', "cut" \notin blame
    PROVE  GraphRight'
<1>0. disk \in [File -> Nat] /\ read \in [File -> Nat] /\ read \in Contents
  BY ContentsAre DEF TypeOK
<1>1. /\ pc = "hash" /\ pc' = "idle" /\ mode' = "full"
      /\ UNCHANGED <<disk, index, comps, conns>>
      /\ stopped' = (stopped /\ mode = "noop")
  BY DEF SaveHashes
<1>2. hashes' = read
  <2>1. hashes' = [f \in File |-> IF f \in Found THEN disk[f] ELSE 0] /\ ~Behind
    BY DEF SaveHashes
  <2>2. \A f \in File : hashes'[f] = read[f]
    BY <2>1 DEF Behind, Found
  <2> QED
    BY <1>0, <2>1, <2>2
<1>3. Hashed' = read
  BY <1>0, <1>2, Consts DEF Hashed
<1>4. NotRestored' /\ Walks' /\ Analysed'
  BY <1>1 DEF NotRestored, Walks, Analysed, Made, Writing
<1>5. CASE mode = "noop"
  <2>0. stopped \in BOOLEAN
    BY DEF TypeOK
  <2>1. Hashed' = Hashed /\ AtRest /\ stopped' = stopped
    BY <1>1, <1>3, <1>5, <2>0 DEF GraphRight, Rests, AtRest
  <2>2. MustBuild' = MustBuild
    BY <1>1, <2>1, SameChoice
  <2>3. Rests'
    BY <1>1, <2>1, <2>2 DEF GraphRight, Rests
  <2> QED
    BY <1>4, <2>3 DEF GraphRight
<1>6. CASE mode # "noop"
  <2>1. comps = new.comps /\ conns = new.conns /\ new = GraphOf(read)
    BY <1>1, <1>6 DEF Stored, GraphRight, Analysed, Made
  <2>2. [comps |-> comps, conns |-> conns] = GraphOf(read)
    BY <2>1 DEF GraphOf
  <2>3. Rests'
    BY <1>1, <1>3, <1>6, <2>2 DEF Rests
  <2> QED
    BY <1>4, <2>3 DEF GraphRight
<1> QED
  BY <1>5, <1>6

LEMMA StopsRight ==
    ASSUME TypeOK, Control, Stored, GraphRight, Stop, "cut" \notin blame'
    PROVE  GraphRight'
<1>0. disk \in Contents /\ read \in Contents /\ Hashed \in Contents
  BY HashedType DEF TypeOK
<1>1. /\ pc # "idle" /\ pc' = "idle" /\ mode' = "full" /\ stopped' = TRUE
      /\ UNCHANGED <<disk, index, hashes, comps, conns>> /\ Hashed' = Hashed
      /\ "cut" \notin blame
      /\ Torn => MustBuild
  BY HashedStays DEF Stop, storeVars, MustBuild
<1>2. MustBuild' = MustBuild
  BY <1>1, SameChoice
<1>3. NotRestored' /\ Walks' /\ Analysed'
  BY <1>1 DEF NotRestored, Walks, Analysed, Made, Writing
<1>4. Apart(read, disk, Hashed)
  BY <1>1 DEF GraphRight, NotRestored
<1>5. MustBuild \/ Partly(comps, conns, disk, Hashed)
  <2> SUFFICES ASSUME ~MustBuild PROVE Partly(comps, conns, disk, Hashed)
    OBVIOUS
  <2>1. CASE mode = "noop"
    <3>1. CASE stopped
      BY <2>1, <3>1 DEF GraphRight, Rests, AtRest
    <3>2. CASE ~stopped
      <4>1. [comps |-> comps, conns |-> conns] = GraphOf(Hashed)
        BY <2>1, <3>2, Choice DEF GraphRight, Rests, AtRest
      <4>2. comps = GraphOf(Hashed).comps /\ conns = GraphOf(Hashed).conns
        BY <4>1
      <4> QED
        BY <1>0, <4>2, HashedIsPartly
    <3> QED
      BY <3>1, <3>2
  <2>2. CASE pc = "hash" /\ mode # "noop"
    <3>1. comps = GraphOf(read).comps /\ conns = GraphOf(read).conns
      BY <1>1, <2>2 DEF Stored, GraphRight, Analysed, Made
    <3>2. Partly(comps, conns, read, Hashed)
      BY <1>0, <3>1, WholeIsPartly
    <3> QED
      BY <1>0, <1>4, <3>2, PartlyShrinks
  <2>3. CASE pc # "hash"
    <3>1. mode = "incremental" /\ pc # "connsFill"
      BY <1>1, <2>3 DEF Torn, Control, TypeOK, Points
    <3>2. Partly(comps, conns, read, Hashed)
      BY <2>3, <3>1 DEF GraphRight, Walks
    <3> QED
      BY <1>0, <1>4, <3>2, PartlyShrinks
  <2> QED
    BY <2>1, <2>2, <2>3
<1>6. Rests'
  BY <1>1, <1>2, <1>5 DEF Rests
<1> QED
  BY <1>3, <1>6 DEF GraphRight

LEMMA DueRight ==
    ASSUME TypeOK, GraphRight, Due
    PROVE  GraphRight'
<1>1. /\ index \in Index /\ index # None
      /\ UNCHANGED <<disk, hashes, comps, conns, pc, mode, walk, read, new, stopped>>
      /\ Hashed' = Hashed
  BY HashedStays DEF Due, TypeOK, scanVars, histVars
<1>2. index' \in Index /\ index'.due
  BY <1>1, IndexAre DEF Due
<1>3. MustBuild'
  BY <1>2, Consts DEF MustBuild, SelectMode
<1>4. NotRestored' /\ Walks' /\ Analysed'
  BY <1>1 DEF GraphRight, NotRestored, Walks, Analysed, Made
<1>5. Rests'
  BY <1>1, <1>3 DEF GraphRight, Rests, AtRest
<1> QED
  BY <1>4, <1>5 DEF GraphRight

LEMMA EditsRight ==
    ASSUME TypeOK, TypeOK', GraphRight, NEW f \in File, Edit(f),
           "restored" \notin blame'
    PROVE  GraphRight'
<1>0. /\ disk \in Contents /\ disk' \in Contents /\ Hashed \in Contents
      /\ disk \in [File -> Nat] /\ disk' \in [File -> Nat]
  BY HashedType, ContentsAre DEF TypeOK
<1>1. /\ UNCHANGED <<hashes, index, comps, conns, pc, mode, walk, read, new, stopped>>
      /\ Hashed' = Hashed
  BY HashedStays DEF Edit, storeVars, scanVars
<1>2. \A g \in File \ {f} : disk'[g] = disk[g]
  BY <1>0 DEF Edit
<1>3. stopped \/ pc # "idle" =>
        /\ disk'[f] # Hashed[f]
        /\ Hashed[f] # 0 => disk[f] # 0
  BY DEF Edit
<1>4. NotRestored'
  BY <1>1, <1>2, <1>3 DEF GraphRight, NotRestored, Apart
<1>5. Walks' /\ Analysed'
  BY <1>1 DEF GraphRight, Walks, Analysed, Made
<1>6. ASSUME AtRest, stopped
      PROVE  MustBuild' \/ Partly(comps, conns, disk', Hashed)
  <2>1. CASE MustBuild
    <3>1. Changed \subseteq Changed'
      BY <1>1, <1>2, <1>3, <1>6 DEF Changed
    <3> QED
      BY <1>1, <2>1, <3>1, StillMustBuild
  <2>2. CASE Partly(comps, conns, disk, Hashed)
    <3>1. Apart(disk, disk', Hashed)
      BY <1>2, <1>3, <1>6 DEF Apart
    <3> QED
      BY <1>0, <2>2, <3>1, PartlyShrinks
  <2> QED
    BY <1>6, <2>1, <2>2 DEF GraphRight, Rests
<1>7. Rests'
  BY <1>1, <1>6 DEF GraphRight, Rests, AtRest
<1> QED
  BY <1>4, <1>5, <1>7 DEF GraphRight

-----------------------------------------------------------------------------
(* Only the beginning of a full scan forgets what went wrong. *)
LEMMA BlameGrows ==
    ASSUME Scan \/ Stop \/ Due \/ \E f \in File : Edit(f)
    PROVE  \/ blame \subseteq blame'
           \/ UNCHANGED <<disk, storeVars>> /\ \E m : SelectMode(m) = "full" /\ Detect(m)
<1> USE DEF histVars
<1>1. CASE Begin
  <2>1. PICK m \in Modes : Detect(m) /\ UNCHANGED <<disk, storeVars>>
    BY <1>1 DEF Begin
  <2> QED
    BY <2>1 DEF Detect
<1>2. CASE Merge
  <2>1. CASE Integrity
    BY <1>2, <2>1 DEF Merge
  <2>2. CASE ~Integrity
    <3>1. Detect("full") /\ UNCHANGED <<disk, storeVars>>
      BY <1>2, <2>2 DEF Merge
    <3> QED
      BY <3>1, Selected
  <2> QED
    BY <2>1, <2>2
<1>3. CASE Clear \/ Analyse \/ WriteIndex \/ WriteReverseDeps \/ Annotate
  BY <1>3 DEF Clear, Analyse, WriteIndex, WriteReverseDeps, Annotate
<1>4. CASE Truncate \/ Fill \/ SaveHashes \/ Stop \/ Due
  BY <1>4 DEF Truncate, Fill, SaveHashes, Stop, Due
<1>5. ASSUME NEW f \in File, Edit(f) PROVE blame \subseteq blame'
  BY <1>5 DEF Edit
<1> QED
  BY <1>1, <1>2, <1>3, <1>4, <1>5 DEF Scan

LEMMA StepGraph ==
    ASSUME TypeOK, TypeOK', Control, Sources, Stored, GraphKept,
           Scan \/ Stop \/ Due \/ \E f \in File : Edit(f)
    PROVE  GraphKept'
<1> SUFFICES ASSUME AutoOrFull, Unblamed' PROVE GraphRight'
  BY DEF GraphKept, GraphRight
<1>1. CASE UNCHANGED <<disk, storeVars>> /\ \E m : SelectMode(m) = "full" /\ Detect(m)
  BY <1>1, BuildsAnew
<1>2. CASE blame \subseteq blame'
  <2>1. /\ GraphRight /\ "cut" \notin blame
        /\ blame' \cap {"late", "unread"} = {} /\ "cut" \notin blame' /\ "restored" \notin blame'
    BY <1>2 DEF Unblamed, GraphKept, GraphRight
  <2>2. CASE Begin
    <3>1. /\ pc = "idle" /\ UNCHANGED <<disk, storeVars>>
          /\ \E m \in Modes : Detect(m)
      BY <2>2 DEF Begin
    <3>2. PICK m \in Modes : Detect(m)
      BY <3>1
    <3>3. CASE SelectMode(m) = "full"
      BY <3>1, <3>2, <3>3, BuildsAnew
    <3>4. CASE SelectMode(m) # "full"
      BY <2>1, <3>1, <3>2, <3>4, BeginsRight
    <3> QED
      BY <3>3, <3>4
  <2>3. CASE Merge
    <3>1. CASE Integrity
      BY <2>1, <2>3, <3>1, MergesRight
    <3>2. CASE ~Integrity
      <4>1. Detect("full") /\ UNCHANGED <<disk, storeVars>>
        BY <2>3, <3>2 DEF Merge
      <4> QED
        BY <4>1, Selected, BuildsAnew
    <3> QED
      BY <3>1, <3>2
  <2>4. CASE Clear
    BY <2>1, <2>4, ClearsRight
  <2>5. CASE Analyse
    BY <2>1, <2>5, AnalysesRight
  <2>6. CASE WriteIndex \/ WriteReverseDeps \/ Annotate
    BY <2>1, <2>6, WritesRight
  <2>7. CASE Truncate \/ Fill
    BY <2>1, <2>7, StoresRight
  <2>8. CASE SaveHashes
    BY <2>1, <2>8, HashesRight
  <2>9. CASE Stop
    BY <2>1, <2>9, StopsRight
  <2>10. CASE Due
    BY <2>1, <2>10, DueRight
  <2>11. CASE \E f \in File : Edit(f)
    BY <2>1, <2>11, EditsRight
  <2> QED
    BY <2>2, <2>3, <2>4, <2>5, <2>6, <2>7, <2>8, <2>9, <2>10, <2>11 DEF Scan
<1> QED
  BY <1>1, <1>2, BlameGrows

-----------------------------------------------------------------------------
(* The inductive invariant. *)

LEMMA StoreGoesOn == StoreIInv /\ [Next]_vars => StoreIInv'
<1> SUFFICES ASSUME StoreIInv, [Next]_vars PROVE StoreIInv'
  OBVIOUS
<1>1. /\ TypeOK /\ Control /\ CapKept /\ Sources /\ Stored /\ GraphKept
  BY DEF StoreIInv
<1>2. CASE UNCHANGED vars
  <2>1. UNCHANGED <<disk, hashes, index, comps, conns, paired, rdeps, pc, mode,
                    left, read, walk, new, prior, stopped, since, blame>>
    BY <1>2, Unchanged
  <2>2. TypeOK' /\ Control'
    BY <1>1, <2>1 DEF TypeOK, Control
  <2>3. CapKept'
    BY <1>1, <2>1 DEF CapKept, Counted, Counting
  <2>4. Sources' /\ Stored'
    BY <1>1, <2>1 DEF Sources, Stored, Made
  <2>5. Hashed' = Hashed /\ MustBuild' = MustBuild
    BY <2>1, HashedStays, SameChoice
  <2>6. GraphKept'
    BY <1>1, <2>1, <2>5 DEF GraphKept, Unblamed, NotRestored, Walks, Analysed, Made,
                           Rests, AtRest
  <2> QED
    BY <2>2, <2>3, <2>4, <2>6 DEF StoreIInv
<1>3. CASE Next
  <2>1. Scan \/ Stop \/ Due \/ \E f \in File : Edit(f)
    BY <1>3 DEF Next
  <2>2. TypeOK' /\ Control' /\ CapKept' /\ Sources' /\ Stored'
    BY <1>1, <2>1, StepTypes, StepControl, StepCounts, StepSources, StepStored
  <2>3. GraphKept'
    BY <1>1, <2>1, <2>2, StepGraph
  <2> QED
    BY <2>2, <2>3 DEF StoreIInv
<1> QED
  BY <1>2, <1>3

THEOREM StoreInvariant == Spec => []StoreIInv
  BY StoreBegins, StoreGoesOn, PTL DEF Spec

(* The types of the store and of the scan, whatever the mode and wherever a *)
(* scan is killed.                                                          *)
THEOREM StoreTypeCorrect == Spec => []TypeOK
<1>1. StoreIInv => TypeOK
  BY DEF StoreIInv
<1> QED
  BY <1>1, StoreInvariant, PTL

(* Between scans no stored connection dangles, when the last one ended and  *)
(* no write of the graph failed (storeComponents, storeConnections).        *)
THEOREM NothingDangles == Spec => []StoredGraphClosed
<1>1. StoreIInv => StoredGraphClosed
  BY DEF StoreIInv, Stored, StoredGraphClosed, Closed
<1> QED
  BY <1>1, StoreInvariant, PTL

(* INCREMENTAL_CAP: scans that auto makes incremental are at most Cap in a  *)
(* row, through kills and failed writes, if the counter was written.        *)
THEOREM FullInTime == Spec => []CapHonoured
<1>1. ASSUME StoreIInv, "incremental" \notin Modes, "uncounted" \notin blame
      PROVE  since <= Cap
  <2>1. TypeOK /\ Control /\ Counted /\ AutoOrFull
    BY <1>1 DEF StoreIInv, CapKept, AutoOrFull
  <2>2. since \in Nat /\ Cap \in Nat
    BY <2>1, IndexBounds
  <2>3. CASE index = None
    BY <2>1, <2>2, <2>3 DEF Counted
  <2>4. CASE index # None /\ ~Counting
    <3>1. index.incs \in 0..Cap
      BY <1>1, <2>1, <2>4 DEF TypeOK, Index
    <3> QED
      BY <2>1, <2>2, <2>4, <3>1 DEF Counted
  <2>5. CASE Counting
    <3>1. mode \in {"full", "incremental"} /\ pc # "idle" /\ pc # "hash"
      BY <2>1, <2>5 DEF Counting, TypeOK, Control
    <3>2. CASE mode = "full"
      BY <2>1, <2>2, <3>1, <3>2 DEF Counted
    <3>3. CASE mode = "incremental"
      <4>1. since <= prior.incs /\ prior.incs < Cap /\ prior # None
        BY <2>1, <2>5, <3>3 DEF Counted, Control, Counting
      <4> QED
        BY <2>1, <2>2, <4>1, IndexBounds
    <3> QED
      BY <3>1, <3>2, <3>3
  <2> QED
    BY <2>3, <2>4, <2>5
<1>2. StoreIInv => CapHonoured
  BY <1>1 DEF CapHonoured
<1> QED
  BY <1>2, StoreInvariant, PTL

(* When an auto scan finds nothing to do, what is stored is what a full     *)
(* scan would store, over scans that stop anywhere, swallow any failed      *)
(* write or analysis and race with edits, unless the history is to blame.   *)
THEOREM NothingToDo ==
    ASSUME AutoOrFull
    PROVE  Spec => []NoopIsCurrentUnlessBlamed
<1>1. ASSUME StoreIInv, Unblamed, pc = "idle", SelectMode("auto") = "noop"
      PROVE  Current
  <2>1. TypeOK /\ Sources /\ Rests
    BY <1>1 DEF StoreIInv, GraphKept
  <2>2. ~MustBuild /\ \A f \in File : disk[f] = Hashed[f]
    BY <1>1, <2>1, Choice DEF MustBuild
  <2>3. Partly(comps, conns, disk, Hashed)
    <3>1. CASE stopped
      BY <1>1, <2>1, <2>2, <3>1 DEF Rests, AtRest
    <3>2. CASE ~stopped
      <4>1. [comps |-> comps, conns |-> conns] = GraphOf(Hashed)
        BY <1>1, <2>1, <2>2, <3>2, Choice DEF Rests, AtRest
      <4>2. comps = GraphOf(Hashed).comps /\ conns = GraphOf(Hashed).conns
        BY <4>1
      <4>3. disk \in Contents /\ Hashed \in Contents
        BY <2>1, HashedType DEF TypeOK
      <4> QED
        BY <4>2, <4>3, HashedIsPartly
    <3> QED
      BY <3>1, <3>2
  <2> QED
    BY <2>1, <2>2, <2>3, PartlyIsWhole DEF Sources
<1>2. StoreIInv => NoopIsCurrentUnlessBlamed
  BY <1>1 DEF NoopIsCurrentUnlessBlamed, NoopIsCurrent, Unblamed
<1> QED
  BY <1>2, StoreInvariant, PTL
=============================================================================
