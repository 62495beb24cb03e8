--------------------------- MODULE Records_proofs ---------------------------
(***************************************************************************)
(* Theorems about the two records that outlive a scan.                     *)
(*                                                                         *)
(* History: the timeline is the latest entries in order, and replaying it  *)
(* gives the stored graph unless one of the flaws that TimelineReplays     *)
(* names befell a scan.                                                    *)
(*                                                                         *)
(* Memory: the record of a project is the fold of all that was written to  *)
(* it, and says what the registry says once all is captured.               *)
(***************************************************************************)
EXTENDS History, Memory, SequenceTheorems, FiniteSetTheorems, TLAPS

(* The last n elements of a sequence. *)
LEMMA Suffix ==
    ASSUME NEW S, NEW s \in Seq(S), NEW n \in Nat, n <= Len(s)
    PROVE  /\ SubSeq(s, Len(s) - n + 1, Len(s)) \in Seq(S)
           /\ Len(SubSeq(s, Len(s) - n + 1, Len(s))) = n
           /\ \A i \in 1..n : SubSeq(s, Len(s) - n + 1, Len(s))[i] = s[Len(s) - n + i]
  <1> DEFINE m == Len(s) - n + 1
  <1>1. Len(s) \in Nat /\ m \in Int /\ Len(s) \in Int
    BY LenProperties
  <1>2. \A i \in m..Len(s) : i \in 1..Len(s)
    BY <1>1
  <1>3. \A i \in m..Len(s) : s[i] \in S
    BY <1>2, ElementOfSeq
  <1> HIDE DEF m
  <1>4. /\ SubSeq(s, m, Len(s)) \in Seq(S)
        /\ Len(SubSeq(s, m, Len(s))) = IF m <= Len(s) THEN Len(s) - m + 1 ELSE 0
        /\ \A i \in 1..Len(s) - m + 1 : SubSeq(s, m, Len(s))[i] = s[m + i - 1]
    BY <1>1, <1>3, SubSeqProperties
  <1>5. Len(s) - m + 1 = n /\ m = Len(s) - n + 1
    BY <1>1 DEF m
  <1>6. \A i \in 1..n : m + i - 1 = Len(s) - n + i
    BY <1>1 DEF m
  <1>7. (IF m <= Len(s) THEN Len(s) - m + 1 ELSE 0) = n
    BY <1>1 DEF m
  <1>8. \A i \in 1..n : SubSeq(s, m, Len(s))[i] = s[Len(s) - n + i]
    BY <1>4, <1>5, <1>6
  <1> QED BY <1>4, <1>5, <1>7, <1>8

-----------------------------------------------------------------------------
(* History. *)

LEMMA HistoryBounds ==
    HistoryLimit \in Nat \ {0} /\ MaxScans \in Nat \ {0} /\ MaxVersion \in Nat
  BY HistoryAssumption DEF HistoryAssumption

(* What the scan carries at each of its steps. *)
ScanOK ==
    /\ scanning.at = "compare" =>
         scanning = [at |-> "compare", base |-> scanning.base, found |-> scanning.found]
    /\ scanning.at \in {"index", "store"} =>
         scanning = [at |-> scanning.at, found |-> scanning.found]
    /\ scanning.at \in {"compare", "index", "store"} => scanning.found \in Graph
    /\ scanning.at \in {"snapshot", "baseline", "compare"} => saved < MaxScans

(* The baseline of the next entry is what the entries so far add up to; the *)
(* graph may have been cleared by a promotion meanwhile.                    *)
BaselineIsTold == (snapshot = {} /\ told = Nothing) \/ snapshot = {told}
Steady ==
    /\ scanning.at \in {"idle", "snapshot"} => told = graph
    /\ scanning.at = "idle" /\ ~indexed => snapshot = {} /\ told = Nothing
    /\ scanning.at \in {"baseline", "compare"} => BaselineIsTold
    /\ scanning.at = "compare" => scanning.base = snapshot
    /\ scanning.at \in {"index", "store"} => told = scanning.found
    /\ scanning.at \in {"snapshot", "store"} => indexed

HistoryIInv ==
    /\ HistoryTypeOK
    /\ ScanOK
    /\ flaws \subseteq {"lost"} => Steady
    /\ HistoryKept

-----------------------------------------------------------------------------
(* The cut keeps the types. *)
LEMMA PrunedType ==
    ASSUME NEW S, NEW s \in Seq(S)
    PROVE  Pruned(s) \in Seq(S)
  <1>1. CASE Len(s) > HistoryLimit
    BY <1>1, HistoryBounds, Suffix, LenProperties DEF Pruned
  <1> QED BY <1>1 DEF Pruned

(* An entry that is saved keeps the timeline the latest ones, in order.     *)
LEMMA EntryKept ==
    ASSUME HistoryTypeOK, HistoryKept, saved < MaxScans,
           NEW read \in TimelineRead, SaveEntry(read), flaws' = flaws \cup Lost(read)
    PROVE  /\ timeline' \in Seq(1..MaxScans) /\ saved' \in 0..MaxScans
           /\ HistoryKept'
  <1> DEFINE longer == Append(read, saved + 1)
  <1>1. timeline \in Seq(1..MaxScans) /\ saved \in 0..MaxScans /\ saved + 1 \in 1..MaxScans
    BY HistoryBounds DEF HistoryTypeOK
  <1>0. read \in Seq(1..MaxScans)
    BY <1>1, EmptySeq DEF TimelineRead
  <1>2. longer \in Seq(1..MaxScans)
    BY <1>0, <1>1, AppendProperties
  <1>3. timeline' \in Seq(1..MaxScans) /\ saved' \in 0..MaxScans
    <2>1. Pruned(longer) \in Seq(1..MaxScans)
      BY <1>2, PrunedType
    <2> QED BY <1>1, <2>1 DEF SaveEntry
  <1>4. HistoryKept'
    <2>0. timeline' = Pruned(longer) /\ saved' = saved + 1
      BY DEF SaveEntry
    <2> SUFFICES ASSUME "lost" \notin flaws'
                 PROVE  /\ Len(timeline') = IF saved' < HistoryLimit THEN saved' ELSE HistoryLimit
                        /\ \A i \in 1..Len(timeline') :
                              timeline'[i] = saved' - Len(timeline') + i
      BY DEF HistoryKept
    <2>9. read = timeline /\ "lost" \notin flaws
      BY DEF Lost
    <2>1. /\ Len(timeline) = IF saved < HistoryLimit THEN saved ELSE HistoryLimit
          /\ \A i \in 1..Len(timeline) : timeline[i] = saved - Len(timeline) + i
      BY <2>9 DEF HistoryKept
    <2>2. Len(longer) = Len(timeline) + 1 /\ Len(timeline) \in Nat
      BY <1>1, <2>9, AppendProperties, LenProperties
    <2>3. \A i \in 1..Len(longer) : longer[i] = saved + 1 - Len(longer) + i
      <3> SUFFICES ASSUME NEW i \in 1..Len(longer)
                   PROVE  longer[i] = saved + 1 - Len(longer) + i
        OBVIOUS
      <3>1. CASE i = Len(timeline) + 1
        BY <3>1, <1>1, <2>2, <2>9, AppendProperties
      <3>2. CASE i \in 1..Len(timeline)
        <4>1. longer[i] = timeline[i]
          BY <3>2, <1>1, <2>9, AppendProperties
        <4>2. timeline[i] = saved - Len(timeline) + i
          BY <3>2, <2>1
        <4> HIDE DEF longer
        <4> QED BY <4>1, <4>2, <2>2, <1>1
      <3> QED BY <3>1, <3>2, <2>2
    <2> HIDE DEF longer
    <2>4. CASE Len(longer) > HistoryLimit
      <3> DEFINE cut == SubSeq(longer, Len(longer) - HistoryLimit + 1, Len(longer))
      <3>1. timeline' = cut
        BY <2>4, <2>0 DEF Pruned
      <3>2. /\ Len(cut) = HistoryLimit
            /\ \A i \in 1..HistoryLimit : cut[i] = longer[Len(longer) - HistoryLimit + i]
        BY <1>2, <2>2, <2>4, HistoryBounds, Suffix
      <3> HIDE DEF cut
      <3>3. ~(saved + 1 < HistoryLimit)
        BY <2>1, <2>2, <2>4, <1>1, HistoryBounds
      <3>4. \A i \in 1..HistoryLimit : cut[i] = saved + 1 - HistoryLimit + i
        <4> SUFFICES ASSUME NEW i \in 1..HistoryLimit
                     PROVE  cut[i] = saved + 1 - HistoryLimit + i
          OBVIOUS
        <4>1. Len(longer) - HistoryLimit + i \in 1..Len(longer)
          BY <2>2, <2>4, HistoryBounds
        <4>2. cut[i] = saved + 1 - Len(longer) + (Len(longer) - HistoryLimit + i)
          BY <3>2, <4>1, <2>3
        <4> QED BY <4>2, <2>2, <1>1, HistoryBounds
      <3> QED BY <3>1, <3>2, <3>3, <3>4, <2>0, <1>1, HistoryBounds
    <2>5. CASE ~(Len(longer) > HistoryLimit)
      <3>1. timeline' = longer /\ saved' = saved + 1
        BY <2>5, <2>0 DEF Pruned
      <3>2. Len(timeline) = saved /\ saved < HistoryLimit
        BY <2>1, <2>2, <2>5, <1>1, HistoryBounds
      <3>3. Len(longer) = IF saved + 1 < HistoryLimit THEN saved + 1 ELSE HistoryLimit
        BY <3>2, <2>2, <1>1, HistoryBounds
      <3>4. Len(timeline') = IF saved' < HistoryLimit THEN saved' ELSE HistoryLimit
        BY <3>1, <3>3
      <3>5. \A i \in 1..Len(timeline') : timeline'[i] = saved' - Len(timeline') + i
        BY <3>1, <2>3, <2>2, <1>1
      <3> QED BY <3>4, <3>5
    <2> QED BY <2>4, <2>5
  <1> QED BY <1>3, <1>4

(* What is kept stays kept when no entry is saved, unless it is lost.       *)
LEMMA HistoryRests ==
    ASSUME HistoryKept, UNCHANGED saved, flaws \cup Lost(timeline') \subseteq flaws'
    PROVE  HistoryKept'
  BY DEF HistoryKept, Lost

(* A write that fails loses the timeline or leaves it.                      *)
LEMMA SaveFailsType ==
    ASSUME HistoryTypeOK, SaveFails
    PROVE  timeline' \in Seq(1..MaxScans) /\ saved' \in 0..MaxScans
  BY EmptySeq DEF SaveFails, HistoryTypeOK

(* Clearing leaves a graph and, at most, the index that there was.           *)
LEMMA ClearType ==
    ASSUME HistoryTypeOK, Clear
    PROVE  graph' \in Graph /\ indexed' \in BOOLEAN
  <1>1. Nothing \in Graph
    BY HistoryBounds DEF Nothing, Graph
  <1> QED BY <1>1 DEF Clear, Mixed, HistoryTypeOK

(* What an entry adds to the graph told so far, from the right baseline, is *)
(* the graph that was found.                                                *)
LEMMA ChangesTell ==
    ASSUME NEW base, NEW found \in Graph, NEW before \in Graph,
           (base = {} /\ before = Nothing) \/ base = {before}
    PROVE  [c \in Key |-> IF c \in Changed(base, found) THEN found[c] ELSE before[c]] = found
  <1>1. \A c \in Key : c \notin Changed(base, found) => before[c] = found[c]
    BY DEF Changed, Nothing
  <1> QED BY <1>1 DEF Graph

-----------------------------------------------------------------------------
LEMMA HistoryBegins == HistoryInit => HistoryIInv
  <1> SUFFICES ASSUME HistoryInit PROVE HistoryIInv
    OBVIOUS
  <1> USE DEF HistoryInit
  <1>1. Nothing \in Graph
    BY HistoryBounds DEF Nothing, Graph
  <1>2. HistoryTypeOK
    <2>1. timeline \in Seq(1..MaxScans)
      BY EmptySeq
    <2>2. saved \in 0..MaxScans
      BY HistoryBounds
    <2>3. scanning.at = "idle"
      BY DEF Unscanned
    <2> QED BY <1>1, <2>1, <2>2, <2>3 DEF HistoryTypeOK
  <1>3. ScanOK /\ Steady
    BY HistoryBounds DEF ScanOK, Steady, Unscanned
  <1>4. HistoryKept
    <2>0. <<>> \in Seq(Nat) /\ Len(<<>>) = 0
      BY EmptySeq
    <2>1. Len(timeline) = 0 /\ saved = 0
      BY <2>0
    <2>2. 1..Len(timeline) = {}
      BY <2>1
    <2> QED BY <2>1, <2>2, HistoryBounds DEF HistoryKept
  <1> QED BY <1>2, <1>3, <1>4 DEF HistoryIInv

LEMMA HistoryGoesOn == HistoryIInv /\ [HistoryNext]_historyVars => HistoryIInv'
  <1> SUFFICES ASSUME HistoryIInv, [HistoryNext]_historyVars PROVE HistoryIInv'
    OBVIOUS
  <1> USE DEF HistoryIInv
  <1>0. Nothing \in Graph
    BY HistoryBounds DEF Nothing, Graph
  <1>1. CASE Noop
    <2>1. saved < MaxScans /\ scanning = Unscanned
      BY <1>1 DEF Noop
    <2>2. /\ UNCHANGED <<graph, indexed, snapshot, scanning, told>>
          /\ flaws \subseteq flaws'
      BY <1>1 DEF Noop
    <2>3. timeline' \in Seq(1..MaxScans) /\ saved' \in 0..MaxScans /\ HistoryKept'
      <3>1. CASE \E read \in TimelineRead : SaveEntry(read) /\ flaws' = flaws \cup Lost(read)
        BY <3>1, <2>1, EntryKept
      <3>2. CASE SaveFails /\ flaws' = flaws \cup Lost(timeline')
        BY <3>2, SaveFailsType, HistoryRests DEF SaveFails
      <3> QED BY <1>1, <3>1, <3>2 DEF Noop
    <2>4. HistoryTypeOK'
      BY <2>2, <2>3 DEF HistoryTypeOK
    <2>5. ScanOK'
      BY <2>1, <2>2 DEF ScanOK, Unscanned
    <2>6. (flaws \subseteq {"lost"} => Steady)'
      BY <2>2 DEF Steady, BaselineIsTold
    <2> QED BY <2>3, <2>4, <2>5, <2>6
  <1>2. CASE BeginFull
    <2>0. Clear
      BY <1>2 DEF BeginFull
    <2>1. HistoryTypeOK'
      BY <1>2, <2>0, ClearType DEF BeginFull, HistoryTypeOK
    <2>2. ScanOK'
      BY <1>2 DEF BeginFull, ScanOK
    <2>3. (flaws \subseteq {"lost"} => Steady)'
      <3> SUFFICES ASSUME flaws' \subseteq {"lost"} PROVE Steady'
        OBVIOUS
      <3>1. ~indexed /\ flaws \subseteq {"lost"}
        BY <1>2 DEF BeginFull
      <3>2. snapshot = {} /\ told = Nothing
        BY <1>2, <3>1 DEF BeginFull, Steady, Unscanned
      <3> QED BY <1>2, <3>2 DEF BeginFull, Steady, BaselineIsTold
    <2>4. HistoryKept'
      BY <1>2 DEF BeginFull, HistoryKept
    <2> QED BY <2>1, <2>2, <2>3, <2>4
  <1>3. CASE BeginIncremental
    <2>1. HistoryTypeOK'
      BY <1>3 DEF BeginIncremental, HistoryTypeOK
    <2>2. ScanOK'
      BY <1>3 DEF BeginIncremental, ScanOK
    <2>3. (flaws \subseteq {"lost"} => Steady)'
      BY <1>3 DEF BeginIncremental, Steady, Unscanned
    <2>4. HistoryKept'
      BY <1>3, HistoryRests DEF BeginIncremental, Lost
    <2> QED BY <2>1, <2>2, <2>3, <2>4
  <1>4. CASE WriteSnapshot
    <2>0. /\ scanning.at = "snapshot" /\ saved < MaxScans
          /\ UNCHANGED <<graph, indexed, timeline, saved, told>>
      BY <1>4 DEF WriteSnapshot, ScanOK
    <2>1. CASE snapshot' = {graph} /\ scanning' = [at |-> "baseline"] /\ UNCHANGED flaws
      <3>1. HistoryTypeOK'
        BY <2>0, <2>1 DEF HistoryTypeOK
      <3>2. ScanOK'
        BY <2>0, <2>1 DEF ScanOK
      <3>3. (flaws \subseteq {"lost"} => Steady)'
        BY <2>0, <2>1 DEF Steady, BaselineIsTold
      <3>4. HistoryKept'
        BY <2>0, <2>1, HistoryRests DEF Lost
      <3> QED BY <3>1, <3>2, <3>3, <3>4
    <2>2. CASE /\ \E read \in Mixed(graph, Nothing) \ {graph} : snapshot' = {read}
               /\ scanning' = [at |-> "baseline"]
               /\ flaws' = flaws \cup {"baseless"}
      <3>1. HistoryTypeOK'
        BY <2>0, <2>2 DEF HistoryTypeOK, Mixed
      <3>2. ScanOK'
        BY <2>0, <2>2 DEF ScanOK
      <3>3. ~(flaws' \subseteq {"lost"})
        BY <2>2
      <3>4. HistoryKept'
        BY <2>0, <2>2, HistoryRests DEF Lost
      <3> QED BY <3>1, <3>2, <3>3, <3>4
    <2>3. CASE /\ snapshot' \in {snapshot, {}}
               /\ CompareWith({})
               /\ flaws' = flaws \cup {"baseless"}
      <3> PICK found \in Graph : scanning' = [at |-> "compare", base |-> {}, found |-> found]
        BY <2>3 DEF CompareWith
      <3>1. HistoryTypeOK'
        BY <2>0, <2>3 DEF HistoryTypeOK
      <3>2. ScanOK'
        BY <2>0 DEF ScanOK
      <3>3. ~(flaws' \subseteq {"lost"})
        BY <2>3
      <3>4. HistoryKept'
        BY <2>0, <2>3, HistoryRests DEF Lost
      <3> QED BY <3>1, <3>2, <3>3, <3>4
    <2> QED BY <1>4, <2>1, <2>2, <2>3 DEF WriteSnapshot
  <1>5. CASE LoadBaseline
    <2>0. /\ scanning.at = "baseline" /\ saved < MaxScans
          /\ UNCHANGED <<graph, indexed, snapshot, timeline, saved, told>>
      BY <1>5 DEF LoadBaseline, ScanOK
    <2>1. PICK base \in {snapshot, {}}, found \in Graph :
             /\ scanning' = [at |-> "compare", base |-> base, found |-> found]
             /\ \/ base = snapshot /\ UNCHANGED flaws
                \/ flaws' = flaws \cup {"baseless"}
      BY <1>5 DEF LoadBaseline, CompareWith
    <2>2. HistoryTypeOK'
      BY <2>0, <2>1 DEF HistoryTypeOK
    <2>3. ScanOK'
      BY <2>0, <2>1 DEF ScanOK
    <2>4. (flaws \subseteq {"lost"} => Steady)'
      <3> SUFFICES ASSUME flaws' \subseteq {"lost"} PROVE Steady'
        OBVIOUS
      <3>1. scanning' = [at |-> "compare", base |-> snapshot, found |-> found] /\ UNCHANGED flaws
        BY <2>1
      <3> QED BY <2>0, <3>1 DEF Steady, BaselineIsTold
    <2>5. HistoryKept'
      BY <2>0, <2>1, HistoryRests DEF Lost
    <2> QED BY <2>2, <2>3, <2>4, <2>5
  <1>6. CASE Promote
    <2>0. Clear
      BY <1>6 DEF Promote
    <2>1. HistoryTypeOK'
      BY <1>6, <2>0, ClearType DEF Promote, HistoryTypeOK
    <2>2. ScanOK'
      BY <1>6 DEF Promote, ScanOK
    <2>3. (flaws \subseteq {"lost"} => Steady)'
      BY <1>6 DEF Promote, Steady, BaselineIsTold
    <2>4. HistoryKept'
      BY <1>6, HistoryRests DEF Promote, Lost
    <2> QED BY <2>1, <2>2, <2>3, <2>4
  <1>7. CASE SaveDiff
    <2>1. scanning.at = "compare" /\ scanning.found \in Graph /\ saved < MaxScans
      BY <1>7 DEF SaveDiff, ScanOK
    <2>2. /\ UNCHANGED <<graph, indexed, snapshot>>
          /\ scanning' = [at |-> "index", found |-> scanning.found]
      BY <1>7 DEF SaveDiff
    <2> DEFINE sum == [c \in Key |-> IF c \in Changed(scanning.base, scanning.found)
                                     THEN scanning.found[c] ELSE told[c]]
    <2>3. ScanOK'
      BY <2>1, <2>2 DEF ScanOK
    <2>4. told \in Graph /\ sum \in Graph
      BY <2>1 DEF HistoryTypeOK, Graph
    <2>5. (told' = sum \/ ~(flaws' \subseteq {"lost"})) => (flaws \subseteq {"lost"} => Steady)'
      <3> SUFFICES ASSUME told' = sum, flaws' \subseteq {"lost"} PROVE Steady'
        OBVIOUS
      <3>0. flaws \subseteq {"lost"}
        BY <1>7 DEF SaveDiff
      <3>1. BaselineIsTold /\ scanning.base = snapshot
        BY <3>0, <2>1 DEF Steady
      <3>2. (scanning.base = {} /\ told = Nothing) \/ scanning.base = {told}
        BY <3>1 DEF BaselineIsTold
      <3>3. sum = scanning.found
        BY <3>2, <2>1, <2>4, ChangesTell
      <3> HIDE DEF sum
      <3> QED BY <3>3, <2>2 DEF Steady
    <2>6. CASE /\ \E read \in TimelineRead : SaveEntry(read) /\ flaws' = flaws \cup Lost(read)
               /\ told' = sum
      <3> HIDE DEF sum
      <3>1. timeline' \in Seq(1..MaxScans) /\ saved' \in 0..MaxScans /\ HistoryKept'
        BY <2>1, <2>6, EntryKept
      <3>2. HistoryTypeOK'
        BY <2>2, <2>4, <2>6, <3>1 DEF HistoryTypeOK
      <3> QED BY <2>3, <2>5, <2>6, <3>1, <3>2
    <2>7. CASE /\ SaveFails
               /\ flaws' = flaws \cup {"untold"} \cup Lost(timeline')
               /\ UNCHANGED told
      <3> HIDE DEF sum
      <3>1. timeline' \in Seq(1..MaxScans) /\ saved' \in 0..MaxScans
        BY <2>7, SaveFailsType
      <3>2. HistoryKept'
        BY <2>7, HistoryRests DEF SaveFails
      <3>3. HistoryTypeOK'
        BY <2>2, <2>4, <2>7, <3>1 DEF HistoryTypeOK
      <3>4. ~(flaws' \subseteq {"lost"})
        BY <2>7
      <3> QED BY <2>3, <2>5, <3>2, <3>3, <3>4
    <2>8. CASE ~EntryDue /\ UNCHANGED <<timeline, saved, told, flaws>>
      <3>1. Changed(scanning.base, scanning.found) = {}
        BY <2>8 DEF EntryDue
      <3>2. told' = sum
        <4>1. sum = [c \in Key |-> told[c]]
          BY <3>1
        <4> HIDE DEF sum
        <4>2. told = [c \in Key |-> told[c]]
          BY <2>4 DEF Graph
        <4> QED BY <4>1, <4>2, <2>8
      <3> HIDE DEF sum
      <3>3. HistoryKept'
        BY <2>8, HistoryRests DEF Lost
      <3>4. HistoryTypeOK'
        BY <2>2, <2>8 DEF HistoryTypeOK
      <3> QED BY <2>3, <2>5, <3>2, <3>3, <3>4
    <2> HIDE DEF sum
    <2> QED BY <1>7, <2>6, <2>7, <2>8 DEF SaveDiff, sum
  <1>8. CASE BuildIndex
    <2>1. scanning' = [at |-> "store", found |-> scanning.found]
      BY <1>8 DEF BuildIndex, ScanOK
    <2>2. HistoryTypeOK'
      BY <1>8, <2>1 DEF BuildIndex, HistoryTypeOK
    <2>3. ScanOK'
      BY <1>8, <2>1 DEF BuildIndex, ScanOK
    <2>4. (flaws \subseteq {"lost"} => Steady)'
      BY <1>8, <2>1 DEF BuildIndex, Steady
    <2>5. HistoryKept'
      BY <1>8, HistoryRests DEF BuildIndex, Lost
    <2> QED BY <2>2, <2>3, <2>4, <2>5
  <1>9. CASE Store
    <2>0. /\ scanning.at = "store" /\ scanning.found \in Graph /\ scanning' = Unscanned
          /\ UNCHANGED <<indexed, snapshot, timeline, saved, told>>
      BY <1>9 DEF Store, ScanOK
    <2>1. \/ graph' = scanning.found /\ UNCHANGED flaws
          \/ graph' \in Graph /\ flaws' = flaws \cup {"unstored"}
      BY <1>9 DEF Store, Mixed
    <2>2. HistoryTypeOK'
      BY <2>0, <2>1 DEF HistoryTypeOK, Unscanned
    <2>3. ScanOK'
      BY <2>0 DEF ScanOK, Unscanned
    <2>4. (flaws \subseteq {"lost"} => Steady)'
      BY <2>0, <2>1 DEF Steady, Unscanned
    <2>5. HistoryKept'
      BY <2>0, <2>1, HistoryRests DEF Lost
    <2> QED BY <2>2, <2>3, <2>4, <2>5
  <1>10. CASE KillScan
    <2>1. /\ UNCHANGED <<indexed, saved, told>> /\ scanning' = Unscanned
          /\ flaws' = flaws \cup {"killed"} \cup Lost(timeline')
      BY <1>10 DEF KillScan
    <2>2. graph' \in Graph
      BY <1>10 DEF KillScan, Mixed, HistoryTypeOK
    <2>3. snapshot' \in {snapshot, {}} /\ timeline' \in {timeline, <<>>}
      BY <1>10 DEF KillScan
    <2>4. HistoryTypeOK'
      BY <2>1, <2>2, <2>3, EmptySeq DEF HistoryTypeOK, Unscanned
    <2>5. ScanOK'
      BY <2>1 DEF ScanOK, Unscanned
    <2>6. HistoryKept'
      BY <2>1, HistoryRests
    <2>7. ~(flaws' \subseteq {"lost"})
      BY <2>1
    <2> QED BY <2>4, <2>5, <2>6, <2>7
  <1>11. CASE UNCHANGED historyVars
    BY <1>11 DEF historyVars, HistoryTypeOK, ScanOK, Steady, BaselineIsTold, HistoryKept
  <1> QED BY <1>1, <1>2, <1>3, <1>4, <1>5, <1>6, <1>7, <1>8, <1>9, <1>10, <1>11
         DEF HistoryNext

LEMMA HistoryInvariant == HistorySpec => []HistoryIInv
  BY HistoryBegins, HistoryGoesOn, PTL DEF HistorySpec

(* Every reachable state of the history has its types.                      *)
THEOREM HistoryTypeCorrect == HistorySpec => []HistoryTypeOK
  <1>1. HistoryIInv => HistoryTypeOK
    BY DEF HistoryIInv
  <1> QED BY <1>1, HistoryInvariant, PTL

(* The entries saved add up to the stored graph (scanner.ts, phase 5, with  *)
(* its promotions), as long as no scan was killed, none was a full one of a *)
(* project that had a graph, and none went on without its baseline, its     *)
(* entry or its stored graph: those are the failures that a scan swallows.  *)
THEOREM EntriesAddUp == HistorySpec => []TimelineReplays
  <1>1. HistoryIInv => TimelineReplays
    BY DEF HistoryIInv, TimelineReplays, Steady, Unscanned
  <1> QED BY <1>1, HistoryInvariant, PTL

(* saveTimelineEntry keeps the latest entries, in order, up to its limit,   *)
(* until the file is once cut short or not read.                            *)
THEOREM LatestEntriesKept == HistorySpec => []HistoryKept
  <1>1. HistoryIInv => HistoryKept
    BY DEF HistoryIInv
  <1> QED BY <1>1, HistoryInvariant, PTL

-----------------------------------------------------------------------------
(* Memory: the types of its state. *)

EventRecord == [kind : {"registered", "scanned", "changed", "removed"}, n : Nat]
Record == [firstSeen : Nat, status : {"active", "removed"}, scans : Nat, changes : Nat,
           milestones : Seq(Nat)]
Some == Seq(EventRecord) \ {<<>>}
Waiting  == [pc : {"append"}, events : Some, forgets : BOOLEAN]
Checking == [pc : {"check"}, events : Some, forgets : BOOLEAN,
             base : SUBSET Record, attempt : Nat]
Writing  == [pc : {"commit"}, events : Some, forgets : BOOLEAN,
             base : SUBSET Record, seen : SUBSET Record]
CallerState ==
    {Resting} \cup [pc : {"prune", "copy", "forget"}] \cup Waiting \cup Checking \cup Writing

MemoryShape ==
    /\ registered \in BOOLEAN
    /\ minted \in Nat /\ newest \in Nat
    /\ memory \in SUBSET Record
    /\ folded \in Seq(EventRecord)
    /\ caller \in [Caller -> CallerState]

LEMMA MemoryBounds == MaxAttempts \in Nat /\ MaxMilestones \in Nat \ {0} /\ MaxEvents \in Nat
  BY MemoryAssumption DEF MemoryAssumption

LEMMA CallersAre ==
    ASSUME NEW me \in CallerState
    PROVE  /\ me.pc = "append" => me \in Waiting
           /\ me.pc = "check" => me \in Checking
           /\ me.pc = "commit" => me \in Writing
  BY DEF CallerState, Resting, Waiting, Checking, Writing

LEMMA CapturingType ==
    ASSUME NEW events \in Seq(EventRecord), NEW forgets \in BOOLEAN
    PROVE  /\ Capturing(events, forgets) \in CallerState
           /\ Capturing(events, forgets).pc # "commit"
<1>1. CASE events # <<>>
  <2>1. [pc |-> "append", events |-> events, forgets |-> forgets] \in Waiting
    BY <1>1 DEF Waiting, Some
  <2> QED
    BY <1>1, <2>1 DEF Capturing, CallerState
<1>2. CASE events = <<>>
  BY <1>2 DEF Capturing, CallerState, Resting
<1> QED
  BY <1>1, <1>2

LEMMA MintType ==
    ASSUME minted \in Nat,
           NEW kinds \in Seq({"registered", "scanned", "changed", "removed"})
    PROVE  /\ Mint(kinds) \in Seq(EventRecord) /\ Len(Mint(kinds)) = Len(kinds)
           /\ \A i \in 1..Len(kinds) : Mint(kinds)[i] = [kind |-> kinds[i], n |-> minted + i]
<1>1. Len(kinds) \in Nat
  BY LenProperties
<1>2. \A i \in 1..Len(kinds) : [kind |-> kinds[i], n |-> minted + i] \in EventRecord
  BY <1>1, ElementOfSeq DEF EventRecord
<1>3. Mint(kinds) \in [1..Len(kinds) -> EventRecord]
  BY <1>2 DEF Mint
<1>4. Mint(kinds) \in Seq(EventRecord)
  BY <1>1, <1>3
<1>5. Len(Mint(kinds)) = Len(kinds)
  BY <1>1, <1>3, <1>4, LenProperties
<1> QED
  BY <1>4, <1>5 DEF Mint

-----------------------------------------------------------------------------
(* The fold. *)

LEMMA NumbersType ==
    ASSUME NEW s \in Seq(EventRecord)
    PROVE  Numbers(s) \in Seq(Nat) /\ Len(Numbers(s)) = Len(s)
<1>1. Len(s) \in Nat /\ \A i \in 1..Len(s) : s[i] \in EventRecord
  BY LenProperties, ElementOfSeq
<1>2. Numbers(s) \in [1..Len(s) -> Nat]
  BY <1>1 DEF Numbers, EventRecord
<1>3. Numbers(s) \in Seq(Nat)
  BY <1>1, <1>2
<1> QED
  BY <1>1, <1>2, <1>3, LenProperties

LEMMA NumbersAppend ==
    ASSUME NEW s \in Seq(EventRecord), NEW e \in EventRecord
    PROVE  Numbers(Append(s, e)) = Append(Numbers(s), e.n)
<1> DEFINE t == Append(s, e)
<1>1. /\ t \in Seq(EventRecord) /\ Len(t) = Len(s) + 1 /\ Len(s) \in Nat
      /\ \A i \in 1..Len(s) : t[i] = s[i]
      /\ t[Len(s) + 1] = e /\ e.n \in Nat
  BY AppendProperties, LenProperties DEF EventRecord
<1>2. /\ Numbers(s) \in Seq(Nat) /\ Len(Numbers(s)) = Len(s)
      /\ Numbers(t) \in Seq(Nat) /\ Len(Numbers(t)) = Len(s) + 1
  BY <1>1, NumbersType
<1> DEFINE u == Append(Numbers(s), e.n)
<1>3. /\ u \in Seq(Nat) /\ Len(u) = Len(s) + 1
      /\ \A i \in 1..Len(s) : u[i] = Numbers(s)[i]
      /\ u[Len(s) + 1] = e.n
  BY <1>1, <1>2, AppendProperties
<1> HIDE DEF t, u
<1>4. ASSUME NEW i \in 1..Len(Numbers(t)) PROVE Numbers(t)[i] = u[i]
  <2>1. i \in 1..Len(t) /\ Numbers(t)[i] = t[i].n
    BY <1>1, <1>2 DEF Numbers
  <2>2. CASE i = Len(s) + 1
    BY <1>1, <1>3, <2>1, <2>2
  <2>3. CASE i # Len(s) + 1
    <3>1. i \in 1..Len(s)
      BY <1>1, <2>1, <2>3
    <3>2. Numbers(s)[i] = s[i].n
      BY <3>1 DEF Numbers
    <3> QED
      BY <1>1, <1>3, <2>1, <3>1, <3>2
  <2> QED
    BY <2>2, <2>3
<1>5. Numbers(t) = u
  BY <1>2, <1>3, <1>4, SeqEqual
<1> QED
  BY <1>5 DEF t, u

LEMMA CountAppend ==
    ASSUME NEW s \in Seq(EventRecord), NEW e \in EventRecord, NEW kind
    PROVE  /\ Count(s, kind) \in Nat
           /\ Count(Append(s, e), kind) = Count(s, kind) + (IF e.kind = kind THEN 1 ELSE 0)
<1> DEFINE t == Append(s, e)
           old == {i \in 1..Len(s) : s[i].kind = kind}
           new == {i \in 1..Len(t) : t[i].kind = kind}
<1>1. /\ Len(t) = Len(s) + 1 /\ Len(s) \in Nat
      /\ \A i \in 1..Len(s) : t[i] = s[i]
      /\ t[Len(s) + 1] = e
  BY AppendProperties, LenProperties
<1>2. IsFiniteSet(1..Len(s))
  BY <1>1, FS_Interval
<1>3. IsFiniteSet(old)
  BY <1>2, FS_Subset
<1>4. new = IF e.kind = kind THEN old \cup {Len(s) + 1} ELSE old
  <2> HIDE DEF t
  <2>1. \A i : i \in 1..Len(t) <=> i \in 1..Len(s) \/ i = Len(s) + 1
    BY <1>1
  <2>2. \A i \in 1..Len(s) : t[i].kind = s[i].kind
    BY <1>1
  <2> QED
    BY <1>1, <2>1, <2>2
<1>5. Len(s) + 1 \notin old
  BY <1>1
<1> HIDE DEF old, new
<1>6. Cardinality(old) \in Nat
  BY <1>3, FS_CardinalityType
<1>7. Cardinality(new) = Cardinality(old) + (IF e.kind = kind THEN 1 ELSE 0)
  <2>1. CASE e.kind = kind
    <3>1. Cardinality(old \cup {Len(s) + 1}) = Cardinality(old) + 1
      BY <1>3, <1>5, FS_AddElement
    <3>2. new = old \cup {Len(s) + 1}
      BY <1>4, <2>1
    <3> QED
      BY <2>1, <3>1, <3>2
  <2>2. CASE e.kind # kind
    BY <1>4, <1>6, <2>2
  <2> QED
    BY <2>1, <2>2
<1> QED
  BY <1>6, <1>7 DEF Count, old, new, t

(* Latest is a suffix. *)
Few(n) == IF n > MaxMilestones THEN MaxMilestones ELSE n
LEMMA LatestIs ==
    ASSUME NEW s \in Seq(Nat), NEW m, m = Len(s)
    PROVE  /\ Latest(s) \in Seq(Nat) /\ Len(Latest(s)) = Few(m)
           /\ \A i \in 1..Few(m) : Latest(s)[i] = s[m - Few(m) + i]
<1>1. m \in Nat /\ MaxMilestones \in Nat
  BY LenProperties, MemoryBounds
<1> DEFINE n == Few(m)
<1>2. n \in Nat /\ n <= m
  BY <1>1 DEF Few
<1>3. (IF Len(s) > MaxMilestones THEN Len(s) - MaxMilestones + 1 ELSE 1) = Len(s) - n + 1
  BY <1>1 DEF Few
<1>4. Latest(s) = SubSeq(s, Len(s) - n + 1, Len(s))
  BY <1>3 DEF Latest
<1> HIDE DEF n
<1>5. /\ Latest(s) \in Seq(Nat) /\ Len(Latest(s)) = n
      /\ \A i \in 1..n : Latest(s)[i] = s[Len(s) - n + i]
  BY <1>2, <1>4, Suffix
<1> QED
  BY <1>5 DEF n

LEMMA LatestAppend ==
    ASSUME NEW s \in Seq(Nat), NEW n \in Nat
    PROVE  Latest(Append(s, n)) = Latest(Append(Latest(s), n))
<1> DEFINE t == Latest(s)
           u == Append(s, n)
           v == Append(t, n)
           a == Len(s)
           b == Len(t)
<1>1. /\ a \in Nat /\ MaxMilestones \in Nat \ {0}
      /\ t \in Seq(Nat) /\ b = Few(a)
      /\ \A i \in 1..b : t[i] = s[a - b + i]
  BY LenProperties, MemoryBounds, LatestIs
<1>2. /\ u \in Seq(Nat) /\ Len(u) = a + 1
      /\ \A i \in 1..a : u[i] = s[i]
      /\ u[a + 1] = n
  BY AppendProperties
<1> HIDE DEF t
<1>3. /\ v \in Seq(Nat) /\ Len(v) = b + 1
      /\ \A i \in 1..b : v[i] = t[i]
      /\ v[b + 1] = n
  BY <1>1, AppendProperties
<1> HIDE DEF u, v, a, b
<1>n. a \in Nat /\ b \in Nat
  BY <1>1 DEF Few
<1> DEFINE c == a + 1
           d == b + 1
<1>c. Len(u) = c /\ Len(v) = d /\ u \in Seq(Nat) /\ v \in Seq(Nat)
  BY <1>2, <1>3
<1> HIDE DEF c, d
<1>u. /\ Latest(u) \in Seq(Nat) /\ Len(Latest(u)) = Few(c)
      /\ \A i \in 1..Few(c) : Latest(u)[i] = u[c - Few(c) + i]
  BY <1>c, LatestIs
<1>v. /\ Latest(v) \in Seq(Nat) /\ Len(Latest(v)) = Few(d)
      /\ \A i \in 1..Few(d) : Latest(v)[i] = v[d - Few(d) + i]
  BY <1>c, LatestIs
<1>5. /\ Few(c) = Few(d) /\ b \in Nat /\ b <= a /\ Few(c) \in Nat
      /\ Few(d) <= d /\ c = a + 1 /\ d = b + 1
  BY <1>1, <1>n DEF Few, c, d
<1>6. ASSUME NEW i \in 1..Few(c) PROVE Latest(u)[i] = Latest(v)[i]
  <2> DEFINE j == c - Few(c) + i
             k == d - Few(d) + i
  <2>1. /\ j \in 1..c /\ k \in 1..d
        /\ j = c <=> k = d
        /\ a - b + k = j
    <3> DEFINE f == Few(c)
    <3>d. d = b + 1 /\ Few(d) <= d /\ Few(c) = Few(d)
      BY <1>5
    <3>f. f <= b + 1
      BY <3>d
    <3>1. f \in Nat /\ f <= b + 1 /\ i \in 1..f /\ b <= a /\ a \in Nat /\ b \in Nat
      BY <1>n, <1>5, <3>f
    <3>2. j = a + 1 - f + i /\ k = b + 1 - f + i /\ c = a + 1 /\ d = b + 1
      <4>1. c = a + 1 /\ d = b + 1
        BY <1>5
      <4>2. j = c - f + i /\ k = d - f + i
        BY <3>d
      <4> HIDE DEF f, j, k
      <4> QED
        BY <3>1, <4>1, <4>2
    <3> HIDE DEF f, j, k
    <3>3. j \in 1..(a + 1) /\ k \in 1..(b + 1)
      BY <3>1, <3>2
    <3>4. (j = a + 1 <=> k = b + 1) /\ a - b + k = j
      BY <3>1, <3>2
    <3> QED
      BY <3>2, <3>3, <3>4
  <2>2. Latest(u)[i] = u[j] /\ Latest(v)[i] = v[k]
    BY <1>u, <1>v, <1>5
  <2> HIDE DEF j, k
  <2>3. CASE j = c
    <3>1. u[j] = n /\ v[k] = n
      BY <1>2, <1>3, <1>5, <2>1, <2>3
    <3> QED
      BY <2>2, <3>1
  <2>4. CASE j # c
    <3>1. j \in 1..a /\ k \in 1..b
      BY <1>n, <1>5, <2>1, <2>4
    <3>2. u[j] = s[j] /\ v[k] = t[k] /\ t[k] = s[a - b + k]
      BY <1>1, <1>2, <1>3, <3>1
    <3> QED
      BY <2>1, <2>2, <3>2
  <2> QED
    BY <2>3, <2>4
<1>7. Latest(u) = Latest(v)
  BY <1>u, <1>v, <1>5, <1>6, SeqEqual
<1> QED
  BY <1>7 DEF t, u, v

-----------------------------------------------------------------------------
(* Types, and what a step does to the events that a caller has left. *)

(* The events that a caller has yet to capture. *)
LeftOf(me) == IF me.pc \in {"append", "check", "commit"} THEN me.events ELSE <<>>
Left(c) == LeftOf(caller[c])

LEMMA LeftType ==
    ASSUME MemoryShape, NEW c \in Caller
    PROVE  Left(c) \in Seq(EventRecord)
<1>1. caller[c] \in CallerState /\ <<>> \in Seq(EventRecord)
  BY EmptySeq DEF MemoryShape
<1>2. caller[c].pc \in {"append", "check", "commit"} => caller[c].events \in Seq(EventRecord)
  BY <1>1, CallersAre DEF Waiting, Checking, Writing, Some
<1> QED
  BY <1>1, <1>2 DEF Left, LeftOf

LEMMA CapturingLeft ==
    ASSUME NEW events \in Seq(EventRecord), NEW forgets
    PROVE  LeftOf(Capturing(events, forgets)) = events
<1>1. CASE events # <<>>
  BY <1>1 DEF LeftOf, Capturing
<1>2. CASE events = <<>>
  BY <1>2 DEF LeftOf, Capturing, Resting
<1> QED
  BY <1>1, <1>2

LEMMA TurnIs ==
    ASSUME MemoryShape, NEW c \in Caller, NEW me, Turn(c, me)
    PROVE  /\ caller'[c] = me
           /\ \A d \in Caller \ {c} : caller'[d] = caller[d]
           /\ me \in CallerState => caller' \in [Caller -> CallerState]
  BY DEF Turn, MemoryShape

(* The events of a step that mints them. *)
Kinds == {"registered", "scanned", "changed", "removed"}

LEMMA RegisterDoes ==
    ASSUME MemoryShape, NEW c \in Caller, Register(c)
    PROVE  \E kinds \in Seq(Kinds \ {"removed"}) :
             /\ kinds \in Seq(Kinds)
             /\ ~registered => kinds # <<>>
             /\ registered' = TRUE
             /\ minted' = minted + Len(kinds)
             /\ Turn(c, Capturing(Mint(kinds), FALSE))
             /\ UNCHANGED <<memory, folded, newest, marred>>
             /\ Left(c) = <<>>
<1>1. PICK seen \in {<<>>, <<"scanned">>}, changed \in {<<>>, <<"changed">>} :
        LET kinds == (IF registered THEN seen ELSE <<"registered">>) \o changed IN
        /\ caller[c] = Resting
        /\ registered' = TRUE
        /\ minted' = minted + Len(Mint(kinds))
        /\ Turn(c, Capturing(Mint(kinds), FALSE))
        /\ UNCHANGED <<memory, folded, newest, marred>>
  BY DEF Register
<1> DEFINE new == Kinds \ {"removed"}
           first == IF registered THEN seen ELSE <<"registered">>
           kinds == first \o changed
<1>2. /\ <<>> \in Seq(new) /\ <<"scanned">> \in Seq(new) /\ <<"changed">> \in Seq(new)
      /\ <<"registered">> \in Seq(new)
  BY EmptySeq DEF Kinds
<1>3. first \in Seq(new) /\ changed \in Seq(new)
  BY <1>2
<1>4. ~registered => first # <<>>
  OBVIOUS
<1>5. LeftOf(Resting) = <<>>
  BY DEF LeftOf, Resting
<1>6. caller[c] = Resting
  BY <1>1
<1>7. /\ registered' = TRUE
      /\ minted' = minted + Len(Mint(kinds))
      /\ Turn(c, Capturing(Mint(kinds), FALSE))
      /\ UNCHANGED <<memory, folded, newest, marred>>
  BY <1>1
<1> HIDE DEF first, new
<1>8. kinds \in Seq(new) /\ (~registered => kinds # <<>>)
  <2>1. kinds \in Seq(new)
    BY <1>3, ConcatProperties
  <2>2. kinds = <<>> => first = <<>>
    BY <1>3, ConcatEqualIffEmpty
  <2> QED
    BY <1>4, <2>1, <2>2
<1>9. kinds \in Seq(Kinds)
  BY <1>8, SeqMonotonic DEF new
<1>10. Len(Mint(kinds)) = Len(kinds)
  BY <1>9, MintType DEF MemoryShape, Kinds
<1> HIDE DEF kinds
<1> QED
  BY <1>5, <1>6, <1>7, <1>8, <1>9, <1>10 DEF Left, new

LEMMA RemoveDoes ==
    ASSUME MemoryShape, NEW c \in Caller, Remove(c) \/ (Prune(c) /\ registered)
    PROVE  \E forgets \in BOOLEAN :
             /\ registered' = FALSE
             /\ minted' = minted + 1
             /\ Turn(c, Capturing(Mint(<<"removed">>), forgets))
             /\ UNCHANGED <<memory, folded, newest, marred>>
             /\ Left(c) = <<>>
<1>0. caller[c].pc \in {"idle", "prune"}
  <2>1. Remove(c) => caller[c] = Resting
    BY DEF Remove
  <2>2. Prune(c) => caller[c].pc = "prune"
    BY DEF Prune
  <2> QED
    BY <2>1, <2>2 DEF Resting
<1>1. Left(c) = <<>>
  BY <1>0 DEF Left, LeftOf
<1>2. CASE Remove(c)
  BY <1>1, <1>2 DEF Remove
<1>3. CASE Prune(c) /\ registered
  BY <1>1, <1>3 DEF Prune
<1> QED
  BY <1>2, <1>3

LEMMA RemovedMint ==
    ASSUME minted \in Nat
    PROVE  /\ Mint(<<"removed">>) \in Seq(EventRecord) /\ Len(Mint(<<"removed">>)) = 1
           /\ Mint(<<"removed">>)[1] = [kind |-> "removed", n |-> minted + 1]
<1> DEFINE kinds == <<"removed">>
<1>1. /\ kinds \in Seq({"registered", "scanned", "changed", "removed"})
      /\ Len(kinds) = 1 /\ kinds[1] = "removed"
  OBVIOUS
<1> HIDE DEF kinds
<1>2. /\ Mint(kinds) \in Seq(EventRecord) /\ Len(Mint(kinds)) = 1
      /\ \A i \in 1..1 : Mint(kinds)[i] = [kind |-> kinds[i], n |-> minted + i]
  BY <1>1, MintType
<1>3. Mint(kinds)[1] = [kind |-> "removed", n |-> minted + 1]
  BY <1>1, <1>2
<1> QED
  BY <1>2, <1>3 DEF kinds

LEMMA EventIs ==
    ASSUME MemoryShape, NEW c \in Caller, caller[c].pc \in {"append", "check", "commit"}
    PROVE  /\ caller[c] \in Waiting \cup Checking \cup Writing
           /\ Left(c) = caller[c].events /\ Left(c) # <<>> /\ Len(Left(c)) \in Nat \ {0}
           /\ Event(c) = Left(c)[1] /\ Event(c) \in EventRecord
           /\ Tail(Left(c)) \in Seq(EventRecord)
           /\ Len(Tail(Left(c))) = Len(Left(c)) - 1
           /\ \A i \in 1..Len(Tail(Left(c))) : Tail(Left(c))[i] = Left(c)[i + 1]
           /\ caller[c].forgets \in BOOLEAN
<1>1. caller[c] \in Waiting \cup Checking \cup Writing
  BY CallersAre DEF MemoryShape
<1>2. Left(c) = caller[c].events /\ caller[c].forgets \in BOOLEAN
      /\ Left(c) \in Seq(EventRecord) /\ Left(c) # <<>>
  BY <1>1 DEF Left, LeftOf, Waiting, Checking, Writing, Some
<1>3. Len(Left(c)) \in Nat \ {0}
  BY <1>2, EmptySeq
<1>4. Event(c) = Left(c)[1]
  BY <1>2 DEF Event
<1>5. Left(c)[1] \in EventRecord
  BY <1>2, <1>3, ElementOfSeq
<1>6. /\ Tail(Left(c)) \in Seq(EventRecord)
      /\ Len(Tail(Left(c))) = Len(Left(c)) - 1
      /\ \A i \in 1..Len(Tail(Left(c))) : Tail(Left(c))[i] = Left(c)[i + 1]
  BY <1>2, HeadTailProperties
<1> QED
  BY <1>1, <1>2, <1>3, <1>4, <1>5, <1>6

LEMMA ApplyType ==
    ASSUME NEW base \in SUBSET Record, NEW e \in EventRecord
    PROVE  ApplyEvent(base, e) \in Record
<1> DEFINE old == IF base = {} THEN Blank(e) ELSE CHOOSE r \in base : TRUE
<1>1. /\ old.firstSeen \in Nat /\ old.scans \in Nat /\ old.changes \in Nat
      /\ old.milestones \in Seq(Nat) /\ e.n \in Nat
  BY EmptySeq DEF Blank, Record, EventRecord
<1>2. Status(base, e) \in {"active", "removed"}
  BY DEF Status
<1>3. Append(old.milestones, e.n) \in Seq(Nat)
  BY <1>1, AppendProperties
<1>4. Latest(Append(old.milestones, e.n)) \in Seq(Nat)
  BY <1>3, LatestIs
<1> HIDE DEF old
<1>5. [firstSeen |-> old.firstSeen,
       status |-> Status(base, e),
       scans |-> old.scans + (IF e.kind = "scanned" THEN 1 ELSE 0),
       changes |-> old.changes + (IF e.kind = "changed" THEN 1 ELSE 0),
       milestones |-> Latest(Append(old.milestones, e.n))] \in Record
  BY <1>1, <1>2, <1>4 DEF Record
<1> QED
  BY <1>5 DEF ApplyEvent, old

(* The actions that neither mint an event nor write the record.             *)
Quiet(c) == \/ Fix(c) \/ (Prune(c) /\ ~registered) \/ ReadBase(c) \/ Check(c)
            \/ CheckNoMore(c) \/ Copy(c)

LEMMA RetryType ==
    ASSUME NEW me \in Checking, NEW found \in SUBSET Record
    PROVE  /\ [me EXCEPT !.base = found, !.attempt = @ + 1] \in Checking
           /\ LeftOf([me EXCEPT !.base = found, !.attempt = @ + 1]) = LeftOf(me)
<1> DEFINE mid == [me EXCEPT !.base = found]
           next == [mid EXCEPT !.attempt = me.attempt + 1]
<1>1. me.attempt + 1 \in Nat /\ me.pc = "check"
  BY DEF Checking
<1>2. mid \in Checking /\ mid.pc = "check" /\ mid.events = me.events
  BY DEF Checking
<1> HIDE DEF mid
<1>3. next \in Checking /\ next.pc = "check" /\ next.events = me.events
  BY <1>1, <1>2 DEF Checking
<1>4. [me EXCEPT !.base = found, !.attempt = @ + 1] = next
  BY DEF mid, Checking
<1> QED
  BY <1>1, <1>3, <1>4 DEF LeftOf

LEMMA QuietIs ==
    ASSUME MemoryShape, NEW c \in Caller, Quiet(c)
    PROVE  /\ UNCHANGED <<registered, memory, minted, folded, newest>>
           /\ marred \subseteq marred'
           /\ caller' \in [Caller -> CallerState]
           /\ \A d \in Caller : Left(d)' = Left(d)
           /\ \A d \in Caller \ {c} : caller'[d] = caller[d]
<1> DEFINE me == caller[c]
<1> DEFINE Goal == /\ UNCHANGED <<registered, memory, minted, folded, newest>>
                   /\ marred \subseteq marred'
                   /\ caller'[c] \in CallerState /\ LeftOf(caller'[c]) = Left(c)
<1>1. \E state : Turn(c, state)
  <2>1. CASE Fix(c)
    BY <2>1 DEF Fix
  <2>2. CASE Prune(c) /\ ~registered
    BY <2>2 DEF Prune
  <2>3. CASE ReadBase(c)
    BY <2>3 DEF ReadBase
  <2>4. CASE Check(c)
    BY <2>4 DEF Check
  <2>5. CASE CheckNoMore(c)
    BY <2>5 DEF CheckNoMore
  <2>6. CASE Copy(c)
    BY <2>6 DEF Copy
  <2> QED
    BY <2>1, <2>2, <2>3, <2>4, <2>5, <2>6 DEF Quiet
<1>2. /\ caller' = [caller EXCEPT ![c] = caller'[c]]
      /\ \A d \in Caller \ {c} : caller'[d] = caller[d]
  BY <1>1, TurnIs DEF Turn, MemoryShape
<1>3. Goal
  <2>1. CASE Fix(c)
    <3>1. PICK pc \in {"prune", "copy"} : Turn(c, [pc |-> pc])
      <4>1. Turn(c, [pc |-> "prune"]) \/ Turn(c, [pc |-> "copy"])
        BY <2>1 DEF Fix
      <4> QED
        BY <4>1
    <3>2. caller'[c] = [pc |-> pc] /\ me.pc = "idle"
      <4>1. me = Resting
        BY <2>1 DEF Fix
      <4> QED
        BY <3>1, <4>1, TurnIs DEF Resting
    <3>3. UNCHANGED <<registered, memory, minted, folded, newest, marred>>
      BY <2>1 DEF Fix
    <3> QED
      BY <3>2, <3>3 DEF Left, LeftOf, CallerState
  <2>2. CASE Prune(c) /\ ~registered
    <3>1. caller'[c] = Resting /\ me.pc = "prune" /\ UNCHANGED minted
          /\ registered' = FALSE /\ UNCHANGED <<memory, folded, newest, marred>>
      BY <2>2, TurnIs DEF Prune
    <3>2. UNCHANGED registered
      <4>1. registered = FALSE
        BY <2>2 DEF MemoryShape
      <4> QED
        BY <3>1, <4>1
    <3>3. caller'[c] \in CallerState /\ LeftOf(caller'[c]) = Left(c)
      BY <3>1 DEF Left, LeftOf, CallerState, Resting
    <3> QED
      BY <3>1, <3>2, <3>3
  <2>3. CASE ReadBase(c)
    <3>1. PICK found \in {memory, {}}, marks \in {{}, {"unread"}} :
             /\ me.pc = "append"
             /\ Turn(c, [pc |-> "check", events |-> me.events,
                         forgets |-> me.forgets, base |-> found, attempt |-> 0])
             /\ Mar(marks)
             /\ UNCHANGED <<registered, memory, minted, folded, newest>>
      BY <2>3 DEF ReadBase
    <3>2. caller'[c] = [pc |-> "check", events |-> me.events,
                        forgets |-> me.forgets, base |-> found, attempt |-> 0]
      BY <3>1, TurnIs
    <3>3. me \in Waiting /\ found \in SUBSET Record
      BY <3>1, CallersAre DEF MemoryShape
    <3>4. caller'[c] \in Checking
      BY <3>2, <3>3 DEF Waiting, Checking
    <3> QED
      BY <3>1, <3>2, <3>4 DEF Left, LeftOf, CallerState, Mar
  <2>4. CASE Check(c)
    <3>1. PICK found \in {memory, {}}, marks \in {{}, {"unread"}} :
             /\ me.pc = "check" /\ me.attempt < MaxAttempts
             /\ IF Agrees(c, found) THEN Turn(c, Committing(c))
                ELSE Turn(c, [me EXCEPT !.base = found, !.attempt = @ + 1])
             /\ Mar(marks)
             /\ UNCHANGED <<registered, memory, minted, folded, newest>>
      BY <2>4 DEF Check
    <3>2. me \in Checking /\ found \in SUBSET Record /\ memory \in SUBSET Record
      BY <3>1, CallersAre DEF MemoryShape
    <3>3. \/ caller'[c] = Committing(c)
          \/ caller'[c] = [me EXCEPT !.base = found, !.attempt = @ + 1]
      BY <3>1, TurnIs
    <3>4. Committing(c) \in Writing /\ LeftOf(Committing(c)) = Left(c)
      BY <3>2 DEF Committing, Writing, Checking, Left, LeftOf
    <3>5. /\ [me EXCEPT !.base = found, !.attempt = @ + 1] \in Checking
          /\ LeftOf([me EXCEPT !.base = found, !.attempt = @ + 1]) = Left(c)
      BY <3>2, RetryType DEF Left
    <3> QED
      BY <3>1, <3>3, <3>4, <3>5 DEF CallerState, Mar
  <2>5. CASE CheckNoMore(c)
    <3>1. /\ me.pc = "check" /\ Turn(c, Committing(c))
          /\ marred \subseteq marred'
          /\ UNCHANGED <<registered, memory, minted, folded, newest>>
      BY <2>5 DEF CheckNoMore, Mar
    <3>2. me \in Checking /\ memory \in SUBSET Record
      BY <3>1, CallersAre DEF MemoryShape
    <3>3. caller'[c] = Committing(c)
      BY <3>1, TurnIs
    <3>4. Committing(c) \in Writing /\ LeftOf(Committing(c)) = Left(c)
      BY <3>2 DEF Committing, Writing, Checking, Left, LeftOf
    <3> QED
      BY <3>1, <3>3, <3>4 DEF CallerState
  <2>6. CASE Copy(c)
    <3>1. caller'[c] = [pc |-> "forget"] /\ me.pc = "copy"
          /\ UNCHANGED <<registered, memory, minted, folded, newest, marred>>
      BY <2>6, TurnIs DEF Copy
    <3> QED
      BY <3>1 DEF Left, LeftOf, CallerState
  <2> QED
    BY <2>1, <2>2, <2>3, <2>4, <2>5, <2>6 DEF Quiet
<1>4. caller' \in [Caller -> CallerState]
  BY <1>2, <1>3 DEF MemoryShape
<1>5. \A d \in Caller : Left(d)' = Left(d)
  BY <1>2, <1>3 DEF Left
<1> QED
  BY <1>2, <1>3, <1>4, <1>5

(* A step that captures the first event of a caller, or fails to.           *)
LEMMA CapturedIs ==
    ASSUME MemoryShape, NEW c \in Caller, caller[c].pc \in {"append", "check", "commit"},
           Captured(c)
    PROVE  /\ caller' \in [Caller -> CallerState] /\ caller'[c].pc # "commit"
           /\ \A d \in Caller \ {c} : caller'[d] = caller[d]
           /\ Left(c)' = Tail(Left(c))
<1>1. Left(c) = caller[c].events /\ Tail(Left(c)) \in Seq(EventRecord)
      /\ caller[c].forgets \in BOOLEAN
  BY EventIs
<1> DEFINE next == Capturing(Tail(caller[c].events), caller[c].forgets)
<1>2. next \in CallerState /\ next.pc # "commit" /\ LeftOf(next) = Tail(Left(c))
  BY <1>1, CapturingType, CapturingLeft
<1>3. Turn(c, next)
  BY DEF Captured
<1> HIDE DEF next
<1>4. /\ caller'[c] = next /\ \A d \in Caller \ {c} : caller'[d] = caller[d]
      /\ caller' \in [Caller -> CallerState]
  BY <1>2, <1>3, TurnIs
<1> QED
  BY <1>2, <1>4 DEF Left

(* A step that mints events.                                                 *)
LEMMA MintingIs ==
    ASSUME MemoryShape, NEW c \in Caller, Left(c) = <<>>,
           NEW kinds \in Seq(Kinds), NEW forgets \in BOOLEAN,
           Turn(c, Capturing(Mint(kinds), forgets)), minted' = minted + Len(kinds)
    PROVE  /\ caller' \in [Caller -> CallerState] /\ caller'[c].pc # "commit"
           /\ \A d \in Caller \ {c} : caller'[d] = caller[d]
           /\ Len(Left(c)') = Len(kinds) /\ Len(kinds) \in Nat
           /\ \A i \in 1..Len(kinds) : Left(c)'[i] = [kind |-> kinds[i], n |-> minted + i]
           /\ minted \in Nat /\ minted' \in Nat
<1>1. minted \in Nat /\ Len(kinds) \in Nat
  BY LenProperties DEF MemoryShape
<1>2. /\ Mint(kinds) \in Seq(EventRecord) /\ Len(Mint(kinds)) = Len(kinds)
      /\ \A i \in 1..Len(kinds) : Mint(kinds)[i] = [kind |-> kinds[i], n |-> minted + i]
  BY <1>1, MintType DEF Kinds
<1> DEFINE events == Mint(kinds)
           next == Capturing(events, forgets)
<1>3. next \in CallerState /\ next.pc # "commit" /\ LeftOf(next) = events
  BY <1>2, CapturingType, CapturingLeft
<1> HIDE DEF events, next
<1>4. /\ caller'[c] = next /\ \A d \in Caller \ {c} : caller'[d] = caller[d]
      /\ caller' \in [Caller -> CallerState]
  BY <1>3, TurnIs DEF next, events
<1>5. Left(c)' = events
  BY <1>3, <1>4 DEF Left
<1> QED
  BY <1>1, <1>2, <1>3, <1>4, <1>5 DEF events

(* The steps, one by one. *)
Removes(c) == Remove(c) \/ (Prune(c) /\ registered)
Ends(c) == CaptureFails(c) \/ Kill(c)

LEMMA MemorySteps ==
    MemoryNext => \/ \E c \in Caller : \/ Quiet(c) \/ Register(c) \/ Removes(c) \/ Commit(c)
                                       \/ Ends(c) \/ Forget(c)
                  \/ WebRemove
  BY DEF MemoryNext, Quiet, Removes, Ends

LEMMA CommitDoes ==
    ASSUME MemoryShape, NEW c \in Caller, Commit(c)
    PROVE  /\ caller[c] \in Writing /\ caller[c].pc = "commit"
           /\ Event(c) \in EventRecord /\ Event(c) = Left(c)[1]
           /\ memory' = {ApplyEvent(caller[c].base, Event(c))}
           /\ ApplyEvent(caller[c].base, Event(c)) \in Record
           /\ folded' = Append(folded, Event(c)) /\ folded' \in Seq(EventRecord)
           /\ newest' = (IF Event(c).n > newest THEN Event(c).n ELSE newest)
           /\ newest' \in Nat
           /\ marred \subseteq marred'
           /\ memory # caller[c].seen => "raced" \in marred'
           /\ newest > Event(c).n => "crossed" \in marred'
           /\ UNCHANGED <<registered, minted>>
           /\ caller' \in [Caller -> CallerState] /\ caller'[c].pc # "commit"
           /\ \A d \in Caller \ {c} : caller'[d] = caller[d]
           /\ Left(c)' = Tail(Left(c))
<1>1. /\ caller[c].pc = "commit"
      /\ memory' = {ApplyEvent(caller[c].base, Event(c))}
      /\ folded' = Append(folded, Event(c))
      /\ newest' = (IF Event(c).n > newest THEN Event(c).n ELSE newest)
      /\ Captured(c)
      /\ UNCHANGED <<registered, minted>>
  BY DEF Commit
<1>2. caller[c] \in Writing
  BY <1>1, CallersAre DEF MemoryShape
<1>3. Event(c) \in EventRecord /\ Event(c) = Left(c)[1]
  BY <1>1, EventIs
<1>4. ApplyEvent(caller[c].base, Event(c)) \in Record
  BY <1>2, <1>3, ApplyType DEF Writing
<1>5. folded' \in Seq(EventRecord)
  BY <1>1, <1>3, AppendProperties DEF MemoryShape
<1>6. newest' \in Nat
  BY <1>1, <1>3 DEF MemoryShape, EventRecord
<1>7. /\ marred \subseteq marred'
      /\ memory # caller[c].seen => "raced" \in marred'
      /\ newest > Event(c).n => "crossed" \in marred'
  <2> DEFINE race == IF memory = caller[c].seen THEN {} ELSE {"raced"}
             cross == IF newest > Event(c).n THEN {"crossed"} ELSE {}
  <2>1. marred' = marred \cup (race \cup cross)
    BY DEF Commit, Mar
  <2> QED
    BY <2>1
<1>8. /\ caller' \in [Caller -> CallerState] /\ caller'[c].pc # "commit"
      /\ \A d \in Caller \ {c} : caller'[d] = caller[d]
      /\ Left(c)' = Tail(Left(c))
  BY <1>1, CapturedIs
<1> QED
  BY <1>1, <1>2, <1>3, <1>4, <1>5, <1>6, <1>7, <1>8

LEMMA MemoryStart == MemoryInit => MemoryShape
<1> SUFFICES ASSUME MemoryInit PROVE MemoryShape
  OBVIOUS
<1>1. registered \in BOOLEAN /\ minted \in Nat /\ newest \in Nat /\ memory \in SUBSET Record
  BY DEF MemoryInit
<1>2. folded \in Seq(EventRecord)
  BY EmptySeq DEF MemoryInit
<1>3. caller \in [Caller -> CallerState]
  BY DEF MemoryInit, CallerState
<1> QED
  BY <1>1, <1>2, <1>3 DEF MemoryShape

LEMMA StepMemoryShape ==
    ASSUME MemoryShape, [MemoryNext]_memoryVars
    PROVE  MemoryShape'
<1>1. CASE UNCHANGED memoryVars
  BY <1>1 DEF memoryVars, MemoryShape
<1>2. ASSUME NEW c \in Caller, Quiet(c) PROVE MemoryShape'
  BY <1>2, QuietIs DEF MemoryShape
<1>3. ASSUME NEW c \in Caller, Register(c) PROVE MemoryShape'
  <2>1. PICK kinds \in Seq(Kinds) :
             /\ registered' = TRUE
             /\ minted' = minted + Len(kinds)
             /\ Turn(c, Capturing(Mint(kinds), FALSE))
             /\ UNCHANGED <<memory, folded, newest, marred>>
             /\ Left(c) = <<>>
    BY <1>3, RegisterDoes
  <2>2. caller' \in [Caller -> CallerState] /\ minted' \in Nat
    BY <2>1, MintingIs
  <2> QED
    BY <2>1, <2>2 DEF MemoryShape
<1>4. ASSUME NEW c \in Caller, Removes(c) PROVE MemoryShape'
  <2>1. PICK forgets \in BOOLEAN :
             /\ registered' = FALSE
             /\ minted' = minted + 1
             /\ Turn(c, Capturing(Mint(<<"removed">>), forgets))
             /\ UNCHANGED <<memory, folded, newest, marred>>
             /\ Left(c) = <<>>
    BY <1>4, RemoveDoes DEF Removes
  <2>2. <<"removed">> \in Seq(Kinds) /\ Len(<<"removed">>) = 1
    BY DEF Kinds
  <2>3. caller' \in [Caller -> CallerState] /\ minted' \in Nat
    BY <2>1, <2>2, MintingIs
  <2> QED
    BY <2>1, <2>3 DEF MemoryShape
<1>5. ASSUME NEW c \in Caller, Commit(c) PROVE MemoryShape'
  <2>1. /\ memory' \in SUBSET Record /\ folded' \in Seq(EventRecord) /\ newest' \in Nat
        /\ UNCHANGED <<registered, minted>> /\ caller' \in [Caller -> CallerState]
    BY <1>5, CommitDoes
  <2> QED
    BY <2>1 DEF MemoryShape
<1>6. ASSUME NEW c \in Caller, Ends(c) PROVE MemoryShape'
  <2>1. CASE CaptureFails(c)
    <3>1. caller[c].pc \in {"append", "commit"} /\ Captured(c)
          /\ UNCHANGED <<registered, memory, minted, folded, newest>>
      BY <2>1 DEF CaptureFails
    <3>2. caller' \in [Caller -> CallerState]
      BY <3>1, CapturedIs
    <3> QED
      BY <3>1, <3>2 DEF MemoryShape
  <2>2. CASE Kill(c)
    <3>1. Turn(c, Resting) /\ UNCHANGED <<registered, memory, minted, folded, newest>>
      BY <2>2 DEF Kill
    <3>2. caller' \in [Caller -> CallerState]
      BY <3>1, TurnIs DEF CallerState
    <3> QED
      BY <3>1, <3>2 DEF MemoryShape
  <2> QED
    BY <1>6, <2>1, <2>2 DEF Ends
<1>7. ASSUME NEW c \in Caller, Forget(c) PROVE MemoryShape'
  <2>1. /\ memory' = {} /\ folded' = <<>> /\ Turn(c, Resting)
        /\ UNCHANGED <<registered, minted, newest>>
    BY <1>7 DEF Forget
  <2>2. caller' \in [Caller -> CallerState]
    BY <2>1, TurnIs DEF CallerState
  <2> QED
    BY <2>1, <2>2, EmptySeq DEF MemoryShape
<1>8. CASE WebRemove
  BY <1>8 DEF WebRemove, MemoryShape
<1> QED
  BY <1>1, <1>2, <1>3, <1>4, <1>5, <1>6, <1>7, <1>8, MemorySteps

-----------------------------------------------------------------------------
(* The record is the fold of what was written to it, and a caller about to   *)
(* write has read what was there.                                            *)
Summed(r, s) ==
    /\ r.scans = Count(s, "scanned") /\ r.changes = Count(s, "changed")
    /\ r.milestones = Latest(Numbers(s))
BaseSeen(c) == caller[c].pc = "commit" => caller[c].base = caller[c].seen
Fits ==
    /\ memory = {} <=> folded = <<>>
    /\ \A r \in memory : r.firstSeen = folded[1].n /\ Summed(r, folded)
    /\ \A c \in Caller : BaseSeen(c)
Folding == marred \cap {"raced", "forced", "unread"} = {} => Fits

LEMMA EmptySummed ==
    ASSUME NEW e
    PROVE  Summed(Blank(e), <<>>)
<1>1. Len(<<>>) = 0
  OBVIOUS
<1>2. \A kind : {i \in 1..Len(<<>>) : <<>>[i].kind = kind} = {}
  BY <1>1
<1>3. Count(<<>>, "scanned") = 0 /\ Count(<<>>, "changed") = 0
  BY <1>2, FS_EmptySet DEF Count
<1>4. <<>> \in Seq(EventRecord) /\ <<>> \in Seq(Nat)
  BY EmptySeq
<1>5. Numbers(<<>>) = <<>>
  <2>1. Numbers(<<>>) \in Seq(Nat) /\ Len(Numbers(<<>>)) = 0
    BY <1>1, <1>4, NumbersType
  <2> QED
    BY <2>1, EmptySeq
<1>6. Latest(<<>>) = <<>>
  <2>1. Latest(<<>>) \in Seq(Nat) /\ Len(Latest(<<>>)) = Few(0)
    BY <1>1, <1>4, LatestIs
  <2>2. Few(0) = 0
    BY MemoryBounds DEF Few
  <2> QED
    BY <2>1, <2>2, EmptySeq
<1> QED
  BY <1>3, <1>5, <1>6 DEF Summed, Blank

LEMMA SummedOn ==
    ASSUME NEW s \in Seq(EventRecord), NEW e \in EventRecord, NEW old, Summed(old, s),
           NEW status
    PROVE  Summed([firstSeen |-> old.firstSeen, status |-> status,
                   scans |-> old.scans + (IF e.kind = "scanned" THEN 1 ELSE 0),
                   changes |-> old.changes + (IF e.kind = "changed" THEN 1 ELSE 0),
                   milestones |-> Latest(Append(old.milestones, e.n))], Append(s, e))
<1>1. /\ Count(Append(s, e), "scanned")
           = Count(s, "scanned") + (IF e.kind = "scanned" THEN 1 ELSE 0)
      /\ Count(Append(s, e), "changed")
           = Count(s, "changed") + (IF e.kind = "changed" THEN 1 ELSE 0)
  BY CountAppend
<1>2. Numbers(s) \in Seq(Nat) /\ e.n \in Nat
  BY NumbersType DEF EventRecord
<1>3. Latest(Numbers(Append(s, e))) = Latest(Append(old.milestones, e.n))
  <2>1. Numbers(Append(s, e)) = Append(Numbers(s), e.n)
    BY NumbersAppend
  <2>2. Latest(Append(Numbers(s), e.n)) = Latest(Append(Latest(Numbers(s)), e.n))
    BY <1>2, LatestAppend
  <2> QED
    BY <2>1, <2>2 DEF Summed
<1> QED
  BY <1>1, <1>3 DEF Summed

LEMMA ApplyFits ==
    ASSUME MemoryShape, Fits, NEW e \in EventRecord, NEW r,
           r = ApplyEvent(memory, e)
    PROVE  /\ r.firstSeen = Append(folded, e)[1].n
           /\ Summed(r, Append(folded, e))
<1> DEFINE old == IF memory = {} THEN Blank(e) ELSE CHOOSE x \in memory : TRUE
<1>1. folded \in Seq(EventRecord)
  BY DEF MemoryShape
<1>2. Summed(old, folded) /\ old.firstSeen = Append(folded, e)[1].n
  <2>1. CASE memory = {}
    <3>1. folded = <<>> /\ Append(folded, e)[1] = e
      BY <1>1, <2>1 DEF Fits
    <3> QED
      BY <2>1, <3>1, EmptySummed DEF Blank
  <2>2. CASE memory # {}
    <3>1. old \in memory
      BY <2>2
    <3>2. Summed(old, folded) /\ old.firstSeen = folded[1].n /\ folded # <<>>
      BY <2>2, <3>1 DEF Fits
    <3>3. Len(folded) \in Nat \ {0}
      BY <1>1, <3>2, EmptySeq
    <3>4. Append(folded, e)[1] = folded[1]
      BY <1>1, <3>3, AppendProperties
    <3> QED
      BY <3>2, <3>4
  <2> QED
    BY <2>1, <2>2
<1> HIDE DEF old
<1>3. r = [firstSeen |-> old.firstSeen, status |-> Status(memory, e),
           scans |-> old.scans + (IF e.kind = "scanned" THEN 1 ELSE 0),
           changes |-> old.changes + (IF e.kind = "changed" THEN 1 ELSE 0),
           milestones |-> Latest(Append(old.milestones, e.n))]
  BY DEF ApplyEvent, old
<1>4. Summed(r, Append(folded, e))
  BY <1>1, <1>2, <1>3, SummedOn
<1>5. r.firstSeen = old.firstSeen
  BY <1>3
<1> QED
  BY <1>2, <1>4, <1>5

LEMMA FoldingStart == MemoryInit => Folding
  BY DEF MemoryInit, Folding, Fits, BaseSeen, Resting

LEMMA StepFolding ==
    ASSUME MemoryShape, Folding, [MemoryNext]_memoryVars
    PROVE  Folding'
<1> SUFFICES ASSUME marred' \cap {"raced", "forced", "unread"} = {} PROVE Fits'
  BY DEF Folding
<1>0. marred \subseteq marred' => Fits
  BY DEF Folding
<1>1. ASSUME marred \subseteq marred', UNCHANGED <<memory, folded>>,
             NEW c \in Caller, \A d \in Caller \ {c} : caller'[d] = caller[d],
             BaseSeen(c)'
      PROVE  Fits'
  BY <1>0, <1>1 DEF Fits, BaseSeen
<1>2. CASE UNCHANGED memoryVars
  BY <1>0, <1>2 DEF memoryVars, Fits, BaseSeen
<1>3. ASSUME NEW c \in Caller, Quiet(c) PROVE Fits'
  <2>1. /\ UNCHANGED <<memory, folded>> /\ marred \subseteq marred'
        /\ \A d \in Caller \ {c} : caller'[d] = caller[d]
    BY <1>3, QuietIs
  <2>2. CASE Check(c)
    <3>1. PICK found \in {memory, {}}, marks \in {{}, {"unread"}} :
             /\ caller[c].pc = "check" /\ Reads(found, marks)
             /\ IF Agrees(c, found) THEN Turn(c, Committing(c))
                ELSE Turn(c, [caller[c] EXCEPT !.base = found, !.attempt = @ + 1])
             /\ Mar(marks)
      BY <2>2 DEF Check
    <3>2. found = memory
      BY <3>1 DEF Reads, Mar
    <3>3. CASE Agrees(c, found)
      <4>1. caller'[c] = Committing(c) /\ caller[c].base = memory
        BY <3>1, <3>2, <3>3, TurnIs DEF Agrees
      <4>2. BaseSeen(c)'
        BY <4>1 DEF BaseSeen, Committing
      <4> QED
        BY <1>1, <2>1, <4>2
    <3>4. CASE ~Agrees(c, found)
      <4>1. caller'[c] = [caller[c] EXCEPT !.base = found, !.attempt = @ + 1]
        BY <3>1, <3>4, TurnIs
      <4>2. caller[c] \in Checking
        BY <3>1, CallersAre DEF MemoryShape
      <4>3. found \in SUBSET Record
        BY <3>2 DEF MemoryShape
      <4> DEFINE me == caller[c]
      <4>4. caller'[c] \in Checking
        <5>1. me \in Checking
          BY <4>2
        <5>2. caller'[c] = [me EXCEPT !.base = found, !.attempt = @ + 1]
          BY <4>1
        <5> HIDE DEF me
        <5>3. [me EXCEPT !.base = found, !.attempt = @ + 1] \in Checking
          BY <4>3, <5>1, RetryType
        <5> QED
          BY <5>2, <5>3
      <4>5. BaseSeen(c)'
        BY <4>4 DEF BaseSeen, Checking
      <4> QED
        BY <1>1, <2>1, <4>5
    <3> QED
      BY <3>3, <3>4
  <2>3. CASE CheckNoMore(c)
    <3>1. Turn(c, Committing(c)) /\ Mar(IF memory = caller[c].base THEN {} ELSE {"forced"})
      BY <2>3 DEF CheckNoMore
    <3>2. caller'[c] = Committing(c) /\ memory = caller[c].base
      BY <3>1, TurnIs DEF Mar
    <3>3. BaseSeen(c)'
      BY <3>2 DEF BaseSeen, Committing
    <3> QED
      BY <1>1, <2>1, <3>3
  <2>4. CASE Fix(c) \/ (Prune(c) /\ ~registered) \/ ReadBase(c) \/ Copy(c)
    <3>1. caller'[c].pc # "commit"
      <4>1. CASE Fix(c)
        <5>1. PICK pc \in {"prune", "copy"} : Turn(c, [pc |-> pc])
          <6>1. Turn(c, [pc |-> "prune"]) \/ Turn(c, [pc |-> "copy"])
            BY <4>1 DEF Fix
          <6> QED
            BY <6>1
        <5>2. caller'[c] = [pc |-> pc]
          BY <5>1, TurnIs
        <5> QED
          BY <5>2
      <4>2. CASE Prune(c) /\ ~registered
        <5>1. caller'[c] = Resting
          BY <4>2, TurnIs DEF Prune
        <5> QED
          BY <5>1 DEF Resting
      <4>3. CASE ReadBase(c)
        BY <4>3, TurnIs DEF ReadBase
      <4>4. CASE Copy(c)
        BY <4>4, TurnIs DEF Copy
      <4> QED
        BY <2>4, <4>1, <4>2, <4>3, <4>4
    <3>2. BaseSeen(c)'
      BY <3>1 DEF BaseSeen
    <3> QED
      BY <1>1, <2>1, <3>2
  <2> QED
    BY <1>3, <2>2, <2>3, <2>4 DEF Quiet
<1>4. ASSUME NEW c \in Caller, Register(c) \/ Removes(c) PROVE Fits'
  <2>1. \E kinds \in Seq(Kinds), forgets \in BOOLEAN :
             /\ minted' = minted + Len(kinds)
             /\ Turn(c, Capturing(Mint(kinds), forgets))
             /\ UNCHANGED <<memory, folded, newest, marred>>
             /\ Left(c) = <<>>
    <3>1. CASE Register(c)
      BY <3>1, RegisterDoes
    <3>2. CASE Removes(c)
      <4>1. <<"removed">> \in Seq(Kinds) /\ Len(<<"removed">>) = 1
        BY DEF Kinds
      <4> QED
        BY <3>2, <4>1, RemoveDoes DEF Removes
    <3> QED
      BY <1>4, <3>1, <3>2
  <2>2. /\ caller'[c].pc # "commit" /\ UNCHANGED <<memory, folded, marred>>
        /\ \A d \in Caller \ {c} : caller'[d] = caller[d]
    BY <2>1, MintingIs
  <2>3. BaseSeen(c)'
    BY <2>2 DEF BaseSeen
  <2> QED
    BY <1>1, <2>2, <2>3
<1>5. ASSUME NEW c \in Caller, Commit(c) PROVE Fits'
  <2>1. /\ caller[c].pc = "commit" /\ Event(c) \in EventRecord
        /\ memory' = {ApplyEvent(caller[c].base, Event(c))}
        /\ folded' = Append(folded, Event(c))
        /\ marred \subseteq marred'
        /\ memory # caller[c].seen => "raced" \in marred'
        /\ caller'[c].pc # "commit"
        /\ \A d \in Caller \ {c} : caller'[d] = caller[d]
    BY <1>5, CommitDoes
  <2>2. caller[c].base = memory
    BY <1>0, <2>1 DEF Fits, BaseSeen
  <2> DEFINE e == Event(c)
             r == ApplyEvent(memory, e)
  <2>3. memory' = {r} /\ folded' = Append(folded, e)
    BY <2>1, <2>2
  <2> HIDE DEF e
  <2>4. e \in EventRecord /\ Fits
    BY <1>0, <2>1 DEF e
  <2>5. r.firstSeen = Append(folded, e)[1].n /\ Summed(r, Append(folded, e))
    BY <2>4, ApplyFits
  <2> HIDE DEF r
  <2>6. folded' # <<>> /\ memory' # {}
    BY <2>3, <2>4, AppendProperties DEF MemoryShape
  <2>7. \A x \in memory' : x.firstSeen = folded'[1].n /\ Summed(x, folded')
    BY <2>3, <2>5
  <2>8. \A d \in Caller : BaseSeen(d)'
    BY <2>1, <2>4 DEF Fits, BaseSeen
  <2> QED
    BY <2>6, <2>7, <2>8 DEF Fits, Summed
<1>6. ASSUME NEW c \in Caller, Ends(c) PROVE Fits'
  <2>1. CASE CaptureFails(c)
    <3>1. /\ caller[c].pc \in {"append", "commit"} /\ Captured(c)
          /\ marred \subseteq marred' /\ UNCHANGED <<memory, folded>>
      BY <2>1 DEF CaptureFails, Mar
    <3>2. caller'[c].pc # "commit" /\ \A d \in Caller \ {c} : caller'[d] = caller[d]
      BY <3>1, CapturedIs
    <3>3. BaseSeen(c)'
      BY <3>2 DEF BaseSeen
    <3> QED
      BY <1>1, <3>1, <3>2, <3>3
  <2>2. CASE Kill(c)
    <3>1. Turn(c, Resting) /\ marred \subseteq marred' /\ UNCHANGED <<memory, folded>>
      BY <2>2 DEF Kill, Mar
    <3>2. caller'[c].pc # "commit" /\ \A d \in Caller \ {c} : caller'[d] = caller[d]
      BY <3>1, TurnIs DEF Resting
    <3>3. BaseSeen(c)'
      BY <3>2 DEF BaseSeen
    <3> QED
      BY <1>1, <3>1, <3>2, <3>3
  <2> QED
    BY <1>6, <2>1, <2>2 DEF Ends
<1>7. ASSUME NEW c \in Caller, Forget(c) PROVE Fits'
  <2>1. /\ memory' = {} /\ folded' = <<>> /\ Turn(c, Resting) /\ marred \subseteq marred'
    BY <1>7 DEF Forget, Mar
  <2>2. caller'[c].pc # "commit" /\ \A d \in Caller \ {c} : caller'[d] = caller[d]
    BY <2>1, TurnIs DEF Resting
  <2> QED
    BY <1>0, <2>1, <2>2 DEF Fits, BaseSeen
<1>8. CASE WebRemove
  BY <1>0, <1>8 DEF WebRemove, Mar, Fits, BaseSeen
<1> QED
  BY <1>2, <1>3, <1>4, <1>5, <1>6, <1>7, <1>8, MemorySteps
-----------------------------------------------------------------------------
(* Until something mars it, the newest event minted is either still to be    *)
(* captured, or the last that was, and it says whether the project is in the *)
(* registry.                                                                 *)
Behind ==
    \A c \in Caller : \A i \in 1..Len(Left(c)) :
        /\ Left(c)[i].n <= minted
        /\ Left(c)[i].n = minted => (Left(c)[i].kind = "removed" <=> ~registered)
Awaited == \E c \in Caller : \E i \in 1..Len(Left(c)) : Left(c)[i].n = minted
Told == newest = minted /\ (registered <=> \E r \in memory : r.status = "active")
Follows == newest <= minted /\ Behind /\ (Awaited \/ Told)
Following == marred = {} => Follows

LEMMA FollowingStart == MemoryInit => Following
<1> SUFFICES ASSUME MemoryInit PROVE Follows
  BY DEF Following
<1>1. newest = 0 /\ minted = 0 /\ registered = FALSE /\ memory = {}
  BY DEF MemoryInit
<1>2. \A c \in Caller : Left(c) = <<>>
  BY DEF MemoryInit, Left, LeftOf, Resting
<1>3. Behind
  BY <1>2 DEF Behind
<1> QED
  BY <1>1, <1>3 DEF Follows, Told

LEMMA StepFollowing ==
    ASSUME MemoryShape, Following, [MemoryNext]_memoryVars
    PROVE  Following'
<1> SUFFICES ASSUME marred' = {} PROVE Follows'
  BY DEF Following
<1>0. marred \subseteq marred' => Follows
  BY DEF Following
<1>t. minted \in Nat /\ newest \in Nat /\ registered \in BOOLEAN
  BY DEF MemoryShape
<1>e. \A d \in Caller : \A i \in 1..Len(Left(d)) : Left(d)[i].n \in Nat
  <2>1. ASSUME NEW d \in Caller, NEW i \in 1..Len(Left(d)) PROVE Left(d)[i].n \in Nat
    <3>1. Left(d) \in Seq(EventRecord)
      BY LeftType
    <3>2. Left(d)[i] \in EventRecord
      BY <2>1, <3>1, ElementOfSeq
    <3> QED
      BY <3>2 DEF EventRecord
  <2> QED
    BY <2>1
<1>1. CASE UNCHANGED memoryVars
  BY <1>0, <1>1 DEF memoryVars, Follows, Behind, Awaited, Told, Left
<1>2. ASSUME NEW c \in Caller, Quiet(c) PROVE Follows'
  <2>1. /\ UNCHANGED <<registered, memory, minted, newest>> /\ marred \subseteq marred'
        /\ \A d \in Caller : Left(d)' = Left(d)
    BY <1>2, QuietIs
  <2> QED
    BY <1>0, <2>1 DEF Follows, Behind, Awaited, Told
<1>3. ASSUME NEW c \in Caller, Register(c) PROVE Follows'
  <2>1. PICK kinds \in Seq(Kinds \ {"removed"}) :
             /\ kinds \in Seq(Kinds)
             /\ ~registered => kinds # <<>>
             /\ registered' = TRUE
             /\ minted' = minted + Len(kinds)
             /\ Turn(c, Capturing(Mint(kinds), FALSE))
             /\ UNCHANGED <<memory, folded, newest, marred>>
             /\ Left(c) = <<>>
    BY <1>3, RegisterDoes
  <2> DEFINE n == Len(kinds)
  <2>2. /\ \A d \in Caller \ {c} : caller'[d] = caller[d]
        /\ Len(Left(c)') = n /\ n \in Nat
        /\ \A i \in 1..n : Left(c)'[i] = [kind |-> kinds[i], n |-> minted + i]
    BY <2>1, MintingIs
  <2>3. \A i \in 1..n : kinds[i] # "removed"
    BY <2>1, ElementOfSeq
  <2>4. Follows
    BY <1>0, <2>1
  <2>5. n = 0 => registered
    BY <1>t, <2>1, EmptySeq
  <2>6. minted' = minted + n
    BY <2>1
  <2> HIDE DEF n
  <2>7. \A i \in 1..n : Left(c)'[i].n = minted + i /\ Left(c)'[i].kind # "removed"
    BY <2>2, <2>3
  <2>8. \A d \in Caller \ {c} : Left(d)' = Left(d)
    BY <2>2 DEF Left
  <2>9. ASSUME NEW d \in Caller, NEW i \in 1..Len(Left(d)')
        PROVE  /\ Left(d)'[i].n <= minted'
               /\ Left(d)'[i].n = minted' => Left(d)'[i].kind # "removed"
    <3>1. CASE d = c
      BY <1>t, <2>2, <2>6, <2>7, <2>9, <3>1
    <3>2. CASE d # c
      <4>1. Left(d)' = Left(d) /\ i \in 1..Len(Left(d)) /\ Left(d)[i].n \in Nat
        BY <1>e, <2>8, <3>2
      <4>2. /\ Left(d)[i].n <= minted
            /\ Left(d)[i].n = minted => (Left(d)[i].kind = "removed" <=> ~registered)
        BY <2>4, <4>1 DEF Follows, Behind
      <4> QED
        BY <1>t, <2>2, <2>5, <2>6, <4>1, <4>2
    <3> QED
      BY <3>1, <3>2
  <2>10. Behind' /\ newest' <= minted'
    <3>1. Behind'
      BY <2>1, <2>9 DEF Behind
    <3> QED
      BY <1>t, <2>1, <2>2, <2>4, <2>6, <3>1 DEF Follows
  <2>11. Awaited' \/ Told'
    <3>1. CASE n = 0
      <4>1. minted' = minted /\ registered' = registered
        BY <1>t, <2>1, <2>5, <2>6, <3>1
      <4>2. CASE Awaited
        <5>1. PICK d \in Caller : \E i \in 1..Len(Left(d)) : Left(d)[i].n = minted
          BY <4>2 DEF Awaited
        <5>2. d # c
          BY <2>1, <5>1
        <5> QED
          BY <2>8, <4>1, <5>1, <5>2 DEF Awaited
      <4>3. CASE Told
        BY <2>1, <4>1, <4>3 DEF Told
      <4> QED
        BY <2>4, <4>2, <4>3 DEF Follows
    <3>2. CASE n # 0
      <4>1. n \in 1..Len(Left(c)') /\ Left(c)'[n].n = minted'
        BY <2>2, <2>6, <2>7, <3>2
      <4> QED
        BY <4>1 DEF Awaited
    <3> QED
      BY <3>1, <3>2
  <2> QED
    BY <2>10, <2>11 DEF Follows
<1>4. ASSUME NEW c \in Caller, Removes(c) PROVE Follows'
  <2> DEFINE kinds == <<"removed">>
  <2>1. PICK forgets \in BOOLEAN :
             /\ registered' = FALSE
             /\ minted' = minted + 1
             /\ Turn(c, Capturing(Mint(kinds), forgets))
             /\ UNCHANGED <<memory, folded, newest, marred>>
             /\ Left(c) = <<>>
    BY <1>4, RemoveDoes DEF Removes
  <2>2. kinds \in Seq(Kinds) /\ Len(kinds) = 1 /\ kinds[1] = "removed"
    BY DEF Kinds
  <2>3. minted' = minted + Len(kinds)
    BY <2>1, <2>2
  <2> HIDE DEF kinds
  <2>4. /\ \A d \in Caller \ {c} : caller'[d] = caller[d]
        /\ Len(Left(c)') = Len(kinds)
        /\ \A i \in 1..Len(kinds) : Left(c)'[i] = [kind |-> kinds[i], n |-> minted + i]
    BY <2>1, <2>2, <2>3, MintingIs
  <2>5. Len(Left(c)') = 1 /\ Left(c)'[1].n = minted' /\ Left(c)'[1].kind = "removed"
    BY <2>1, <2>2, <2>4
  <2>6. \A d \in Caller \ {c} : Left(d)' = Left(d)
    BY <2>4 DEF Left
  <2>7. Follows
    BY <1>0, <2>1
  <2>8. ASSUME NEW d \in Caller, NEW i \in 1..Len(Left(d)')
        PROVE  /\ Left(d)'[i].n <= minted'
               /\ Left(d)'[i].n = minted' => Left(d)'[i].kind = "removed"
    <3>1. CASE d = c
      <4>a. Len(Left(d)') = 1
        BY <2>5, <3>1
      <4>1. i = 1
        BY <2>8, <4>a
      <4> QED
        BY <1>t, <2>1, <2>5, <3>1, <4>1
    <3>2. CASE d # c
      <4>1. Left(d)' = Left(d) /\ i \in 1..Len(Left(d)) /\ Left(d)[i].n \in Nat
        BY <1>e, <2>6, <3>2
      <4>2. Left(d)[i].n <= minted
        BY <2>7, <4>1 DEF Follows, Behind
      <4> QED
        BY <1>t, <2>1, <4>1, <4>2
    <3> QED
      BY <3>1, <3>2
  <2>9. Behind'
    BY <2>1, <2>8 DEF Behind
  <2>10. Awaited'
    BY <2>5 DEF Awaited
  <2>11. newest' <= minted'
    BY <1>t, <2>1, <2>7 DEF Follows
  <2> QED
    BY <2>9, <2>10, <2>11 DEF Follows
<1>5. ASSUME NEW c \in Caller, Commit(c) PROVE Follows'
  <2> DEFINE e == Left(c)[1]
             r == ApplyEvent(caller[c].base, Event(c))
  <2>1. /\ caller[c].pc = "commit" /\ Event(c) = e /\ e \in EventRecord
        /\ memory' = {r}
        /\ newest' = (IF e.n > newest THEN e.n ELSE newest)
        /\ marred \subseteq marred'
        /\ newest > e.n => "crossed" \in marred'
        /\ UNCHANGED <<registered, minted>>
        /\ \A d \in Caller \ {c} : caller'[d] = caller[d]
        /\ Left(c)' = Tail(Left(c))
    <3>1. Event(c) = e
      BY <1>5, CommitDoes
    <3> QED
      BY <1>5, <3>1, CommitDoes
  <2>2. r.status = "active" <=> e.kind # "removed"
    BY <2>1 DEF ApplyEvent, Status
  <2>3. /\ Len(Left(c)) \in Nat \ {0}
        /\ Len(Tail(Left(c))) = Len(Left(c)) - 1
        /\ \A i \in 1..Len(Tail(Left(c))) : Tail(Left(c))[i] = Left(c)[i + 1]
    BY <2>1, EventIs
  <2>4. Follows
    BY <1>0, <2>1
  <2> HIDE DEF r
  <2>5. \A d \in Caller \ {c} : Left(d)' = Left(d)
    BY <2>1 DEF Left
  <2>6. 1 \in 1..Len(Left(c))
    BY <2>3
  <2>7. e.n \in Nat /\ e.n <= minted /\ (e.n = minted => (e.kind = "removed" <=> ~registered))
    BY <1>e, <2>4, <2>6 DEF Follows, Behind
  <2> HIDE DEF e
  <2>8. newest' = e.n
    BY <1>t, <2>1, <2>7
  <2>9. ASSUME NEW d \in Caller, NEW i \in 1..Len(Left(d)')
        PROVE  \E j \in 1..Len(Left(d)) : Left(d)'[i] = Left(d)[j]
    <3>1. CASE d = c
      <4>1. i \in 1..Len(Tail(Left(c))) /\ Left(c)'[i] = Tail(Left(c))[i]
        BY <2>1, <3>1
      <4>2. i + 1 \in 1..Len(Left(c)) /\ Left(c)'[i] = Left(c)[i + 1]
        BY <2>3, <4>1
      <4> QED
        BY <3>1, <4>2
    <3>2. CASE d # c
      BY <2>5, <3>2
    <3> QED
      BY <3>1, <3>2
  <2>10. Behind'
    BY <2>1, <2>4, <2>9 DEF Follows, Behind
  <2>11. Awaited' \/ Told'
    <3>1. CASE e.n = minted
      <4>1. registered <=> \E x \in {r} : x.status = "active"
        BY <1>t, <2>2, <2>7, <3>1
      <4> QED
        BY <2>1, <2>8, <3>1, <4>1 DEF Told
    <3>2. CASE e.n # minted
      <4>1. newest # minted
        BY <1>t, <2>1, <2>7, <3>2
      <4>a. PICK d \in Caller : \E i \in 1..Len(Left(d)) : Left(d)[i].n = minted
        BY <2>4, <4>1 DEF Follows, Awaited, Told
      <4>2. PICK i \in 1..Len(Left(d)) : Left(d)[i].n = minted
        BY <4>a
      <4>3. CASE d # c
        BY <2>1, <2>5, <4>2, <4>3 DEF Awaited
      <4>4. CASE d = c
        <5>1. i \in 1..Len(Left(c)) /\ i # 1
          BY <3>2, <4>2, <4>4 DEF e
        <5>2. i - 1 \in 1..Len(Tail(Left(c))) /\ (i - 1) + 1 = i
          BY <2>3, <5>1
        <5>3. Tail(Left(c))[i - 1] = Left(c)[i]
          BY <2>3, <5>2
        <5>4. Tail(Left(c))[i - 1].n = minted
          BY <4>2, <4>4, <5>3
        <5> QED
          BY <2>1, <5>2, <5>4 DEF Awaited
      <4> QED
        BY <4>3, <4>4
    <3> QED
      BY <3>1, <3>2
  <2>12. newest' <= minted'
    BY <2>1, <2>7, <2>8
  <2> QED
    BY <2>10, <2>11, <2>12 DEF Follows
<1>6. ASSUME NEW c \in Caller, Ends(c) PROVE Follows'
  <2>1. "failed" \in marred'
    BY <1>6 DEF Ends, CaptureFails, Kill, Mar
  <2> QED
    BY <2>1
<1>7. ASSUME NEW c \in Caller, Forget(c) PROVE Follows'
  <2>1. /\ caller[c].pc = "forget" /\ memory' = {} /\ Turn(c, Resting)
        /\ UNCHANGED <<registered, minted, newest>>
        /\ marred' = marred \cup (IF registered THEN {"forgot"} ELSE {})
    BY <1>7 DEF Forget, Mar
  <2>2. ~registered /\ Follows
    BY <1>0, <2>1
  <2>3. caller'[c] = Resting /\ \A d \in Caller \ {c} : caller'[d] = caller[d]
    BY <2>1, TurnIs
  <2>4. Left(c) = <<>> /\ Left(c)' = <<>>
    BY <2>1, <2>3 DEF Left, LeftOf, Resting
  <2>5. \A d \in Caller : Left(d)' = Left(d)
    BY <2>3, <2>4 DEF Left
  <2>6. Awaited => Awaited'
    BY <2>1, <2>5 DEF Awaited
  <2>7. Told => Told'
    BY <2>1, <2>2 DEF Told
  <2>8. Behind'
    BY <2>1, <2>2, <2>5 DEF Follows, Behind
  <2> QED
    BY <2>1, <2>2, <2>6, <2>7, <2>8 DEF Follows
<1>8. CASE WebRemove
  <2>1. "web" \in marred'
    BY <1>8 DEF WebRemove, Mar
  <2> QED
    BY <2>1
<1> QED
  BY <1>1, <1>2, <1>3, <1>4, <1>5, <1>6, <1>7, <1>8, MemorySteps

-----------------------------------------------------------------------------
(* The inductive invariant. *)
MemoryIInv == MemoryShape /\ Folding /\ Following

(* MemoryIInv holds of every state that the callers can reach: what they     *)
(* still have to capture is in order, and what they wrote adds up.           *)
THEOREM MemoryInvariant == MemorySpec => []MemoryIInv
<1>1. MemoryInit => MemoryIInv
  BY MemoryStart, FoldingStart, FollowingStart DEF MemoryIInv
<1>2. MemoryIInv /\ [MemoryNext]_memoryVars => MemoryIInv'
  BY StepMemoryShape, StepFolding, StepFollowing DEF MemoryIInv
<1> QED
  BY <1>1, <1>2, PTL DEF MemorySpec

(* The bounded compare-and-swap of recordMemoryEvent loses no event: the     *)
(* record is the fold of all that was written to it, unless another process  *)
(* wrote between the second read and the rename, the attempts ran out, or    *)
(* the record could not be read.                                             *)
THEOREM NoEventIsLost == MemorySpec => []FoldsAll
<1>1. MemoryIInv => FoldsAll
  BY DEF MemoryIInv, Folding, Fits, Summed, FoldsAll
<1> QED
  BY <1>1, MemoryInvariant, PTL

(* Once all is captured, the record says that the project is active exactly  *)
(* if it is registered, unless something of what StatusFollowsRegistry names *)
(* has happened: whatever the order in which the scans, the removals and the *)
(* repairs of the callers were captured.                                     *)
THEOREM StatusIsCurrent == MemorySpec => []StatusFollowsRegistry
<1>1. MemoryIInv => StatusFollowsRegistry
  <2> SUFFICES ASSUME MemoryIInv, \A c \in Caller : caller[c] = Resting, marred = {}
               PROVE  registered <=> \E r \in memory : r.status = "active"
    BY DEF StatusFollowsRegistry
  <2>1. \A c \in Caller : Left(c) = <<>>
    BY DEF Left, LeftOf, Resting
  <2>2. ~Awaited
    BY <2>1 DEF Awaited
  <2> QED
    BY <2>2 DEF MemoryIInv, Following, Follows, Told
<1> QED
  BY <1>1, MemoryInvariant, PTL
=============================================================================
