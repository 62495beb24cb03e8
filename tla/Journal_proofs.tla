--------------------------- MODULE Journal_proofs ---------------------------
(***************************************************************************)
(* Theorems about Journal: how far a generation may overshoot, and that    *)
(* records leave a log by age only.                                        *)
(***************************************************************************)
EXTENDS Journal, FiniteSetTheorems, SequenceTheorems, TLAPS

LEMMA JournalBounds ==
    /\ Capacity \in Nat \ {0} /\ {Rotated, Past} \subseteq Nat
    /\ MaxRecords \in Nat /\ Rotated + Past <= MaxRecords
    /\ Rotated <= Capacity /\ Past <= Capacity
  BY CapacityAssumption, PastAssumption, JournalBoundAssumption
     DEF CapacityAssumption, PastAssumption, JournalBoundAssumption

(* Files and logs hold records that were issued by a call.                  *)
Typed ==
    /\ JournalTypeOK
    /\ file \in Seq(Seq(Entry)) /\ written \in [Log -> Seq(Entry)]
    /\ \A w \in Writer : step[w] # "idle" => rec[w] \in Entry

(* No two paths name one file, and no writer holds a file of the other log. *)
Apart ==
    /\ \A l \in Log : live[l] # 0 => live[l] # old[l]
    /\ \A l, m \in Log : l # m =>
         \A f \in {live[l], old[l]} : f # 0 => f \notin {live[m], old[m]}
    /\ \A w \in Writer, l \in Log :
         fd[w] # 0 /\ at[w] # l => fd[w] \notin {live[l], old[l]}

(* The writers that have passed the size check of f, or of what f was then. *)
Aimed(f) ==
    {w \in Writer : \/ step[w] = "write" /\ fd[w] = f
                    \/ step[w] = "open" /\ live[at[w]] = f}
Room(f) == Len(file[f]) + Cardinality(Aimed(f)) <= Capacity - 1 + Cardinality(Writer)
AllHaveRoom == ~uncapped => \A f \in 1..Len(file) : Room(f)

(* Of a log to which s was written, c is in the live file and r in the      *)
(* rotated one: but for the excused, what was written after some point is   *)
(* in the live file, which holds no more than that, and what is in neither  *)
(* is a generation old.                                                     *)
Aged(s, c, r, ex) ==
    /\ \E cut \in 0..Len(s) :
         /\ Len(c) <= Len(s) - cut
         /\ \A i \in 1..Len(s) : i > cut => s[i] \in Members(c) \cup ex
    /\ \A i \in 1..Len(s) :
         \/ s[i] \in Members(c) \cup Members(r) \cup ex
         \/ Len(s) - i >= Capacity
AgedLog(l) == Aged(written[l], Held(live[l]), Held(old[l]), excused[l])

FaultlessWritten == faultless \subseteq Members(written["conflicts"])

JournalIInv ==
    /\ Typed
    /\ Apart
    /\ AllHaveRoom
    /\ \A l \in Log : AgedLog(l)
    /\ FaultlessWritten

-----------------------------------------------------------------------------
(* Sequences. *)

LEMMA AppendFacts ==
    ASSUME NEW S, NEW s \in Seq(S), NEW x \in S
    PROVE  /\ Append(s, x) \in Seq(S)
           /\ Len(Append(s, x)) = Len(s) + 1
           /\ Append(s, x)[Len(s) + 1] = x
           /\ \A i \in 1..Len(s) : Append(s, x)[i] = s[i]
  OBVIOUS

LEMMA EmptyFacts == ASSUME NEW S PROVE <<>> \in Seq(S) /\ Len(<<>>) = 0
  BY EmptySeq

LEMMA AppendMembers ==
    ASSUME NEW S, NEW s \in Seq(S), NEW x \in S
    PROVE  Members(Append(s, x)) = Members(s) \cup {x}
<1> DEFINE t == Append(s, x)
<1>1. /\ Len(s) \in Nat /\ Len(t) = Len(s) + 1
      /\ t[Len(s) + 1] = x /\ \A i \in 1..Len(s) : t[i] = s[i]
  BY AppendFacts
<1> HIDE DEF t
<1>2. ASSUME NEW y \in Members(t) PROVE y \in Members(s) \cup {x}
  <2>1. PICK i \in 1..Len(t) : y = t[i]
    BY DEF Members
  <2> QED
    BY <1>1, <2>1 DEF Members
<1>3. ASSUME NEW y \in Members(s) PROVE y \in Members(t)
  <2>1. PICK i \in 1..Len(s) : y = s[i]
    BY DEF Members
  <2> QED
    BY <1>1, <2>1 DEF Members
<1>4. x \in Members(t)
  BY <1>1 DEF Members
<1> QED
  BY <1>2, <1>3, <1>4 DEF t

LEMMA MembersIn == ASSUME NEW S, NEW s \in Seq(S) PROVE Members(s) \subseteq S
  BY DEF Members

-----------------------------------------------------------------------------
(* What becomes of a log. *)

LEMMA AgedExcused ==
    ASSUME NEW s \in Seq(Entry), NEW c \in Seq(Entry), NEW r \in Seq(Entry),
           NEW ex, NEW more, ex \subseteq more, Aged(s, c, r, ex)
    PROVE  Aged(s, c, r, more)
  BY DEF Aged

(* The live file is full and takes the rotated one's place.                 *)
LEMMA AgedRotated ==
    ASSUME NEW s \in Seq(Entry), NEW c \in Seq(Entry), NEW r \in Seq(Entry),
           NEW ex, Aged(s, c, r, ex), Len(c) >= Capacity
    PROVE  Aged(s, <<>>, c, ex)
<1>1. Len(s) \in Nat /\ Len(c) \in Nat /\ Capacity \in Nat /\ Len(<<>>) = 0
  BY JournalBounds, EmptyFacts
<1>2. PICK cut \in 0..Len(s) :
         /\ Len(c) <= Len(s) - cut
         /\ \A i \in 1..Len(s) : i > cut => s[i] \in Members(c) \cup ex
  BY DEF Aged
<1>3. ASSUME NEW i \in 1..Len(s)
      PROVE  s[i] \in Members(c) \cup ex \/ Len(s) - i >= Capacity
  <2>1. CASE i > cut
    BY <1>2, <2>1
  <2>2. CASE i <= cut
    BY <1>1, <1>2, <2>2
  <2> QED
    BY <1>1, <2>1, <2>2
<1>4. Len(s) \in 0..Len(s) /\ Len(<<>>) <= Len(s) - Len(s)
  BY <1>1
<1>5. \A i \in 1..Len(s) : ~(i > Len(s))
  BY <1>1
<1> QED
  BY <1>3, <1>4, <1>5 DEF Aged

(* Another writer's rotation has left less than a full live file.           *)
LEMMA AgedRotatedEarly ==
    ASSUME NEW s \in Seq(Entry), NEW c \in Seq(Entry), NEW r \in Seq(Entry),
           NEW ex, Aged(s, c, r, ex)
    PROVE  Aged(s, <<>>, c, ex \cup Members(r))
<1>1. Len(s) \in Nat /\ Len(<<>>) = 0
  BY EmptyFacts
<1>2. Len(s) \in 0..Len(s) /\ Len(<<>>) <= Len(s) - Len(s)
  BY <1>1
<1>3. \A i \in 1..Len(s) : ~(i > Len(s))
  BY <1>1
<1>4. \A i \in 1..Len(s) : \/ s[i] \in Members(c) \cup (ex \cup Members(r))
                           \/ Len(s) - i >= Capacity
  BY DEF Aged
<1> QED
  BY <1>2, <1>3, <1>4 DEF Aged

LEMMA AgedTruncated ==
    ASSUME NEW s \in Seq(Entry), NEW c \in Seq(Entry), NEW r \in Seq(Entry),
           NEW ex, Aged(s, c, r, ex)
    PROVE  Aged(s, <<>>, r, ex \cup Members(c))
<1>1. Len(s) \in Nat /\ Len(c) \in Nat /\ Len(<<>>) = 0
  BY EmptyFacts
<1>2. PICK cut \in 0..Len(s) :
         /\ Len(c) <= Len(s) - cut
         /\ \A i \in 1..Len(s) : i > cut => s[i] \in Members(c) \cup ex
  BY DEF Aged
<1>3. Len(<<>>) <= Len(s) - cut
  BY <1>1, <1>2
<1>4. \A i \in 1..Len(s) : \/ s[i] \in Members(r) \cup (ex \cup Members(c))
                           \/ Len(s) - i >= Capacity
  BY DEF Aged
<1> QED
  BY <1>2, <1>3, <1>4 DEF Aged

LEMMA AgedWritten ==
    ASSUME NEW s \in Seq(Entry), NEW c \in Seq(Entry), NEW r \in Seq(Entry),
           NEW ex, NEW x \in Entry, Aged(s, c, r, ex)
    PROVE  Aged(Append(s, x), Append(c, x), r, ex)
<1> DEFINE t == Append(s, x)
           d == Append(c, x)
<1>1. /\ Len(s) \in Nat /\ Len(c) \in Nat /\ Capacity \in Nat
      /\ Len(t) = Len(s) + 1 /\ Len(d) = Len(c) + 1
      /\ t[Len(s) + 1] = x /\ \A i \in 1..Len(s) : t[i] = s[i]
      /\ Members(d) = Members(c) \cup {x}
  BY JournalBounds, AppendFacts, AppendMembers
<1> HIDE DEF t, d
<1>2. PICK cut \in 0..Len(s) :
         /\ Len(c) <= Len(s) - cut
         /\ \A i \in 1..Len(s) : i > cut => s[i] \in Members(c) \cup ex
  BY DEF Aged
<1>3. cut \in 0..Len(t) /\ Len(d) <= Len(t) - cut
  BY <1>1, <1>2
<1>4. ASSUME NEW i \in 1..Len(t)
      PROVE  /\ i > cut => t[i] \in Members(d) \cup ex
             /\ \/ t[i] \in Members(d) \cup Members(r) \cup ex
                \/ Len(t) - i >= Capacity
  <2>1. CASE i = Len(s) + 1
    BY <1>1, <2>1
  <2>2. CASE i \in 1..Len(s)
    <3>1. t[i] = s[i]
      BY <1>1, <2>2
    <3>2. \/ s[i] \in Members(c) \cup Members(r) \cup ex
          \/ Len(s) - i >= Capacity
      BY <2>2 DEF Aged
    <3>3. i > cut => s[i] \in Members(c) \cup ex
      BY <1>2, <2>2
    <3>4. Len(s) - i >= Capacity => Len(t) - i >= Capacity
      BY <1>1, <2>2
    <3> QED
      BY <1>1, <3>1, <3>2, <3>3, <3>4
  <2> QED
    BY <1>1, <2>1, <2>2
<1>5. Aged(t, d, r, ex)
  BY <1>3, <1>4 DEF Aged
<1> QED
  BY <1>5 DEF t, d

(* A record written to a file that is no longer the live one.               *)
LEMMA AgedElsewhere ==
    ASSUME NEW s \in Seq(Entry), NEW c \in Seq(Entry), NEW r \in Seq(Entry),
           NEW q \in Seq(Entry), Members(r) \subseteq Members(q),
           NEW ex, NEW x \in Entry, Aged(s, c, r, ex)
    PROVE  Aged(Append(s, x), c, q, ex \cup {x})
<1> DEFINE t == Append(s, x)
<1>1. /\ Len(s) \in Nat /\ Len(c) \in Nat /\ Capacity \in Nat
      /\ Len(t) = Len(s) + 1
      /\ t[Len(s) + 1] = x /\ \A i \in 1..Len(s) : t[i] = s[i]
  BY JournalBounds, AppendFacts
<1> HIDE DEF t
<1>2. PICK cut \in 0..Len(s) :
         /\ Len(c) <= Len(s) - cut
         /\ \A i \in 1..Len(s) : i > cut => s[i] \in Members(c) \cup ex
  BY DEF Aged
<1>3. cut \in 0..Len(t) /\ Len(c) <= Len(t) - cut
  BY <1>1, <1>2
<1>4. ASSUME NEW i \in 1..Len(t)
      PROVE  /\ i > cut => t[i] \in Members(c) \cup (ex \cup {x})
             /\ \/ t[i] \in Members(c) \cup Members(q) \cup (ex \cup {x})
                \/ Len(t) - i >= Capacity
  <2>1. CASE i = Len(s) + 1
    BY <1>1, <2>1
  <2>2. CASE i \in 1..Len(s)
    <3>1. t[i] = s[i]
      BY <1>1, <2>2
    <3>2. \/ s[i] \in Members(c) \cup Members(r) \cup ex
          \/ Len(s) - i >= Capacity
      BY <2>2 DEF Aged
    <3>3. i > cut => s[i] \in Members(c) \cup ex
      BY <1>2, <2>2
    <3>4. Len(s) - i >= Capacity => Len(t) - i >= Capacity
      BY <1>1, <2>2
    <3> QED
      BY <3>1, <3>2, <3>3, <3>4
  <2> QED
    BY <1>1, <2>1, <2>2
<1>5. Aged(t, c, q, ex \cup {x})
  BY <1>3, <1>4 DEF Aged
<1> QED
  BY <1>5 DEF t

-----------------------------------------------------------------------------
(* Types. *)

LEMMA MoreValues ==
    ASSUME NEW S, NEW T, S \subseteq T PROVE Seq(S) \subseteq Seq(T)
<1> SUFFICES ASSUME NEW s \in Seq(S) PROVE s \in Seq(T)
  OBVIOUS
<1>1. Len(s) \in Nat /\ s \in [1..Len(s) -> T]
  BY ElementOfSeq
<1> QED
  BY <1>1, SeqDef

LEMMA EntriesAreNumbers == Seq(Seq(Entry)) \subseteq Seq(Seq(Nat)) /\ Seq(Entry) \subseteq Seq(Nat)
<1>1. Entry \subseteq Nat
  BY JournalBounds DEF Entry
<1>2. Seq(Entry) \subseteq Seq(Nat)
  BY <1>1, MoreValues
<1> QED
  BY <1>2, MoreValues

(* The types, one half of them: files and their names.                      *)
FilesTyped ==
    /\ file \in Seq(Seq(Entry))
    /\ live \in [Log -> 0..Len(file)] /\ old \in [Log -> 0..Len(file)]
    /\ fd \in [Writer -> 0..Len(file)]
    /\ \A w \in Writer : step[w] = "write" <=> fd[w] # 0
(* And the other.                                                           *)
RecordsTyped ==
    /\ step \in [Writer -> {"idle", "stat", "rename", "truncate", "open", "write"}]
    /\ issued \in 0..MaxRecords /\ rec \in [Writer -> 0..MaxRecords]
    /\ at \in [Writer -> Log]
    /\ conflicts \subseteq Entry /\ faultless \subseteq Entry
    /\ written \in [Log -> Seq(Entry)]
    /\ excused \in [Log -> SUBSET Entry] /\ uncapped \in BOOLEAN
    /\ \A w \in Writer : step[w] # "idle" => rec[w] \in Entry

LEMMA TypedHalves == Typed <=> FilesTyped /\ RecordsTyped
<1>1. written \in [Log -> Seq(Entry)] => written \in [Log -> Seq(Nat)]
  BY EntriesAreNumbers
<1>2. file \in Seq(Seq(Entry)) => file \in Seq(Seq(Nat))
  BY EntriesAreNumbers
<1> QED
  BY <1>1, <1>2 DEF Typed, JournalTypeOK, FilesTyped, RecordsTyped

LEMMA HeldTyped ==
    ASSUME FilesTyped
    PROVE  \A f \in 0..Len(file) : Held(f) \in Seq(Entry)
<1>1. Len(file) \in Nat /\ \A f \in 1..Len(file) : file[f] \in Seq(Entry)
  BY DEF FilesTyped
<1>2. <<>> \in Seq(Entry)
  BY EmptyFacts
<1> QED
  BY <1>1, <1>2 DEF Held

(* A file is created.                                                       *)
LEMMA OneMoreFile ==
    ASSUME FilesTyped, file' = Append(file, <<>>)
    PROVE  /\ file' \in Seq(Seq(Entry)) /\ Len(file') = Len(file) + 1
           /\ Len(file) \in Nat
           /\ file'[Len(file) + 1] = <<>>
           /\ \A f \in 1..Len(file) : file'[f] = file[f]
<1>1. <<>> \in Seq(Entry)
  BY EmptyFacts
<1>2. file \in Seq(Seq(Entry))
  BY DEF FilesTyped
<1> QED
  BY <1>1, <1>2, AppendFacts

(* A file's content changes.                                                *)
LEMMA FileChanges ==
    ASSUME FilesTyped, NEW f \in 1..Len(file), NEW c \in Seq(Entry),
           file' = [file EXCEPT ![f] = c]
    PROVE  /\ file' \in Seq(Seq(Entry)) /\ Len(file') = Len(file)
           /\ file'[f] = c
           /\ \A g \in 1..Len(file) : g # f => file'[g] = file[g]
  BY DEF FilesTyped

LEMMA StepFilesTyped ==
    ASSUME Typed, [JournalNext]_journalVars PROVE FilesTyped'
<1>0. FilesTyped /\ RecordsTyped
  BY TypedHalves
<1>1. CASE UNCHANGED journalVars
  BY <1>0, <1>1 DEF FilesTyped, journalVars, nameVars, appendVars, histVars
<1>2. ASSUME NEW w \in Writer, Step(w) \/ Abandon(w)
      PROVE  FilesTyped'
  <2> DEFINE l == at[w]
  <2>0. l \in Log
    BY <1>0 DEF RecordsTyped
  <2>1. CASE Call(w)
    BY <1>0, <2>1 DEF Call, Go, FilesTyped, RecordsTyped, nameVars
  <2>2. CASE Stat(w)
    BY <1>0, <2>2 DEF Stat, Go, FilesTyped, RecordsTyped, nameVars, appendVars
  <2>3. CASE Rename(w)
    BY <1>0, <2>3 DEF Rename, Go, FilesTyped, RecordsTyped, appendVars
  <2>4. CASE RenameFails(w)
    BY <1>0, <2>4 DEF RenameFails, Go, FilesTyped, RecordsTyped, nameVars, appendVars
  <2>5. CASE TruncateLog(w)
    <3>1. live[l] \in 1..Len(file) /\ <<>> \in Seq(Entry)
      BY <1>0, <2>0, <2>5, EmptyFacts DEF TruncateLog, FilesTyped
    <3>2. file' \in Seq(Seq(Entry)) /\ Len(file') = Len(file)
      BY <1>0, <2>5, <3>1, FileChanges DEF TruncateLog
    <3> QED
      BY <1>0, <2>5, <3>2 DEF TruncateLog, Go, FilesTyped, RecordsTyped, nameVars, appendVars
  <2>6. CASE TruncateFails(w)
    BY <1>0, <2>6 DEF TruncateFails, Go, FilesTyped, RecordsTyped, nameVars, appendVars
  <2>7. CASE Open(w)
    <3>1. CASE live[l] = 0
      <4>1. /\ file' \in Seq(Seq(Entry)) /\ Len(file') = Len(file) + 1
            /\ Len(file) \in Nat
        BY <1>0, <2>7, <3>1, OneMoreFile DEF Open
      <4>2. live' = [live EXCEPT ![l] = Len(file) + 1] /\ live'[l] = Len(file) + 1
        BY <1>0, <2>0, <2>7, <3>1 DEF Open, FilesTyped
      <4>3. live' \in [Log -> 0..Len(file')] /\ old' \in [Log -> 0..Len(file')]
        BY <1>0, <2>7, <4>1, <4>2 DEF Open, FilesTyped
      <4>4. fd' = [fd EXCEPT ![w] = Len(file) + 1]
        BY <2>7, <4>2 DEF Open
      <4>5. fd \in [Writer -> 0..Len(file)] /\ Len(file) + 1 \in 0..Len(file')
        BY <1>0, <4>1 DEF FilesTyped
      <4>6. fd' \in [Writer -> 0..Len(file')]
        BY <4>1, <4>4, <4>5
      <4> QED
        BY <1>0, <2>7, <4>1, <4>3, <4>4, <4>6 DEF Open, Go, FilesTyped, RecordsTyped
    <3>2. CASE live[l] # 0
      BY <1>0, <2>0, <2>7, <3>2 DEF Open, Go, FilesTyped, RecordsTyped
    <3> QED
      BY <3>1, <3>2
  <2>8. CASE Write(w)
    <3>1. fd[w] \in 1..Len(file) /\ rec[w] \in Entry
      BY <1>0, <2>8 DEF Write, FilesTyped, RecordsTyped
    <3>2. Append(file[fd[w]], rec[w]) \in Seq(Entry)
      BY <1>0, <3>1, AppendFacts DEF FilesTyped
    <3>3. file' \in Seq(Seq(Entry)) /\ Len(file') = Len(file)
      BY <1>0, <2>8, <3>1, <3>2, FileChanges DEF Write
    <3>4. /\ fd' = [fd EXCEPT ![w] = 0] /\ UNCHANGED nameVars
          /\ \E s \in {"stat", "idle"} : step' = [step EXCEPT ![w] = s]
      BY <2>8 DEF Write, Go
    <3> QED
      BY <1>0, <3>3, <3>4 DEF FilesTyped, RecordsTyped, nameVars
  <2>9. CASE Abandon(w)
    BY <1>0, <2>9 DEF Abandon, Go, FilesTyped, RecordsTyped, nameVars
  <2> QED
    BY <1>2, <2>1, <2>2, <2>3, <2>4, <2>5, <2>6, <2>7, <2>8, <2>9 DEF Step
<1> QED
  BY <1>1, <1>2 DEF JournalNext

LEMMA StepRecordsTyped ==
    ASSUME Typed, [JournalNext]_journalVars PROVE RecordsTyped'
<1>0. FilesTyped /\ RecordsTyped
  BY TypedHalves
<1>1. CASE UNCHANGED journalVars
  BY <1>0, <1>1 DEF RecordsTyped, journalVars, nameVars, appendVars, histVars
<1>2. ASSUME NEW w \in Writer, Step(w) \/ Abandon(w)
      PROVE  RecordsTyped'
  <2> DEFINE l == at[w]
  <2>0. /\ l \in Log /\ live[l] \in 0..Len(file) /\ old[l] \in 0..Len(file)
        /\ MaxRecords \in Nat /\ "journal" \in Log /\ "conflicts" \in Log
    BY <1>0, JournalBounds DEF RecordsTyped, FilesTyped, Log
  <2>m. /\ Members(Held(live[l])) \subseteq Entry
        /\ Members(Held(old[l])) \subseteq Entry
    BY <1>0, <2>0, HeldTyped, MembersIn
  <2>1. CASE Call(w)
    <3>1. issued + 1 \in Entry /\ issued + 1 \in 0..MaxRecords
      BY <1>0, <2>0, <2>1 DEF Call, RecordsTyped, Entry
    <3> QED
      BY <1>0, <2>0, <2>1, <3>1 DEF Call, Go, RecordsTyped
  <2>2. CASE Stat(w)
    BY <1>0, <2>2 DEF Stat, Go, RecordsTyped, appendVars, histVars
  <2>3. CASE Rename(w)
    BY <1>0, <2>0, <2>m, <2>3 DEF Rename, Go, RecordsTyped, appendVars
  <2>4. CASE RenameFails(w)
    BY <1>0, <2>4 DEF RenameFails, Go, RecordsTyped, appendVars, histVars
  <2>5. CASE TruncateLog(w)
    BY <1>0, <2>0, <2>m, <2>5 DEF TruncateLog, Go, RecordsTyped, appendVars
  <2>6. CASE TruncateFails(w)
    BY <1>0, <2>6 DEF TruncateFails, Go, RecordsTyped, appendVars
  <2>7. CASE Open(w)
    BY <1>0, <2>7 DEF Open, Go, RecordsTyped, appendVars, histVars
  <2>8. CASE Write(w)
    <3>1. rec[w] \in Entry /\ Append(written[l], rec[w]) \in Seq(Entry)
      BY <1>0, <2>0, <2>8, AppendFacts DEF Write, RecordsTyped
    <3>2. written' \in [Log -> Seq(Entry)] /\ excused' \in [Log -> SUBSET Entry]
      BY <1>0, <2>0, <2>8, <3>1 DEF Write, RecordsTyped
    <3>3. NextLog(w) \in {"conflicts", "none"}
      BY DEF NextLog
    <3>4. /\ at' \in [Writer -> Log] /\ rec' \in [Writer -> 0..MaxRecords]
          /\ faultless' \subseteq Entry
      <4>1. \E m \in Log : at' = [at EXCEPT ![w] = m]
        BY <2>0, <2>8, <3>3 DEF Write
      <4>2. UNCHANGED rec \/ rec' = [rec EXCEPT ![w] = 0]
        BY <2>8 DEF Write
      <4>3. UNCHANGED faultless \/ faultless' = faultless \cup ({rec[w]} \cap conflicts)
        BY <2>8 DEF Write
      <4> QED
        BY <1>0, <2>0, <4>1, <4>2, <4>3 DEF RecordsTyped
    <3>5. /\ step' \in [Writer -> {"idle", "stat", "rename", "truncate", "open", "write"}]
          /\ \A v \in Writer : step'[v] # "idle" => rec'[v] \in Entry
      BY <1>0, <2>8, <3>1 DEF Write, Go, RecordsTyped
    <3> QED
      BY <1>0, <2>8, <3>2, <3>4, <3>5 DEF Write, RecordsTyped
  <2>9. CASE Abandon(w)
    BY <1>0, <2>0, <2>9 DEF Abandon, Go, RecordsTyped, histVars
  <2> QED
    BY <1>2, <2>1, <2>2, <2>3, <2>4, <2>5, <2>6, <2>7, <2>8, <2>9 DEF Step
<1> QED
  BY <1>1, <1>2 DEF JournalNext

LEMMA StepTyped == ASSUME Typed, [JournalNext]_journalVars PROVE Typed'
<1>1. FilesTyped' /\ RecordsTyped'
  BY StepFilesTyped, StepRecordsTyped
<1>2. (written \in [Log -> Seq(Entry)])' => (written \in [Log -> Seq(Nat)])'
  BY EntriesAreNumbers
<1>3. (file \in Seq(Seq(Entry)))' => (file \in Seq(Seq(Nat)))'
  BY EntriesAreNumbers
<1> QED
  BY <1>1, <1>2, <1>3 DEF Typed, JournalTypeOK, FilesTyped, RecordsTyped

-----------------------------------------------------------------------------
(* Names. *)

LEMMA StepApart ==
    ASSUME Typed, Apart, [JournalNext]_journalVars PROVE Apart'
<1>0. FilesTyped /\ RecordsTyped
  BY TypedHalves
<1>1. CASE UNCHANGED journalVars
  BY <1>1 DEF Apart, journalVars, nameVars, appendVars
<1>2. ASSUME NEW w \in Writer, Step(w) \/ Abandon(w)
      PROVE  Apart'
  <2> DEFINE l == at[w]
  <2>0. /\ l \in Log /\ live \in [Log -> 0..Len(file)] /\ old \in [Log -> 0..Len(file)]
        /\ fd \in [Writer -> 0..Len(file)] /\ at \in [Writer -> Log] /\ Len(file) \in Nat
    BY <1>0 DEF RecordsTyped, FilesTyped
  <2>1. CASE Call(w)
    <3>1. fd[w] = 0
      BY <1>0, <2>1 DEF Call, FilesTyped
    <3> QED
      BY <2>0, <2>1, <3>1 DEF Call, Apart, nameVars
  <2>2. CASE Stat(w) \/ RenameFails(w) \/ TruncateLog(w) \/ TruncateFails(w)
    <3>1. UNCHANGED <<live, old, fd, at>>
      BY <2>2 DEF Stat, RenameFails, TruncateLog, TruncateFails, nameVars, appendVars
    <3> QED
      BY <3>1 DEF Apart
  <2>3. CASE Rename(w)
    <3>1. /\ live' = [live EXCEPT ![l] = 0] /\ old' = [old EXCEPT ![l] = live[l]]
          /\ UNCHANGED <<fd, at>>
      BY <2>3 DEF Rename, appendVars
    <3> QED
      BY <2>0, <3>1 DEF Apart
  <2>7. CASE Open(w)
    <3>1. /\ fd' = [fd EXCEPT ![w] = live'[l]] /\ UNCHANGED <<old, at>>
      BY <2>7 DEF Open, appendVars
    <3>2. CASE live[l] = 0
      <4>1. live' = [live EXCEPT ![l] = Len(file) + 1] /\ live'[l] = Len(file) + 1
        BY <2>0, <2>7, <3>2 DEF Open
      <4>2. \A m \in Log : live[m] # Len(file) + 1 /\ old[m] # Len(file) + 1
        BY <2>0
      <4>3. \A v \in Writer : fd[v] # Len(file) + 1
        BY <2>0
      <4>4. Len(file) + 1 # 0
        BY <2>0
      <4>5. \A m \in Log : live'[m] # 0 => live'[m] # old'[m]
        BY <2>0, <3>1, <4>1, <4>2 DEF Apart
      <4>6. \A m, n \in Log : m # n =>
              \A f \in {live'[m], old'[m]} : f # 0 => f \notin {live'[n], old'[n]}
        BY <2>0, <3>1, <4>1, <4>2 DEF Apart
      <4>7. \A v \in Writer, m \in Log :
              fd'[v] # 0 /\ at'[v] # m => fd'[v] \notin {live'[m], old'[m]}
        BY <2>0, <3>1, <4>1, <4>2, <4>3 DEF Apart
      <4> QED
        BY <4>5, <4>6, <4>7 DEF Apart
    <3>3. CASE live[l] # 0
      <4>1. UNCHANGED live
        BY <2>7, <3>3 DEF Open
      <4> QED
        BY <2>0, <3>1, <3>3, <4>1 DEF Apart
    <3> QED
      BY <3>2, <3>3
  <2>8. CASE Write(w)
    <3>1. /\ fd' = [fd EXCEPT ![w] = 0] /\ UNCHANGED <<live, old>>
          /\ \A v \in Writer : v # w => at'[v] = at[v]
      BY <2>0, <2>8 DEF Write, nameVars
    <3> QED
      BY <2>0, <3>1 DEF Apart
  <2>9. CASE Abandon(w)
    <3>1. /\ fd' = [fd EXCEPT ![w] = 0] /\ UNCHANGED <<live, old>>
          /\ \A v \in Writer : v # w => at'[v] = at[v]
      BY <2>0, <2>9 DEF Abandon, nameVars
    <3> QED
      BY <2>0, <3>1 DEF Apart
  <2> QED
    BY <1>2, <2>1, <2>2, <2>3, <2>7, <2>8, <2>9 DEF Step
<1> QED
  BY <1>1, <1>2 DEF JournalNext

-----------------------------------------------------------------------------
(* How far a generation overshoots. *)

LEMMA AimedFinite ==
    ASSUME NEW A \in SUBSET Writer, NEW B \in SUBSET A
    PROVE  /\ Cardinality(Writer) \in Nat \ {0}
           /\ Cardinality(A) \in Nat /\ Cardinality(B) \in Nat
           /\ Cardinality(B) <= Cardinality(A)
           /\ Cardinality(A) <= Cardinality(Writer)
<1>1. IsFiniteSet(Writer) /\ Writer # {}
  BY WriterAssumption DEF WriterAssumption
<1>2. IsFiniteSet(A) /\ Cardinality(A) <= Cardinality(Writer)
  BY <1>1, FS_Subset
<1>3. IsFiniteSet(B) /\ Cardinality(B) <= Cardinality(A)
  BY <1>2, FS_Subset
<1>4. Cardinality(Writer) \in Nat /\ Cardinality(A) \in Nat /\ Cardinality(B) \in Nat
  BY <1>1, <1>2, <1>3, FS_CardinalityType
<1>5. Cardinality(Writer) # 0
  BY <1>1, FS_EmptySet
<1> QED
  BY <1>2, <1>3, <1>4, <1>5

(* Fewer writers are aimed at f, and it has not grown.                      *)
LEMMA RoomStays ==
    ASSUME FilesTyped, NEW f \in 1..Len(file), Room(f),
           Len(file'[f]) = Len(file[f]), Aimed(f)' \subseteq Aimed(f)
    PROVE  Room(f)'
<1>1. Aimed(f) \in SUBSET Writer
  BY DEF Aimed
<1>2. /\ Cardinality(Writer) \in Nat /\ Cardinality(Aimed(f)) \in Nat
      /\ Cardinality(Aimed(f)') \in Nat
      /\ Cardinality(Aimed(f)') <= Cardinality(Aimed(f))
  BY <1>1, AimedFinite
<1>3. Len(file[f]) \in Nat /\ Capacity \in Nat
  BY JournalBounds DEF FilesTyped
<1> QED
  BY <1>2, <1>3 DEF Room

(* f is below its capacity: whoever is aimed at it, there is room.          *)
LEMMA RoomBelow ==
    ASSUME FilesTyped', NEW f \in 1..Len(file'), Len(file'[f]) < Capacity
    PROVE  Room(f)'
<1>1. Aimed(f)' \in SUBSET Writer
  BY DEF Aimed
<1>2. /\ Cardinality(Writer) \in Nat /\ Cardinality(Aimed(f)') \in Nat
      /\ Cardinality(Aimed(f)') <= Cardinality(Writer)
  BY <1>1, AimedFinite
<1>3. Len(file'[f]) \in Nat /\ Capacity \in Nat
  BY JournalBounds DEF FilesTyped
<1> QED
  BY <1>2, <1>3 DEF Room

(* Who is aimed at f does not grow with a step of w that does not aim at f. *)
LEMMA AimedStays ==
    ASSUME NEW w \in Writer, NEW f,
           \A v \in Writer \ {w} : /\ step'[v] = step[v] /\ fd'[v] = fd[v]
                                   /\ at'[v] = at[v]
                                   /\ live'[at[v]] = f => live[at[v]] = f,
           w \in Aimed(f)' => w \in Aimed(f)
    PROVE  Aimed(f)' \subseteq Aimed(f)
  BY DEF Aimed

LEMMA StepRoom ==
    ASSUME Typed, Typed', AllHaveRoom, [JournalNext]_journalVars PROVE AllHaveRoom'
<1>0. FilesTyped /\ RecordsTyped /\ FilesTyped' /\ RecordsTyped'
  <2>1. FilesTyped /\ RecordsTyped
    BY TypedHalves
  <2>2. (written \in [Log -> Seq(Entry)])' => (written \in [Log -> Seq(Nat)])'
    BY EntriesAreNumbers
  <2> QED
    BY <2>1 DEF Typed, JournalTypeOK, FilesTyped, RecordsTyped
<1>1. CASE UNCHANGED journalVars
  BY <1>1 DEF AllHaveRoom, Room, Aimed, journalVars, nameVars, appendVars, histVars
<1>2. ASSUME NEW w \in Writer, Step(w) \/ Abandon(w), ~uncapped',
             NEW f \in 1..Len(file')
      PROVE  Room(f)'
  <2> DEFINE l == at[w]
  <2>0. /\ l \in Log /\ live \in [Log -> 0..Len(file)] /\ old \in [Log -> 0..Len(file)]
        /\ fd \in [Writer -> 0..Len(file)] /\ at \in [Writer -> Log] /\ Len(file) \in Nat
        /\ step \in [Writer -> {"idle", "stat", "rename", "truncate", "open", "write"}]
        /\ Capacity \in Nat \ {0}
        /\ \A v \in Writer : step[v] = "write" <=> fd[v] # 0
        /\ \A g \in 1..Len(file) : Len(file[g]) \in Nat
    <3>1. \A g \in 1..Len(file) : Len(file[g]) \in Nat
      BY <1>0 DEF FilesTyped
    <3>2. Len(file) \in Nat /\ Capacity \in Nat \ {0}
      BY <1>0, JournalBounds DEF FilesTyped
    <3>3. \A v \in Writer : step[v] = "write" <=> fd[v] # 0
      BY <1>0 DEF FilesTyped
    <3>4. /\ l \in Log /\ live \in [Log -> 0..Len(file)] /\ old \in [Log -> 0..Len(file)]
          /\ fd \in [Writer -> 0..Len(file)] /\ at \in [Writer -> Log]
      BY <1>0 DEF RecordsTyped, FilesTyped
    <3>5. step \in [Writer -> {"idle", "stat", "rename", "truncate", "open", "write"}]
      BY <1>0 DEF RecordsTyped
    <3> QED
      BY <3>1, <3>2, <3>3, <3>4, <3>5
  <2>r. ~uncapped
    BY <1>2 DEF Step, Call, Stat, Rename, RenameFails, TruncateLog, TruncateFails, Open,
                Write, Abandon, histVars
  <2>s. \A v \in Writer \ {w} : step'[v] = step[v] /\ fd'[v] = fd[v] /\ at'[v] = at[v]
    BY <1>2, <2>0 DEF Step, Call, Stat, Rename, RenameFails, TruncateLog, TruncateFails,
                Open, Write, Abandon, Go, appendVars
  <2>1. CASE Call(w)
    <3>1. f \in 1..Len(file) /\ Room(f) /\ UNCHANGED <<file, live, fd>>
          /\ step'[w] = "stat"
      BY <1>2, <2>0, <2>r, <2>1 DEF Call, Go, AllHaveRoom, nameVars
    <3>2. Aimed(f)' \subseteq Aimed(f)
      BY <2>s, <3>1, AimedStays DEF Aimed
    <3> QED
      BY <1>0, <3>1, <3>2, RoomStays
  <2>2. CASE Stat(w)
    <3>1. f \in 1..Len(file) /\ Room(f) /\ UNCHANGED <<file, live, fd, at>>
      BY <1>2, <2>r, <2>2 DEF Stat, AllHaveRoom, nameVars, appendVars
    <3>2. CASE Full(live[l]) \/ live[l] # f
      <4>0. step'[w] = IF Full(live[l]) THEN "rename" ELSE "open"
        BY <1>2, <2>0, <2>2 DEF Stat, Go
      <4>1. w \in Aimed(f)' => w \in Aimed(f)
        BY <2>0, <2>2, <3>1, <3>2, <4>0 DEF Stat, Aimed
      <4>2. Aimed(f)' \subseteq Aimed(f)
        BY <2>s, <3>1, <4>1, AimedStays
      <4> QED
        BY <1>0, <3>1, <4>2, RoomStays
    <3>3. CASE ~Full(live[l]) /\ live[l] = f
      <4>1. Len(file'[f]) < Capacity
        BY <2>0, <3>1, <3>3 DEF Full
      <4> QED
        BY <1>0, <4>1, RoomBelow
    <3> QED
      BY <3>2, <3>3
  <2>3. CASE Rename(w)
    <3>1. /\ f \in 1..Len(file) /\ Room(f) /\ UNCHANGED <<file, fd, at>>
          /\ live' = [live EXCEPT ![l] = 0] /\ f # 0 /\ step'[w] = "open"
      BY <1>2, <2>0, <2>r, <2>3 DEF Rename, Go, AllHaveRoom, appendVars
    <3>2. w \notin Aimed(f)'
      BY <2>0, <3>1 DEF Aimed
    <3>3. Aimed(f)' \subseteq Aimed(f)
      BY <2>0, <2>s, <3>1, <3>2, AimedStays
    <3> QED
      BY <1>0, <3>1, <3>3, RoomStays
  <2>4. CASE RenameFails(w)
    <3>1. f \in 1..Len(file) /\ Room(f) /\ UNCHANGED <<file, live, fd>>
          /\ step'[w] = "truncate"
      BY <1>2, <2>0, <2>r, <2>4 DEF RenameFails, Go, AllHaveRoom, nameVars
    <3>2. Aimed(f)' \subseteq Aimed(f)
      BY <2>s, <3>1, AimedStays DEF Aimed
    <3> QED
      BY <1>0, <3>1, <3>2, RoomStays
  <2>5. CASE TruncateLog(w)
    <3>1. /\ live[l] \in 1..Len(file) /\ <<>> \in Seq(Entry) /\ Len(<<>>) = 0
          /\ file' = [file EXCEPT ![live[l]] = <<>>] /\ UNCHANGED <<live, fd, at>>
      BY <2>0, <2>5, EmptyFacts DEF TruncateLog, nameVars, appendVars
    <3>2. /\ Len(file') = Len(file) /\ file'[live[l]] = <<>>
          /\ \A g \in 1..Len(file) : g # live[l] => file'[g] = file[g]
      BY <1>0, <3>1, FileChanges
    <3>3. CASE f = live[l]
      <4>1. Len(file'[f]) < Capacity
        BY <2>0, <3>1, <3>2, <3>3
      <4> QED
        BY <1>0, <4>1, RoomBelow
    <3>4. CASE f # live[l]
      <4>1. f \in 1..Len(file) /\ Room(f) /\ file'[f] = file[f]
        BY <2>r, <3>2, <3>4 DEF AllHaveRoom
      <4>2. w \notin Aimed(f)'
        BY <2>0, <2>5, <3>1, <3>4 DEF TruncateLog, Go, Aimed
      <4>3. Aimed(f)' \subseteq Aimed(f)
        BY <2>s, <3>1, <4>2, AimedStays
      <4> QED
        BY <1>0, <4>1, <4>3, RoomStays
    <3> QED
      BY <3>3, <3>4
  <2>6. CASE TruncateFails(w)
    <3>0. live[l] = 0
      <4>1. uncapped' = (uncapped \/ live[l] # 0)
        BY <2>6 DEF TruncateFails
      <4> QED
        BY <1>2, <4>1
    <3>1. /\ f \in 1..Len(file) /\ Room(f) /\ UNCHANGED <<file, live, fd, at>>
          /\ f # 0 /\ step'[w] = "open"
      BY <1>2, <2>0, <2>r, <2>6 DEF TruncateFails, Go, AllHaveRoom, nameVars, appendVars
    <3>2. w \notin Aimed(f)'
      BY <2>0, <3>0, <3>1 DEF Aimed
    <3>3. Aimed(f)' \subseteq Aimed(f)
      BY <2>s, <3>1, <3>2, AimedStays
    <3> QED
      BY <1>0, <3>1, <3>3, RoomStays
  <2>7. CASE Open(w)
    <3>1. /\ fd' = [fd EXCEPT ![w] = live'[l]] /\ UNCHANGED at
          /\ step[w] = "open" /\ step'[w] = "write"
      BY <2>0, <2>7 DEF Open, Go, appendVars
    <3>2. CASE live[l] = 0
      <4>1. /\ live' = [live EXCEPT ![l] = Len(file) + 1]
            /\ file' = Append(file, <<>>)
        BY <2>7, <3>2 DEF Open
      <4>2. /\ Len(file') = Len(file) + 1 /\ file'[Len(file) + 1] = <<>>
            /\ \A g \in 1..Len(file) : file'[g] = file[g]
        BY <1>0, <4>1, OneMoreFile
      <4>3. CASE f = Len(file) + 1
        <5>1. Len(file'[f]) < Capacity
          BY <2>0, <4>2, <4>3, EmptyFacts
        <5> QED
          BY <1>0, <5>1, RoomBelow
      <4>4. CASE f # Len(file) + 1
        <5>1. f \in 1..Len(file)
          BY <2>0, <4>2, <4>4
        <5>2. Room(f) /\ file'[f] = file[f]
          BY <2>r, <4>2, <5>1 DEF AllHaveRoom
        <5>3. w \notin Aimed(f)'
          BY <2>0, <3>1, <4>1, <4>4 DEF Aimed
        <5>4. Aimed(f)' \subseteq Aimed(f)
          BY <2>0, <2>s, <4>1, <4>4, <5>3, AimedStays
        <5> QED
          BY <1>0, <5>1, <5>2, <5>4, RoomStays
      <4> QED
        BY <4>3, <4>4
    <3>3. CASE live[l] # 0
      <4>1. UNCHANGED <<file, live>>
        BY <2>7, <3>3 DEF Open
      <4>2. f \in 1..Len(file) /\ Room(f)
        BY <2>r, <4>1 DEF AllHaveRoom
      <4>3. w \in Aimed(f)' => w \in Aimed(f)
        BY <2>0, <3>1, <4>1 DEF Aimed
      <4>4. Aimed(f)' \subseteq Aimed(f)
        BY <2>s, <4>1, <4>3, AimedStays
      <4> QED
        BY <1>0, <4>1, <4>2, <4>4, RoomStays
    <3> QED
      BY <3>2, <3>3
  <2>8. CASE Write(w)
    <3>1. /\ fd[w] \in 1..Len(file) /\ rec[w] \in Entry /\ step[w] = "write"
          /\ file' = [file EXCEPT ![fd[w]] = Append(file[fd[w]], rec[w])]
          /\ step'[w] \in {"stat", "idle"} /\ UNCHANGED live
      BY <1>0, <2>0, <2>8 DEF Write, Go, RecordsTyped, nameVars
    <3>2. /\ file[fd[w]] \in Seq(Entry)
          /\ Append(file[fd[w]], rec[w]) \in Seq(Entry)
          /\ Len(Append(file[fd[w]], rec[w])) = Len(file[fd[w]]) + 1
      BY <1>0, <3>1, AppendFacts DEF FilesTyped
    <3>3. /\ Len(file') = Len(file)
          /\ file'[fd[w]] = Append(file[fd[w]], rec[w])
          /\ \A g \in 1..Len(file) : g # fd[w] => file'[g] = file[g]
      BY <1>0, <3>1, <3>2, FileChanges
    <3>4. f \in 1..Len(file) /\ Room(f) /\ w \notin Aimed(f)'
      BY <2>r, <3>1, <3>3 DEF AllHaveRoom, Aimed
    <3>5. Aimed(f)' \subseteq Aimed(f)
      BY <2>s, <3>1, <3>4, AimedStays
    <3>6. CASE f # fd[w]
      BY <1>0, <3>3, <3>4, <3>5, <3>6, RoomStays
    <3>7. CASE f = fd[w]
      <4>1. /\ w \in Aimed(f) /\ Aimed(f)' \in SUBSET (Aimed(f) \ {w})
            /\ Aimed(f) \in SUBSET Writer /\ Aimed(f) \ {w} \in SUBSET Writer
        BY <3>1, <3>4, <3>5, <3>7 DEF Aimed
      <4>2. IsFiniteSet(Aimed(f))
        BY <4>1, WriterAssumption, FS_Subset DEF WriterAssumption
      <4>3. Cardinality(Aimed(f) \ {w}) = Cardinality(Aimed(f)) - 1
        BY <4>1, <4>2, FS_RemoveElement
      <4>4. /\ Cardinality(Aimed(f)') <= Cardinality(Aimed(f) \ {w})
            /\ Cardinality(Aimed(f)') \in Nat /\ Cardinality(Writer) \in Nat
        BY <4>1, AimedFinite
      <4>5. Cardinality(Aimed(f)) \in Nat
        BY <4>1, AimedFinite
      <4>6. Len(file'[f]) = Len(file[f]) + 1 /\ Len(file[f]) \in Nat
        BY <2>0, <3>2, <3>3, <3>4, <3>7
      <4> QED
        BY <2>0, <3>4, <4>3, <4>4, <4>5, <4>6 DEF Room
    <3> QED
      BY <3>6, <3>7
  <2>9. CASE Abandon(w)
    <3>1. f \in 1..Len(file) /\ Room(f) /\ UNCHANGED <<file, live>>
          /\ step'[w] = "idle"
      BY <1>2, <2>0, <2>r, <2>9 DEF Abandon, Go, AllHaveRoom, nameVars
    <3>2. Aimed(f)' \subseteq Aimed(f)
      BY <2>s, <3>1, AimedStays DEF Aimed
    <3> QED
      BY <1>0, <3>1, <3>2, RoomStays
  <2> QED
    BY <1>2, <2>1, <2>2, <2>3, <2>4, <2>5, <2>6, <2>7, <2>8, <2>9 DEF Step
<1> QED
  BY <1>1, <1>2 DEF JournalNext, AllHaveRoom

-----------------------------------------------------------------------------
(* How old a record is when it goes. *)

LEMMA LogTyped ==
    ASSUME Typed, NEW m \in Log
    PROVE  /\ written[m] \in Seq(Entry)
           /\ live[m] \in 0..Len(file) /\ old[m] \in 0..Len(file) /\ Len(file) \in Nat
           /\ Held(live[m]) \in Seq(Entry) /\ Held(old[m]) \in Seq(Entry)
           /\ excused[m] \subseteq Entry
<1>1. FilesTyped /\ RecordsTyped
  BY TypedHalves
<1>2. live[m] \in 0..Len(file) /\ old[m] \in 0..Len(file) /\ Len(file) \in Nat
  BY <1>1 DEF FilesTyped
<1>3. written[m] \in Seq(Entry) /\ excused[m] \subseteq Entry
  BY <1>1 DEF RecordsTyped
<1> QED
  BY <1>1, <1>2, <1>3, HeldTyped

(* A log of which nothing changes but that more of it is excused.           *)
LEMMA LogStays ==
    ASSUME Typed, NEW m \in Log, AgedLog(m), written'[m] = written[m],
           Held(live[m])' = Held(live[m]), Held(old[m])' = Held(old[m]),
           excused[m] \subseteq excused'[m]
    PROVE  AgedLog(m)'
<1>1. Aged(written[m], Held(live[m]), Held(old[m]), excused'[m])
  BY LogTyped, AgedExcused DEF AgedLog
<1> QED
  BY <1>1 DEF AgedLog

LEMMA StepAged ==
    ASSUME Typed, Apart, \A m \in Log : AgedLog(m), [JournalNext]_journalVars
    PROVE  \A m \in Log : AgedLog(m)'
<1>0. FilesTyped /\ RecordsTyped
  BY TypedHalves
<1>1. CASE UNCHANGED journalVars
  BY <1>1 DEF AgedLog, Held, journalVars, nameVars, appendVars, histVars
<1>2. ASSUME NEW w \in Writer, Step(w) \/ Abandon(w), NEW m \in Log
      PROVE  AgedLog(m)'
  <2> DEFINE l == at[w]
  <2>0. /\ AgedLog(m) /\ l \in Log
        /\ live \in [Log -> 0..Len(file)] /\ old \in [Log -> 0..Len(file)]
        /\ written \in [Log -> Seq(Entry)] /\ excused \in [Log -> SUBSET Entry]
    BY <1>0 DEF RecordsTyped, FilesTyped
  <2>t. /\ written[m] \in Seq(Entry)
        /\ Held(live[m]) \in Seq(Entry) /\ Held(old[m]) \in Seq(Entry)
        /\ live[m] \in 0..Len(file) /\ old[m] \in 0..Len(file) /\ Len(file) \in Nat
    BY LogTyped
  <2>1. CASE Call(w) \/ Stat(w) \/ RenameFails(w) \/ TruncateFails(w) \/ Abandon(w)
    <3>1. UNCHANGED <<file, live, old, written, excused>>
      BY <2>1 DEF Call, Stat, RenameFails, TruncateFails, Abandon, nameVars, histVars
    <3> QED
      BY <2>0, <3>1 DEF AgedLog, Held
  <2>3. CASE Rename(w)
    <3>1. /\ live' = [live EXCEPT ![l] = 0] /\ old' = [old EXCEPT ![l] = live[l]]
          /\ UNCHANGED <<file, written>> /\ live[l] # 0
          /\ excused' = IF Full(live[l]) THEN excused
                        ELSE [excused EXCEPT ![l] = @ \cup Members(Held(old[l]))]
      BY <2>3 DEF Rename
    <3>2. CASE m # l
      <4>1. /\ written'[m] = written[m] /\ excused'[m] = excused[m]
            /\ live'[m] = live[m] /\ old'[m] = old[m]
        BY <2>0, <3>1, <3>2
      <4>2. Held(live[m])' = Held(live[m]) /\ Held(old[m])' = Held(old[m])
        BY <3>1, <4>1 DEF Held
      <4> QED
        BY <2>0, <4>1, <4>2, LogStays
    <3>3. CASE m = l
      <4>1. /\ written'[m] = written[m]
            /\ Held(live[m])' = <<>> /\ Held(old[m])' = Held(live[m])
        BY <2>0, <3>1, <3>3 DEF Held
      <4>2. CASE Full(live[l])
        <5>1. Len(Held(live[m])) >= Capacity /\ excused'[m] = excused[m]
          BY <3>1, <3>3, <4>2 DEF Full, Held
        <5>2. Aged(written[m], <<>>, Held(live[m]), excused[m])
          BY <2>0, <2>t, <5>1, AgedRotated DEF AgedLog
        <5> QED
          BY <4>1, <5>1, <5>2 DEF AgedLog
      <4>3. CASE ~Full(live[l])
        <5>1. excused'[m] = excused[m] \cup Members(Held(old[m]))
          BY <2>0, <3>1, <3>3, <4>3
        <5>2. Aged(written[m], <<>>, Held(live[m]), excused[m] \cup Members(Held(old[m])))
          BY <2>0, <2>t, AgedRotatedEarly DEF AgedLog
        <5> QED
          BY <4>1, <5>1, <5>2 DEF AgedLog
      <4> QED
        BY <4>2, <4>3
    <3> QED
      BY <3>2, <3>3
  <2>5. CASE TruncateLog(w)
    <3>1. /\ live[l] \in 1..Len(file) /\ <<>> \in Seq(Entry)
          /\ excused' = [excused EXCEPT ![l] = @ \cup Members(Held(live[l]))]
          /\ file' = [file EXCEPT ![live[l]] = <<>>]
          /\ UNCHANGED <<live, old, written>>
      BY <2>0, <2>t, <2>5, EmptyFacts DEF TruncateLog, nameVars
    <3>2. /\ file'[live[l]] = <<>>
          /\ \A g \in 1..Len(file) : g # live[l] => file'[g] = file[g]
      BY <1>0, <3>1, FileChanges
    <3>3. old[m] # live[l]
      BY <2>0, <2>t, <3>1 DEF Apart
    <3>4. Held(old[m])' = Held(old[m])
      BY <2>t, <3>1, <3>2, <3>3 DEF Held
    <3>5. CASE m # l
      <4>1. live[m] # live[l]
        BY <2>0, <2>t, <3>1, <3>5 DEF Apart
      <4>2. Held(live[m])' = Held(live[m])
        BY <2>t, <3>1, <3>2, <4>1 DEF Held
      <4>3. written'[m] = written[m] /\ excused'[m] = excused[m]
        BY <2>0, <3>1, <3>5
      <4> QED
        BY <2>0, <3>4, <4>2, <4>3, LogStays
    <3>6. CASE m = l
      <4>1. /\ written'[m] = written[m] /\ Held(live[m])' = <<>>
            /\ excused'[m] = excused[m] \cup Members(Held(live[m]))
        BY <2>0, <3>1, <3>2, <3>6 DEF Held
      <4>2. Aged(written[m], <<>>, Held(old[m]), excused[m] \cup Members(Held(live[m])))
        BY <2>0, <2>t, AgedTruncated DEF AgedLog
      <4> QED
        BY <3>4, <4>1, <4>2 DEF AgedLog
    <3> QED
      BY <3>5, <3>6
  <2>7. CASE Open(w)
    <3>1. UNCHANGED <<old, written, excused>>
      BY <2>7 DEF Open, histVars
    <3>2. CASE live[l] = 0
      <4>1. /\ live' = [live EXCEPT ![l] = Len(file) + 1]
            /\ file' = Append(file, <<>>)
        BY <2>7, <3>2 DEF Open
      <4>2. /\ file'[Len(file) + 1] = <<>>
            /\ \A g \in 1..Len(file) : file'[g] = file[g]
        BY <1>0, <4>1, OneMoreFile
      <4>3. Held(old[m])' = Held(old[m])
        BY <2>t, <3>1, <4>2 DEF Held
      <4>4. Held(live[m])' = Held(live[m])
        <5>1. CASE m = l
          <6>1. live'[m] = Len(file) + 1 /\ live'[m] # 0 /\ live[m] = 0
            BY <2>0, <2>t, <3>2, <4>1, <5>1
          <6> QED
            BY <4>2, <6>1 DEF Held
        <5>2. CASE m # l
          <6>1. live'[m] = live[m]
            BY <2>0, <4>1, <5>2
          <6> QED
            BY <2>t, <4>2, <6>1 DEF Held
        <5> QED
          BY <5>1, <5>2
      <4> QED
        BY <2>0, <3>1, <4>3, <4>4, LogStays
    <3>3. CASE live[l] # 0
      <4>1. UNCHANGED <<file, live>>
        BY <2>7, <3>3 DEF Open
      <4> QED
        BY <2>0, <3>1, <4>1 DEF AgedLog, Held
    <3> QED
      BY <3>2, <3>3
  <2>8. CASE Write(w)
    <3> DEFINE f == fd[w]
               n == rec[w]
    <3>1. /\ f \in 1..Len(file) /\ n \in Entry
          /\ file' = [file EXCEPT ![f] = Append(file[f], n)]
          /\ UNCHANGED <<live, old>>
          /\ written' = [written EXCEPT ![l] = Append(written[l], n)]
          /\ excused' = IF f = live[l] THEN excused
                        ELSE [excused EXCEPT ![l] = excused[l] \cup {n}]
      BY <1>0, <2>8 DEF Write, FilesTyped, RecordsTyped, nameVars
    <3>2. file[f] \in Seq(Entry) /\ Append(file[f], n) \in Seq(Entry)
      BY <1>0, <3>1, AppendFacts DEF FilesTyped
    <3>3. /\ file'[f] = Append(file[f], n)
          /\ \A g \in 1..Len(file) : g # f => file'[g] = file[g]
      BY <1>0, <3>1, <3>2, FileChanges
    <3> HIDE DEF f, n
    <3>4. CASE m # l
      <4>1. f # live[m] /\ f # old[m]
        BY <2>0, <2>t, <3>1, <3>4 DEF Apart, f
      <4>2. Held(live[m])' = Held(live[m]) /\ Held(old[m])' = Held(old[m])
        BY <2>t, <3>1, <3>3, <4>1 DEF Held
      <4>3. written'[m] = written[m] /\ excused'[m] = excused[m]
        BY <2>0, <3>1, <3>4
      <4> QED
        BY <2>0, <4>2, <4>3, LogStays
    <3>5. CASE m = l /\ f = live[l]
      <4>1. f # old[m] /\ f # 0
        BY <2>0, <2>t, <3>1, <3>5 DEF Apart
      <4>2. /\ Held(live[m])' = Append(Held(live[m]), n)
            /\ Held(old[m])' = Held(old[m])
        BY <2>t, <3>1, <3>3, <3>5, <4>1 DEF Held
      <4>3. written'[m] = Append(written[m], n) /\ excused'[m] = excused[m]
        BY <2>0, <3>1, <3>5
      <4>4. Aged(Append(written[m], n), Append(Held(live[m]), n), Held(old[m]), excused[m])
        BY <2>0, <2>t, <3>1, AgedWritten DEF AgedLog
      <4> QED
        BY <4>2, <4>3, <4>4 DEF AgedLog
    <3>6. CASE m = l /\ f # live[l]
      <4>1. Held(live[m])' = Held(live[m])
        BY <2>t, <3>1, <3>3, <3>6 DEF Held
      <4>2. written'[m] = Append(written[m], n) /\ excused'[m] = excused[m] \cup {n}
        BY <2>0, <3>1, <3>6
      <4>3. /\ Held(old[m])' \in Seq(Entry)
            /\ Members(Held(old[m])) \subseteq Members(Held(old[m])')
        <5>1. CASE f = old[m]
          <6>1. /\ Held(old[m])' = Append(file[f], n)
                /\ Held(old[m]) = file[f]
            BY <2>t, <3>1, <3>3, <5>1 DEF Held
          <6> QED
            BY <3>1, <3>2, <6>1, AppendMembers
        <5>2. CASE f # old[m]
          <6>1. Held(old[m])' = Held(old[m])
            BY <2>t, <3>1, <3>3, <5>2 DEF Held
          <6> QED
            BY <2>t, <6>1
        <5> QED
          BY <5>1, <5>2
      <4>4. Aged(Append(written[m], n), Held(live[m]), Held(old[m])', excused[m] \cup {n})
        BY <2>0, <2>t, <3>1, <4>3, AgedElsewhere DEF AgedLog
      <4> QED
        BY <4>1, <4>2, <4>4 DEF AgedLog
    <3> QED
      BY <3>4, <3>5, <3>6
  <2> QED
    BY <1>2, <2>1, <2>3, <2>5, <2>7, <2>8 DEF Step
<1> QED
  BY <1>1, <1>2 DEF JournalNext

(* The call of a conflict ends when the conflict log has it.                *)
LEMMA StepFaultless ==
    ASSUME Typed, FaultlessWritten, [JournalNext]_journalVars PROVE FaultlessWritten'
<1>0. FilesTyped /\ RecordsTyped
  BY TypedHalves
<1>1. CASE UNCHANGED <<written, faultless>>
  BY <1>1 DEF FaultlessWritten
<1>2. ASSUME NEW w \in Writer, Write(w)
      PROVE  FaultlessWritten'
  <2> DEFINE l == at[w]
             n == rec[w]
  <2>1. /\ l \in Log /\ "conflicts" \in Log /\ n \in Entry
        /\ written' = [written EXCEPT ![l] = Append(written[l], n)]
        /\ written \in [Log -> Seq(Entry)]
    BY <1>0, <1>2 DEF Write, RecordsTyped, Log
  <2>2. \/ faultless' = faultless
        \/ /\ faultless' = faultless \cup ({n} \cap conflicts)
           /\ l = "conflicts" \/ n \notin conflicts
    BY <1>0, <1>2 DEF Write, NextLog, RecordsTyped, Log
  <2> HIDE DEF l, n
  <2>3. CASE l = "conflicts"
    <3>1. written'["conflicts"] = Append(written["conflicts"], n)
      BY <2>1, <2>3
    <3>2. Members(written'["conflicts"]) = Members(written["conflicts"]) \cup {n}
      BY <2>1, <3>1, AppendMembers
    <3> QED
      BY <2>2, <3>2 DEF FaultlessWritten
  <2>4. CASE l # "conflicts"
    <3>1. written'["conflicts"] = written["conflicts"]
      BY <2>1, <2>4
    <3> QED
      BY <2>2, <2>4, <3>1 DEF FaultlessWritten
  <2> QED
    BY <2>3, <2>4
<1>3. [JournalNext]_journalVars =>
        UNCHANGED <<written, faultless>> \/ \E w \in Writer : Write(w)
  BY DEF JournalNext, Step, Call, Stat, Rename, RenameFails, TruncateLog, TruncateFails,
         Open, Abandon, journalVars, histVars
<1> QED
  BY <1>1, <1>2, <1>3

-----------------------------------------------------------------------------
(* The initial states. *)

LEMMA InitTyped == JournalInit => Typed
<1> SUFFICES ASSUME JournalInit PROVE FilesTyped /\ RecordsTyped
  BY TypedHalves
<1> DEFINE rotated == [i \in 1..Rotated |-> i]
           current == [i \in 1..Past |-> Rotated + i]
<1>0. /\ Rotated \in Nat /\ Past \in Nat /\ MaxRecords \in Nat
      /\ Rotated + Past <= MaxRecords
  BY JournalBounds
<1>1. rotated \in Seq(Entry) /\ current \in Seq(Entry) /\ Earlier \in Seq(Entry)
  BY <1>0 DEF Entry, Earlier
<1>2. file = <<rotated, current, rotated, current>>
  BY DEF JournalInit
<1> HIDE DEF rotated, current
<1>3. file \in Seq(Seq(Entry)) /\ Len(file) = 4
  BY <1>1, <1>2
<1>4. FilesTyped
  BY <1>3 DEF JournalInit, FilesTyped, Log
<1>5. RecordsTyped
  <2>1. /\ issued = Rotated + Past /\ issued \in 0..MaxRecords
        /\ conflicts = 1..issued /\ faultless = conflicts
    BY <1>0 DEF JournalInit
  <2>2. conflicts \subseteq Entry /\ faultless \subseteq Entry
    BY <1>0, <2>1 DEF Entry
  <2>3. written \in [Log -> Seq(Entry)] /\ excused \in [Log -> SUBSET Entry]
    BY <1>1 DEF JournalInit
  <2>4. /\ step = [w \in Writer |-> "idle"] /\ rec \in [Writer -> 0..MaxRecords]
        /\ at \in [Writer -> Log] /\ uncapped \in BOOLEAN
    <3>1. /\ step = [w \in Writer |-> "idle"] /\ rec = [w \in Writer |-> 0]
          /\ at = [w \in Writer |-> "journal"]
      BY DEF JournalInit
    <3>2. uncapped \in BOOLEAN
      BY Zenon DEF JournalInit
    <3>3. "journal" \in Log /\ 0 \in 0..MaxRecords
      BY <1>0 DEF Log
    <3> QED
      BY <3>1, <3>2, <3>3
  <2>5. step \in [Writer -> {"idle", "stat", "rename", "truncate", "open", "write"}]
    BY <2>4
  <2>6. \A w \in Writer : step[w] # "idle" => rec[w] \in Entry
    BY <2>4
  <2> QED
    BY <2>1, <2>2, <2>3, <2>4, <2>5, <2>6 DEF RecordsTyped
<1> QED
  BY <1>4, <1>5

LEMMA InitContents ==
    ASSUME JournalInit
    PROVE  /\ Len(file) = 4
           /\ \A f \in 1..4 : file[f] \in {[i \in 1..Rotated |-> i],
                                           [i \in 1..Past |-> Rotated + i]}
           /\ \A l \in Log : /\ Held(old[l]) = [i \in 1..Rotated |-> i]
                             /\ Held(live[l]) = [i \in 1..Past |-> Rotated + i]
  BY DEF JournalInit, Held, Log

LEMMA InitHolds == JournalInit => JournalIInv
<1> SUFFICES ASSUME JournalInit PROVE JournalIInv
  OBVIOUS
<1> DEFINE rotated == [i \in 1..Rotated |-> i]
           current == [i \in 1..Past |-> Rotated + i]
<1>0. /\ Rotated \in Nat /\ Past \in Nat /\ Capacity \in Nat \ {0}
      /\ Rotated <= Capacity /\ Past <= Capacity
  BY JournalBounds
<1>1. Typed
  BY InitTyped
<1>2. Apart
  BY DEF JournalInit, Apart, Log
<1>3. /\ Len(rotated) = Rotated /\ Len(current) = Past
      /\ Len(Earlier) = Rotated + Past
      /\ \A i \in 1..Rotated + Past : Earlier[i] = i
  BY <1>0 DEF Earlier
<1>4. /\ Members(rotated) = 1..Rotated
      /\ Members(current) = Rotated + 1..Rotated + Past
      /\ Members(Earlier) = 1..Rotated + Past
  <2>1. Members(rotated) = 1..Rotated
    BY <1>0, <1>3 DEF Members
  <2>2. Members(Earlier) = 1..Rotated + Past
    BY <1>0, <1>3 DEF Members
  <2>3. ASSUME NEW x PROVE x \in Members(current) <=> x \in Rotated + 1..Rotated + Past
    <3>1. x \in Members(current) <=> \E i \in 1..Past : x = Rotated + i
      BY <1>0, <1>3 DEF Members
    <3>2. x \in Rotated + 1..Rotated + Past => x - Rotated \in 1..Past /\ x = Rotated + (x - Rotated)
      BY <1>0
    <3> QED
      BY <1>0, <3>1, <3>2
  <2> QED
    BY <2>1, <2>2, <2>3
<1>5. /\ Len(file) = 4 /\ \A f \in 1..4 : file[f] \in {rotated, current}
      /\ \A l \in Log : Held(old[l]) = rotated /\ Held(live[l]) = current
  BY InitContents
<1> HIDE DEF rotated, current
<1>6. AllHaveRoom
  <2>1. ASSUME NEW f \in 1..Len(file) PROVE Room(f)
    <3>1. Len(file[f]) \in Nat /\ Len(file[f]) <= Capacity
      BY <1>0, <1>3, <1>5
    <3>2. Aimed(f) = {}
      BY DEF JournalInit, Aimed
    <3>3. Cardinality(Aimed(f)) = 0
      BY <3>2, FS_EmptySet
    <3>4. Cardinality(Writer) \in Nat \ {0}
      BY AimedFinite
    <3> QED
      BY <1>0, <3>1, <3>3, <3>4 DEF Room
  <2> QED
    BY <2>1 DEF AllHaveRoom
<1>7. ASSUME NEW l \in Log PROVE AgedLog(l)
  <2>1. written[l] = Earlier
    BY DEF JournalInit
  <2>2. Rotated \in 0..Len(Earlier) /\ Len(current) <= Len(Earlier) - Rotated
    BY <1>0, <1>3
  <2>3. ASSUME NEW i \in 1..Len(Earlier)
        PROVE  /\ i > Rotated => Earlier[i] \in Members(current)
               /\ Earlier[i] \in Members(current) \cup Members(rotated)
    BY <1>0, <1>3, <1>4
  <2>4. Aged(Earlier, current, rotated, excused[l])
    BY <2>2, <2>3 DEF Aged
  <2> QED
    BY <1>5, <2>1, <2>4 DEF AgedLog
<1>8. FaultlessWritten
  <2>1. faultless = 1..Rotated + Past /\ written["conflicts"] = Earlier
    BY DEF JournalInit, Log
  <2> QED
    BY <1>4, <2>1 DEF FaultlessWritten
<1> QED
  BY <1>1, <1>2, <1>6, <1>7, <1>8 DEF JournalIInv

-----------------------------------------------------------------------------
LEMMA StepHolds == JournalIInv /\ [JournalNext]_journalVars => JournalIInv'
<1> SUFFICES ASSUME JournalIInv, [JournalNext]_journalVars PROVE JournalIInv'
  OBVIOUS
<1>1. Typed /\ Apart /\ AllHaveRoom /\ (\A l \in Log : AgedLog(l)) /\ FaultlessWritten
  BY DEF JournalIInv
<1>2. Typed'
  BY <1>1, StepTyped
<1>3. Apart'
  BY <1>1, StepApart
<1>4. AllHaveRoom'
  BY <1>1, <1>2, StepRoom
<1>5. \A l \in Log : AgedLog(l)'
  BY <1>1, StepAged
<1>6. FaultlessWritten'
  BY <1>1, StepFaultless
<1> QED
  BY <1>2, <1>3, <1>4, <1>5, <1>6 DEF JournalIInv

LEMMA JournalInvariant == JournalSpec => []JournalIInv
  BY InitHolds, StepHolds, PTL DEF JournalSpec

(* Every reachable state of the journal has its types.                      *)
THEOREM JournalTypeCorrect == JournalSpec => []JournalTypeOK
<1>1. JournalIInv => JournalTypeOK
  BY DEF JournalIInv, Typed
<1> QED
  BY <1>1, JournalInvariant, PTL

(* A generation overshoots its capacity by a record for each writer but one *)
(* at most, as long as a full file can be renamed or truncated.             *)
THEOREM OvershootIsBounded == JournalSpec => []GenerationBound
<1>1. JournalIInv => GenerationBound
  <2> SUFFICES ASSUME JournalIInv, ~uncapped, NEW f \in 1..Len(file)
               PROVE  Len(file[f]) <= Capacity + Cardinality(Writer) - 1
    BY DEF GenerationBound
  <2>1. Room(f) /\ file[f] \in Seq(Entry)
    BY DEF JournalIInv, AllHaveRoom, Typed
  <2>2. Aimed(f) \in SUBSET Writer
    BY DEF Aimed
  <2>3. Cardinality(Aimed(f)) \in Nat /\ Cardinality(Writer) \in Nat
    BY <2>2, AimedFinite
  <2>4. Len(file[f]) \in Nat /\ Capacity \in Nat
    BY <2>1, JournalBounds
  <2> QED
    BY <2>1, <2>3, <2>4 DEF Room
<1> QED
  BY <1>1, JournalInvariant, PTL

LEMMA InvariantGivesAge == JournalIInv => LossIsAge
<1> SUFFICES ASSUME JournalIInv, NEW l \in Log, NEW i \in 1..Len(written[l])
             PROVE  \/ written[l][i] \in Readable(l) \cup excused[l]
                    \/ Len(written[l]) - i >= Capacity
  BY DEF LossIsAge
<1>1. AgedLog(l)
  BY DEF JournalIInv
<1> QED
  BY <1>1 DEF AgedLog, Aged, Readable

(* What was written and can no longer be read has a generation of newer     *)
(* records behind it, except for what the three races and errors took.      *)
THEOREM RecordsAgeOut == JournalSpec => []LossIsAge
  BY InvariantGivesAge, JournalInvariant, PTL

(* A conflict whose call met no error stays readable until it is that old.  *)
THEOREM ConflictsAgeOut == JournalSpec => []ConflictsKept
<1>1. JournalIInv => ConflictsKept
  <2> SUFFICES ASSUME JournalIInv, NEW n \in faultless
               PROVE  \/ n \in Readable("conflicts") \cup excused["conflicts"]
                      \/ \E i \in 1..Len(written["conflicts"]) :
                            /\ written["conflicts"][i] = n
                            /\ Len(written["conflicts"]) - i >= Capacity
    BY DEF ConflictsKept
  <2>1. PICK i \in 1..Len(written["conflicts"]) : written["conflicts"][i] = n
    BY DEF JournalIInv, FaultlessWritten, Members
  <2>2. LossIsAge /\ "conflicts" \in Log
    BY InvariantGivesAge DEF Log
  <2> QED
    BY <2>1, <2>2 DEF LossIsAge
<1> QED
  BY <1>1, JournalInvariant, PTL
=============================================================================
