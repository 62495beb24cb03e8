------------------------------- MODULE Journal -------------------------------
(***************************************************************************)
(* The registry's operation journal (registry-journal.ts and its twin in   *)
(* web/lib/server): append-only logs, shared by all processes without a    *)
(* lock, each kept to two generations.                                     *)
(*                                                                         *)
(* A record goes to the journal and, if it is a conflict, to the conflict  *)
(* log as well.  An append looks at the size of the log's live file,       *)
(* renames a full one over the rotated one (or truncates it when that      *)
(* fails), opens the live path and writes.  Each of these is a step, so    *)
(* another process may rotate between any two of them; a file that is held *)
(* open is written to under whatever name it has by then, or none.         *)
(*                                                                         *)
(* A record is a number; a file is full when it holds Capacity of them,    *)
(* which stands for maxBytes.  Every error is swallowed and ends the call. *)
(***************************************************************************)
EXTENDS Naturals, Sequences, FiniteSets

CONSTANTS
    Writer,      \* the callers of appendJournalEvent, each in a process
    Capacity,    \* records that reach maxBytes
    Rotated,     \* conflicts left in each rotated file by earlier runs
    Past,        \* and in each live file
    MaxRecords,  \* bound on the records ever appended
    FsErrors     \* TRUE if stat, rename and truncate may fail

ASSUME WriterAssumption == IsFiniteSet(Writer) /\ Writer # {}
ASSUME CapacityAssumption == Capacity \in Nat \ {0}
ASSUME PastAssumption == Rotated \in {0, Capacity} /\ Past \in 0..Capacity
ASSUME JournalBoundAssumption == MaxRecords \in Nat /\ Rotated + Past <= MaxRecords
ASSUME ErrorAssumption == FsErrors \in BOOLEAN

VARIABLES
    file,      \* every file ever created, as the records it holds
    live,      \* the file at each log's path; 0 if there is none
    old,       \* the file at the log's rotated path; 0 if there is none
    issued,    \* the records so far
    step, rec,   \* where each writer is, and the record it appends
    at, fd,    \* the log it appends to, and the file it has open
    conflicts, \* (history) the records that are conflicts
    written,   \* (history) what was written to each log, in order
    faultless,      \* (history) the conflicts whose call met no error
    excused,   \* (history) records of a log that a race or an error cost
    uncapped   \* (history) a full file was not seen to be full, or could be
               \* neither renamed nor truncated

nameVars == <<live, old>>
appendVars == <<issued, rec, at>>
histVars == <<conflicts, written, faultless, excused, uncapped>>
journalVars == <<file, nameVars, step, appendVars, fd, histVars>>

Log == {"journal", "conflicts"}
Entry == 1..MaxRecords

(* The content of a generation, and of both as readJournal finds it.        *)
Held(f) == IF f = 0 THEN <<>> ELSE file[f]
Members(s) == {s[i] : i \in 1..Len(s)}
Readable(l) == Members(Held(live[l])) \cup Members(Held(old[l]))

Go(w, l) == step' = [step EXCEPT ![w] = l]

Earlier == [i \in 1..Rotated + Past |-> i]
JournalInit ==
    /\ LET rotated == [i \in 1..Rotated |-> i]
           current == [i \in 1..Past |-> Rotated + i]
       IN  file = <<rotated, current, rotated, current>>
    /\ old = [l \in Log |-> IF l = "journal" THEN 1 ELSE 3]
    /\ live = [l \in Log |-> IF l = "journal" THEN 2 ELSE 4]
    /\ issued = Rotated + Past
    /\ step = [w \in Writer |-> "idle"]
    /\ rec = [w \in Writer |-> 0]
    /\ at = [w \in Writer |-> "journal"]
    /\ fd = [w \in Writer |-> 0]
    /\ conflicts = 1..issued
    /\ written = [l \in Log |-> Earlier]
    /\ faultless = conflicts
    /\ excused = [l \in Log |-> {}]
    /\ uncapped = FALSE

-----------------------------------------------------------------------------
(* appendJournalEvent: a record of either kind. *)
Call(w) ==
    /\ step[w] = "idle"
    /\ issued < MaxRecords
    /\ issued' = issued + 1
    /\ rec' = [rec EXCEPT ![w] = issued + 1]
    /\ at' = [at EXCEPT ![w] = "journal"]
    /\ conflicts' \in {conflicts, conflicts \cup {issued + 1}}
    /\ Go(w, "stat")
    /\ UNCHANGED <<file, nameVars, fd, written, faultless, excused, uncapped>>

(* Mutant: the threshold is off by one. *)
FullAbove(f) == f # 0 /\ Len(file[f]) > Capacity
Full(f) == f # 0 /\ Len(file[f]) >= Capacity

(* rotateIfNeededSync: is the live file full?  A stat that fails counts as  *)
(* there being no file.                                                     *)
Stat(w) ==
    /\ step[w] = "stat"
    /\ \/ /\ Go(w, IF Full(live[at[w]]) THEN "rename" ELSE "open")
          /\ UNCHANGED uncapped
       \/ /\ FsErrors
          /\ Go(w, "open")
          /\ uncapped' = (uncapped \/ Full(live[at[w]]))
    /\ UNCHANGED <<file, nameVars, appendVars, fd, conflicts, written, faultless, excused>>

(* Mutant: the rotation deletes the full file. *)
RenameAway(w) ==
    LET l == at[w] IN
    /\ step[w] = "rename"
    /\ live[l] # 0
    /\ live' = [live EXCEPT ![l] = 0]
    /\ Go(w, "open")
    /\ UNCHANGED <<old, file, appendVars, fd, histVars>>

(* The live file, whichever it is by now, takes the rotated one's place.  *)
Rename(w) ==
    LET l == at[w] IN
    /\ step[w] = "rename"
    /\ live[l] # 0
    /\ old' = [old EXCEPT ![l] = live[l]]
    /\ live' = [live EXCEPT ![l] = 0]
    /\ excused' = IF Full(live[l]) THEN excused
                  ELSE [excused EXCEPT ![l] = @ \cup Members(Held(old[l]))]
    /\ Go(w, "open")
    /\ UNCHANGED <<file, appendVars, fd, conflicts, written, faultless, uncapped>>
RenameFails(w) ==
    /\ step[w] = "rename"
    /\ FsErrors \/ live[at[w]] = 0
    /\ Go(w, "truncate")
    /\ UNCHANGED <<file, nameVars, appendVars, fd, histVars>>

TruncateLog(w) ==
    LET l == at[w] IN
    /\ step[w] = "truncate"
    /\ live[l] # 0
    /\ excused' = [excused EXCEPT ![l] = @ \cup Members(Held(live[l]))]
    /\ file' = [file EXCEPT ![live[l]] = <<>>]
    /\ Go(w, "open")
    /\ UNCHANGED <<nameVars, appendVars, fd, conflicts, written, faultless, uncapped>>
TruncateFails(w) ==
    /\ step[w] = "truncate"
    /\ FsErrors \/ live[at[w]] = 0
    /\ uncapped' = (uncapped \/ live[at[w]] # 0)
    /\ Go(w, "open")
    /\ UNCHANGED <<file, nameVars, appendVars, fd, conflicts, written, faultless, excused>>

(* Mutant: the path is opened for writing, not for appending. *)
OpenAnew(w) ==
    LET l == at[w] IN
    /\ step[w] = "open"
    /\ file' = Append(file, <<>>)
    /\ live' = [live EXCEPT ![l] = Len(file) + 1]
    /\ fd' = [fd EXCEPT ![w] = live'[l]]
    /\ Go(w, "write")
    /\ UNCHANGED <<old, appendVars, histVars>>

(* appendLine: open the live path, creating it if need be. *)
Open(w) ==
    LET l == at[w] IN
    /\ step[w] = "open"
    /\ IF live[l] = 0
       THEN /\ file' = Append(file, <<>>)
            /\ live' = [live EXCEPT ![l] = Len(file) + 1]
       ELSE UNCHANGED <<file, live>>
    /\ fd' = [fd EXCEPT ![w] = live'[l]]
    /\ Go(w, "write")
    /\ UNCHANGED <<old, appendVars, histVars>>

(* Mutant: a conflict is left to the journal. *)
NextLogNone(w) == "none"
(* What is left of the call after a record was written. *)
NextLog(w) ==
    IF at[w] = "journal" /\ rec[w] \in conflicts THEN "conflicts" ELSE "none"

Write(w) ==
    LET l == at[w] IN
    /\ step[w] = "write"
    /\ file' = [file EXCEPT ![fd[w]] = Append(@, rec[w])]
    /\ written' = [written EXCEPT ![l] = Append(@, rec[w])]
    /\ excused' = IF fd[w] = live[l] THEN excused
                  ELSE [excused EXCEPT ![l] = @ \cup {rec[w]}]
    /\ fd' = [fd EXCEPT ![w] = 0]
    /\ \/ /\ NextLog(w) # "none"
          /\ at' = [at EXCEPT ![w] = NextLog(w)]
          /\ Go(w, "stat")
          /\ UNCHANGED <<rec, faultless>>
       \/ /\ NextLog(w) = "none"
          /\ at' = [at EXCEPT ![w] = "journal"]
          /\ rec' = [rec EXCEPT ![w] = 0]
          /\ faultless' = faultless \cup ({rec[w]} \cap conflicts)
          /\ Go(w, "idle")
    /\ UNCHANGED <<nameVars, issued, conflicts, uncapped>>

(* open or write fails and the call gives up in silence, or the process is  *)
(* killed and another one comes.                                            *)
Abandon(w) ==
    /\ step[w] # "idle"
    /\ fd' = [fd EXCEPT ![w] = 0]
    /\ at' = [at EXCEPT ![w] = "journal"]
    /\ rec' = [rec EXCEPT ![w] = 0]
    /\ Go(w, "idle")
    /\ UNCHANGED <<file, nameVars, issued, histVars>>

Step(w) ==
    \/ Call(w) \/ Stat(w)
    \/ Rename(w) \/ RenameFails(w) \/ TruncateLog(w) \/ TruncateFails(w)
    \/ Open(w) \/ Write(w)

JournalNext == \E w \in Writer : Step(w) \/ Abandon(w)

JournalSpec == JournalInit /\ [][JournalNext]_journalVars

-----------------------------------------------------------------------------
JournalTypeOK ==
    /\ file \in Seq(Seq(Nat))
    /\ live \in [Log -> 0..Len(file)] /\ old \in [Log -> 0..Len(file)]
    /\ step \in [Writer -> {"idle", "stat", "rename", "truncate", "open", "write"}]
    /\ issued \in 0..MaxRecords /\ rec \in [Writer -> 0..MaxRecords]
    /\ at \in [Writer -> Log]
    /\ fd \in [Writer -> 0..Len(file)]
    /\ \A w \in Writer : step[w] = "write" <=> fd[w] # 0
    /\ conflicts \subseteq Entry /\ faultless \subseteq Entry
    /\ written \in [Log -> Seq(Nat)]
    /\ excused \in [Log -> SUBSET Entry] /\ uncapped \in BOOLEAN

(* The bound that several appenders leave of "a generation can overshoot by *)
(* at most one record" (registry-journal.ts:29): each of them may have      *)
(* passed the size check before the others wrote.  It needs the size to be  *)
(* read, and one of rename and truncate to work.                            *)
GenerationBound ==
    ~uncapped => \A f \in 1..Len(file) :
        Len(file[f]) <= Capacity + Cardinality(Writer) - 1

(* Records leave a log by age only: what was written and cannot be read any *)
(* more has a full generation of newer records behind it, except what three *)
(* races or errors took: written to a file that was no longer the live one, *)
(* in the rotated file when a second rotation replaced it with a file that  *)
(* was not full, or truncated because a rename failed.                      *)
LossIsAge ==
    \A l \in Log : \A i \in 1..Len(written[l]) :
        \/ written[l][i] \in Readable(l) \cup excused[l]
        \/ Len(written[l]) - i >= Capacity

(* "No amount of read traffic can flush" a conflict: one whose call met no  *)
(* error is readable in the conflict log until a generation of newer        *)
(* conflicts has been written, whatever the journal has been through.       *)
ConflictsKept ==
    \A n \in faultless :
        \/ n \in Readable("conflicts") \cup excused["conflicts"]
        \/ \E i \in 1..Len(written["conflicts"]) :
              /\ written["conflicts"][i] = n
              /\ Len(written["conflicts"]) - i >= Capacity

(* As the module's header has it: "a generation can overshoot by at most    *)
(* one record".                                                             *)
OvershootByOne ==
    \A l \in Log : Len(Held(live[l])) <= Capacity + 1
=============================================================================
