-------------------------------- MODULE Memory --------------------------------
(***************************************************************************)
(* gator-memory (src/memory/store.ts): the durable record of one project,  *)
(* and the commands that write to it.                                      *)
(*                                                                         *)
(* A scan registers the project, `remove` takes it out of the registry and *)
(* `doctor --fix` prunes it, and each then captures what it did: an event  *)
(* is appended to events.jsonl (whose rotation is Journal's) and folded    *)
(* into the record with a bounded compare-and-swap, outside of the         *)
(* registry's locks.  The dashboard removes projects without any capture.  *)
(* doctor also deletes the record of what it prunes, and of a project that *)
(* has left the registry otherwise.                                        *)
(*                                                                         *)
(* Each caller is a process; one step is one call to the file system.  The *)
(* change of the registry, which Registry models, is one step here.  An    *)
(* event is its kind and the number it was minted with.                    *)
(***************************************************************************)
EXTENDS Naturals, Sequences, FiniteSets

CONSTANTS
    Caller,       \* processes
    MaxAttempts,  \* MAX_MEMORY_CAS_ATTEMPTS
    MaxMilestones,
    MaxEvents,    \* bound on the events minted
    MemoryFaults  \* TRUE if reads and writes may fail and callers be killed

ASSUME MemoryAssumption ==
    /\ {MaxAttempts, MaxMilestones} \subseteq Nat \ {0}
    /\ MaxEvents \in Nat /\ MemoryFaults \in BOOLEAN

VARIABLES
    registered,  \* is the project in the registry?
    memory,      \* projects/<slug>.json: {} or {its content}
    minted,      \* the events so far
    caller,      \* the state of each caller
    folded,      \* (history) the events written to this record, in order
    newest,      \* (history) the newest event ever written to it
    marred       \* (history) what has gone wrong

memoryVars == <<registered, memory, minted, caller, folded, newest, marred>>

Resting == [pc |-> "idle"]
Turn(c, state) == caller' = [caller EXCEPT ![c] = state]
Mar(what) == marred' = marred \cup what

MemoryInit ==
    /\ registered = FALSE
    /\ memory = {}
    /\ minted = 0
    /\ caller = [c \in Caller |-> Resting]
    /\ folded = <<>> /\ newest = 0
    /\ marred = {}

-----------------------------------------------------------------------------
(* What is captured, and after. *)

(* Minted events of the given kinds, as yet to be captured. *)
Mint(kinds) == [i \in 1..Len(kinds) |-> [kind |-> kinds[i], n |-> minted + i]]
(* A caller with events left to capture, or else what it does then.         *)
Capturing(events, forgets) ==
    IF events # <<>> THEN [pc |-> "append", events |-> events, forgets |-> forgets]
    ELSE IF forgets THEN [pc |-> "copy"]
    ELSE Resting

(* registerProject: a registration is captured, and of later scans those    *)
(* that were significant or changed the architecture.                       *)
Register(c) ==
    \E seen \in {<<>>, <<"scanned">>}, changed \in {<<>>, <<"changed">>} :
        LET events == Mint((IF registered THEN seen ELSE <<"registered">>) \o changed) IN
        /\ caller[c] = Resting
        /\ minted + Len(events) <= MaxEvents
        /\ registered' = TRUE
        /\ minted' = minted + Len(events)
        /\ Turn(c, Capturing(events, FALSE))
        /\ UNCHANGED <<memory, folded, newest, marred>>

(* removeProject, and the dashboard's, which has no access to the store.    *)
Remove(c) ==
    /\ caller[c] = Resting
    /\ registered /\ minted < MaxEvents
    /\ registered' = FALSE
    /\ minted' = minted + 1
    /\ Turn(c, Capturing(Mint(<<"removed">>), FALSE))
    /\ UNCHANGED <<memory, folded, newest, marred>>
WebRemove ==
    /\ registered
    /\ registered' = FALSE
    /\ Mar({"web"})
    /\ UNCHANGED <<memory, minted, caller, folded, newest>>

(* fixRegistry: the project is prunable, or its record is an orphan.  The   *)
(* user confirms, or not, and the registry is backed up.                    *)
Orphaned == ~registered /\ \E r \in memory : r.status # "removed"
Fix(c) ==
    /\ caller[c] = Resting
    /\ \/ registered /\ Turn(c, [pc |-> "prune"])
       \/ Orphaned /\ Turn(c, [pc |-> "copy"])
    /\ UNCHANGED <<registered, memory, minted, folded, newest, marred>>

(* pruneProjects: the record is deleted only if the entry was there.        *)
Prune(c) ==
    /\ caller[c].pc = "prune"
    /\ IF registered
       THEN /\ minted < MaxEvents /\ minted' = minted + 1
            /\ Turn(c, Capturing(Mint(<<"removed">>), TRUE))
       ELSE Turn(c, Resting) /\ UNCHANGED minted
    /\ registered' = FALSE
    /\ UNCHANGED <<memory, folded, newest, marred>>

-----------------------------------------------------------------------------
(* recordMemoryEvent, for the first of the events. *)

Event(c) == Head(caller[c].events)
Captured(c) == Turn(c, Capturing(Tail(caller[c].events), caller[c].forgets))

(* The event is appended to events.jsonl, which nothing here reads, and the *)
(* record is read.  A record that cannot be read passes for an absent one.   *)
Reads(found, marks) ==
    \/ found = memory /\ marks = {}
    \/ MemoryFaults /\ memory # {} /\ found = {} /\ marks = {"unread"}

ReadBase(c) ==
    \E found \in {memory, {}}, marks \in {{}, {"unread"}} :
        /\ caller[c].pc = "append"
        /\ Reads(found, marks)
        /\ Turn(c, [pc |-> "check", events |-> caller[c].events,
                    forgets |-> caller[c].forgets, base |-> found, attempt |-> 0])
        /\ Mar(marks)
        /\ UNCHANGED <<registered, memory, minted, folded, newest>>

(* Mutant: the record is written whatever the second read found. *)
AgreesAlways(c, found) == TRUE
Agrees(c, found) == found = caller[c].base

(* The record that is there when the last read is done is noted.            *)
Committing(c) ==
    [pc |-> "commit", events |-> caller[c].events, forgets |-> caller[c].forgets,
     base |-> caller[c].base, seen |-> memory]

(* The record is read again; on the last attempt it is not.                 *)
Check(c) ==
    \E found \in {memory, {}}, marks \in {{}, {"unread"}} :
        /\ caller[c].pc = "check"
        /\ caller[c].attempt < MaxAttempts
        /\ Reads(found, marks)
        /\ IF Agrees(c, found) THEN Turn(c, Committing(c))
           ELSE Turn(c, [caller[c] EXCEPT !.base = found, !.attempt = @ + 1])
        /\ Mar(marks)
        /\ UNCHANGED <<registered, memory, minted, folded, newest>>
CheckNoMore(c) ==
    /\ caller[c].pc = "check"
    /\ caller[c].attempt = MaxAttempts
    /\ Turn(c, Committing(c))
    /\ Mar(IF memory = caller[c].base THEN {} ELSE {"forced"})
    /\ UNCHANGED <<registered, memory, minted, folded, newest>>

Latest(s) == SubSeq(s, IF Len(s) > MaxMilestones THEN Len(s) - MaxMilestones + 1 ELSE 1,
                    Len(s))
Blank(e) == [firstSeen |-> e.n, scans |-> 0, changes |-> 0, milestones |-> <<>>]
(* Mutant: a project that was removed stays so. *)
StatusSticky(base, e) ==
    IF e.kind = "removed" \/ \E r \in base : r.status = "removed"
    THEN "removed" ELSE "active"
Status(base, e) == IF e.kind = "removed" THEN "removed" ELSE "active"

(* applyEventToRecord. *)
ApplyEvent(base, e) ==
    LET old == IF base = {} THEN Blank(e) ELSE CHOOSE r \in base : TRUE
    IN  [firstSeen |-> old.firstSeen,
         status |-> Status(base, e),
         scans |-> old.scans + (IF e.kind = "scanned" THEN 1 ELSE 0),
         changes |-> old.changes + (IF e.kind = "changed" THEN 1 ELSE 0),
         milestones |-> Latest(Append(old.milestones, e.n))]

Commit(c) ==
    /\ caller[c].pc = "commit"
    /\ memory' = {ApplyEvent(caller[c].base, Event(c))}
    /\ folded' = Append(folded, Event(c))
    /\ newest' = IF Event(c).n > newest THEN Event(c).n ELSE newest
    /\ Captured(c)
    /\ Mar((IF memory = caller[c].seen THEN {} ELSE {"raced"})
           \cup (IF newest > Event(c).n THEN {"crossed"} ELSE {}))
    /\ UNCHANGED <<registered, minted>>

(* An error ends the capture of this event in silence.                      *)
CaptureFails(c) ==
    /\ MemoryFaults
    /\ caller[c].pc \in {"append", "commit"}
    /\ Captured(c)
    /\ Mar({"failed"})
    /\ UNCHANGED <<registered, memory, minted, folded, newest>>

-----------------------------------------------------------------------------
(* doctor deletes the record, of which it takes a copy if it can.           *)

Copy(c) ==
    /\ caller[c].pc = "copy"
    /\ Turn(c, [pc |-> "forget"])
    /\ UNCHANGED <<registered, memory, minted, folded, newest, marred>>

(* removeProjectMemory. *)
Forget(c) ==
    /\ caller[c].pc = "forget"
    /\ memory' = {}
    /\ folded' = <<>>
    /\ Turn(c, Resting)
    /\ Mar(IF registered THEN {"forgot"} ELSE {})
    /\ UNCHANGED <<registered, minted, newest>>

Kill(c) ==
    /\ MemoryFaults /\ caller[c] # Resting
    /\ Turn(c, Resting)
    /\ Mar({"failed"})
    /\ UNCHANGED <<registered, memory, minted, folded, newest>>

MemoryNext ==
    \/ \E c \in Caller :
         \/ Register(c) \/ Remove(c) \/ Fix(c) \/ Prune(c)
         \/ ReadBase(c) \/ Check(c) \/ CheckNoMore(c)
         \/ Commit(c) \/ CaptureFails(c)
         \/ Copy(c) \/ Forget(c) \/ Kill(c)
    \/ WebRemove

MemorySpec == MemoryInit /\ [][MemoryNext]_memoryVars

-----------------------------------------------------------------------------
MemoryTypeOK ==
    /\ registered \in BOOLEAN
    /\ minted \in 0..MaxEvents
    /\ \A r \in memory :
         /\ r.status \in {"active", "removed"}
         /\ Len(r.milestones) \in 1..MaxMilestones
    /\ Cardinality(memory) <= 1
    /\ \A c \in Caller :
         caller[c].pc \in {"idle", "prune", "append", "check", "commit", "copy",
                           "forget"}
    /\ folded = <<>> <=> memory = {}

Numbers(s) == [i \in 1..Len(s) |-> s[i].n]
Count(s, kind) == Cardinality({i \in 1..Len(s) : s[i].kind = kind})

(* The compare-and-swap loses no event: the record is the fold of all that   *)
(* was ever written to it, its counters count all of them and its milestones *)
(* are the latest, unless another process wrote between the second read and  *)
(* the rename or the attempts ran out, or the record could not be read.      *)
FoldsAll ==
    marred \cap {"raced", "forced", "unread"} # {} \/ \A r \in memory :
        /\ r.firstSeen = folded[1].n
        /\ r.scans = Count(folded, "scanned")
        /\ r.changes = Count(folded, "changed")
        /\ r.milestones = Latest(Numbers(folded))

(* What reconcileMemory goes by.  Once all is captured, the record says that *)
(* the project is active if and only if it is registered, unless two         *)
(* captures crossed, one was lost, the dashboard removed the project, or     *)
(* doctor deleted the record of a project that had been registered anew.     *)
StatusFollowsRegistry ==
    \/ \E c \in Caller : caller[c] # Resting
    \/ marred # {}
    \/ registered <=> \E r \in memory : r.status = "active"
=============================================================================
