------------------------------ MODULE DeadCode ------------------------------
(***************************************************************************)
(* The rule transitively-dead (analyzeTransitiveDeadCode of rules.ts): a   *)
(* breadth-first search from the entry points in the direction of          *)
(* dependency, then a verdict on each component.                           *)
(*                                                                         *)
(* What makes a component an entry point, and what exempts it (its type, a *)
(* manifest, vendored code), is given.  A connection may dangle: its ends  *)
(* are ids, some of which no component has.  The queue is in the order of  *)
(* the scan; any order is possible here.                                   *)
(***************************************************************************)
EXTENDS Naturals, FiniteSets

CONSTANTS
    Part,     \* the components
    Stranger, \* ids of no component
    MaxUses   \* bound on the connections

ASSUME DeadAssumption == Part \cap Stranger = {} /\ MaxUses \in Nat

VARIABLES
    uses,     \* the connections
    entries,  \* the entry points
    exempt,   \* the components that the rule does not judge
    sweep,    \* "idle", "on", "judge" or "done"
    reached,  \* reachable
    waiting,  \* the queue
    dead      \* the components reported

deadVars == <<uses, entries, exempt, sweep, reached, waiting, dead>>

PartId == Part \cup Stranger
(* Connections that leave a component, as the adjacency has them.           *)
Uses(c) == {d \in PartId : <<c, d>> \in uses /\ c \in Part}
Linked == {u[1] : u \in uses} \cup {u[2] : u \in uses}

DeadInit ==
    /\ uses = {} /\ entries = {} /\ exempt = {}
    /\ sweep = "idle"
    /\ reached = {} /\ waiting = {} /\ dead = {}

(* The rule is run; without an entry point it says nothing.                 *)
JudgeGraph ==
    /\ sweep = "idle"
    /\ uses' \in {U \in SUBSET (PartId \X PartId) : Cardinality(U) <= MaxUses}
    /\ entries' \in SUBSET Part
    /\ exempt' \in SUBSET Part
    /\ reached' = entries' /\ waiting' = entries'
    /\ sweep' = IF entries' = {} THEN "done" ELSE "on"
    /\ UNCHANGED dead

(* Mutant: connections are followed both ways. *)
FoundBothWays(c) == {d \in PartId : <<c, d>> \in uses \/ <<d, c>> \in uses} \ reached
Found(c) == Uses(c) \ reached

Sweep(c) ==
    /\ sweep = "on"
    /\ c \in waiting
    /\ reached' = reached \cup Found(c)
    /\ waiting' = (waiting \ {c}) \cup Found(c)
    /\ UNCHANGED <<uses, entries, exempt, sweep, dead>>

EndSweep ==
    /\ sweep = "on" /\ waiting = {}
    /\ sweep' = "judge"
    /\ UNCHANGED <<uses, entries, exempt, reached, waiting, dead>>

(* A component without any connection is left to the rule for orphans.      *)
Verdict ==
    /\ sweep = "judge"
    /\ dead' = {c \in Part \ (reached \cup exempt) : c \in Linked}
    /\ sweep' = "done"
    /\ UNCHANGED <<uses, entries, exempt, reached, waiting>>

DeadNext ==
    \/ JudgeGraph
    \/ \E c \in PartId : Sweep(c)
    \/ EndSweep
    \/ Verdict

DeadSpec == DeadInit /\ [][DeadNext]_deadVars

-----------------------------------------------------------------------------
DeadTypeOK ==
    /\ uses \subseteq PartId \X PartId
    /\ entries \subseteq Part /\ exempt \subseteq Part
    /\ sweep \in {"idle", "on", "judge", "done"}
    /\ reached \subseteq PartId /\ waiting \subseteq PartId
    /\ dead \subseteq Part

(* An entry point can reach n: n is in every set that has the entry points   *)
(* and whatever its members use.                                             *)
Alive(n) ==
    \A S \in SUBSET PartId :
        entries \subseteq S /\ (\A c \in S : Uses(c) \subseteq S) => n \in S

(* What is reported dead is what the author could delete: nothing that an    *)
(* entry point reaches, and everything else that the rule may judge, has a   *)
(* connection, and is unreachable, provided that there is an entry point.    *)
DeadIsUnreachable ==
    sweep = "done" =>
        dead = {c \in Part : /\ entries # {} /\ c \notin exempt /\ c \in Linked
                             /\ ~Alive(c)}
=============================================================================
