---------------------------- MODULE ImportCycles ----------------------------
(***************************************************************************)
(* The detection of import cycles (detectImportCycles of                   *)
(* architecture-insights.ts): a depth-first search with a stack of frames, *)
(* each a module and those of its imports that are yet to be looked at.    *)
(* A module is visited once; an import of a module on the stack closes a   *)
(* cycle, which is the stack from that module on.  Of the cycles with the  *)
(* same names the first is reported, and no more than CycleLimit.          *)
(*                                                                         *)
(* The order of the imports and of the modules is that of the scan; any    *)
(* order is possible here.                                                 *)
(***************************************************************************)
EXTENDS Naturals, Sequences, FiniteSets

CONSTANTS
    Source,      \* the internal code components
    Namings,     \* functions from Source to names, which need not be distinct
    CycleLimit,  \* limit
    MaxImports   \* bound on the imports of a graph

ASSUME CycleAssumption == CycleLimit \in Nat \ {0} /\ MaxImports \in Nat

VARIABLES
    imports,  \* the import edges
    name,     \* the name of each component
    search,   \* "idle", "on" or "done"
    frames,   \* the stack
    entered,  \* visited
    cycles    \* the cycles reported, as component ids

cycleVars == <<imports, name, search, frames, entered, cycles>>

Imported(m) == {n \in Source : <<m, n>> \in imports}
Importers == {e[1] : e \in imports}
Frame(m) == [node |-> m, left |-> Imported(m)]
Top == frames[Len(frames)]
Below == SubSeq(frames, 1, Len(frames) - 1)

CyclesInit ==
    /\ imports = {}
    /\ name = [m \in Source |-> m]
    /\ search = "idle"
    /\ frames = <<>>
    /\ entered = {}
    /\ cycles = <<>>

DetectCycles ==
    /\ search = "idle"
    /\ imports' \in {E \in SUBSET (Source \X Source) : Cardinality(E) <= MaxImports}
    /\ name' \in Namings
    /\ search' = "on"
    /\ UNCHANGED <<frames, entered, cycles>>

(* visitIterative, for the next module that imports something.              *)
Start(m) ==
    /\ search = "on" /\ frames = <<>>
    /\ m \in Importers \ entered
    /\ entered' = entered \cup {m}
    /\ frames' = <<Frame(m)>>
    /\ UNCHANGED <<imports, name, search, cycles>>

Looked(n) == Append(Below, [Top EXCEPT !.left = @ \ {n}])

Descend(n) ==
    /\ search = "on" /\ frames # <<>>
    /\ n \in Top.left \ entered
    /\ entered' = entered \cup {n}
    /\ frames' = Append(Looked(n), Frame(n))
    /\ UNCHANGED <<imports, name, search, cycles>>

(* Mutant: the whole stack is taken for the cycle. *)
CycleAtWhole(i) == [j \in 1..Len(frames) |-> frames[j].node]
(* The stack from its i-th module on. *)
CycleAt(i) == [j \in 1..Len(frames) - i + 1 |-> frames[i + j - 1].node]

(* The names of a cycle, each as often as it occurs. *)
Canonical(c) ==
    [m \in Source |-> Cardinality({j \in 1..Len(c) : name[c[j]] = name[m]})]

(* Mutant: cycles of as many modules pass for the same. *)
ReportedLength(c) == \E k \in 1..Len(cycles) : Len(cycles[k]) = Len(c)
Reported(c) == \E k \in 1..Len(cycles) : Canonical(cycles[k]) = Canonical(c)

(* A back edge.  At the limit the search is over, with its stack as it is.  *)
Close(n) ==
    /\ search = "on" /\ frames # <<>>
    /\ n \in Top.left
    /\ \E i \in 1..Len(frames) :
         /\ frames[i].node = n
         /\ cycles' = IF Reported(CycleAt(i)) THEN cycles
                      ELSE Append(cycles, CycleAt(i))
    /\ frames' = Looked(n)
    /\ search' = IF Len(cycles') >= CycleLimit THEN "done" ELSE "on"
    /\ UNCHANGED <<imports, name, entered>>

(* An import that was fully processed before.                               *)
Skip(n) ==
    /\ search = "on" /\ frames # <<>>
    /\ n \in Top.left \cap entered
    /\ \A i \in 1..Len(frames) : frames[i].node # n
    /\ frames' = Looked(n)
    /\ UNCHANGED <<imports, name, search, entered, cycles>>

Return ==
    /\ search = "on" /\ frames # <<>>
    /\ Top.left = {}
    /\ frames' = Below
    /\ UNCHANGED <<imports, name, search, entered, cycles>>

EndSearch ==
    /\ search = "on" /\ frames = <<>>
    /\ Importers \subseteq entered
    /\ search' = "done"
    /\ UNCHANGED <<imports, name, frames, entered, cycles>>

CyclesNext ==
    \/ DetectCycles
    \/ \E m \in Source : Start(m) \/ Descend(m) \/ Close(m) \/ Skip(m)
    \/ Return
    \/ EndSearch

CyclesSpec == CyclesInit /\ [][CyclesNext]_cycleVars

-----------------------------------------------------------------------------
CyclesTypeOK ==
    /\ imports \subseteq Source \X Source
    /\ search # "idle" => name \in Namings
    /\ search \in {"idle", "on", "done"}
    /\ frames \in Seq([node : Source, left : SUBSET Source])
    /\ entered \subseteq Source
    /\ cycles \in Seq(Seq(Source))

(* c is a simple cycle of imports.                                           *)
IsCycle(c) ==
    /\ c # <<>>
    /\ \A i, j \in 1..Len(c) : i # j => c[i] # c[j]
    /\ \A i \in 1..Len(c) - 1 : <<c[i], c[i + 1]>> \in imports
    /\ <<c[Len(c)], c[1]>> \in imports

(* What is reported as a cycle is one, also after a search that the limit    *)
(* cut short and left its stack standing.                                    *)
CyclesAreReal == \A k \in 1..Len(cycles) : IsCycle(cycles[k])

(* The modules that m imports, directly or through others.                   *)
Chain(m) ==
    {n \in Source : \A S \in SUBSET Source :
        Imported(m) \subseteq S /\ (\A x \in S : Imported(x) \subseteq S) => n \in S}

(* Although each module is visited once, no knot of modules that import each *)
(* other goes unreported: a search that ends below its limit has reported a  *)
(* cycle within each of them, if names tell the modules apart.               *)
NoKnotMissed ==
    search = "done" /\ Len(cycles) < CycleLimit
    /\ (\A m, n \in Source : m # n => name[m] # name[n])
    => \A m \in Source : m \in Chain(m) =>
         \E k \in 1..Len(cycles) :
            cycles[k][1] \in Chain(m) /\ m \in Chain(cycles[k][1])
=============================================================================
