------------------------------ MODULE Partition ------------------------------
(***************************************************************************)
(* The partition of a scan into work packets (deep-map/partition.ts).      *)
(*                                                                         *)
(* The mappable components are numbered in the order of their PageRank.    *)
(* They fall into buckets, communities or layers.  A bucket of fewer than  *)
(* MinGroup components goes to the residual bag; the others are taken by   *)
(* size, and one with more than PacketSize components is split by a        *)
(* breadth-first search.  The residual bag is sliced by rank, and all      *)
(* groups past MaxPackets are dropped and counted.                         *)
(*                                                                         *)
(* The search's queue is the sequence of the batches of neighbours that    *)
(* were appended to it together, each in the order of rank.  Labels, path  *)
(* prefixes and the filter that chooses the components are left out.       *)
(***************************************************************************)
EXTENDS Naturals, Sequences, FiniteSets

CONSTANTS
    Nodes,       \* the number of mappable components
    Buckets,     \* the number of communities or layers
    MinGroup,    \* options.minGroup
    PacketSize,  \* options.maxNodesPerPacket
    MaxPackets   \* options.maxPackets

ASSUME PartitionAssumption ==
    /\ Nodes \in Nat /\ Buckets \in Nat
    /\ {MinGroup, PacketSize, MaxPackets} \subseteq Nat \ {0}

VARIABLES
    edge,      \* the connections between components, as sets of two
    bucket,    \* the bucket of each component
    stage,     \* "idle", "next", "split" or "done"
    task,      \* the bucket that is being split, or was last
    kept,      \* the buckets that are yet to be grouped
    bag,       \* the residual components that are yet to be grouped
    seen,      \* visited, in the bucket at hand
    queue,     \* its queue
    part,      \* current
    groups,    \* the groups so far
    truncated  \* how many were dropped

searchVars == <<seen, queue, part>>
partitionVars == <<edge, bucket, stage, task, kept, bag, searchVars, groups, truncated>>

Node == 1..Nodes
Bucket == 1..Buckets
Pair == {{i, j} : i, j \in Node} \ {{i} : i \in Node}
Bucketed(b) == {n \in Node : bucket[n] = b}
Size(b) == Cardinality(Bucketed(b))
Least(n, S) == n \in S /\ \A m \in S : n <= m
Group(b, S) == [of |-> b, members |-> S]

PartitionInit ==
    /\ edge = {}
    /\ bucket = [n \in Node |-> n]
    /\ stage = "idle" /\ task = 0
    /\ kept = {} /\ bag = {}
    /\ seen = {} /\ queue = <<>> /\ part = {}
    /\ groups = <<>>
    /\ truncated = 0

(* partitionComponents is called on some graph: the buckets are filled and  *)
(* the small ones emptied into the residual bag.                            *)
Bucketise ==
    /\ stage = "idle"
    /\ edge' \in SUBSET Pair
    /\ bucket' \in [Node -> Bucket]
    /\ kept' = {b \in Bucket : Cardinality({n \in Node : bucket'[n] = b}) >= MinGroup}
    /\ bag' = {n \in Node : bucket'[n] \notin kept'}
    /\ stage' = "next"
    /\ UNCHANGED <<task, searchVars, groups, truncated>>

(* The largest bucket is next; of two of the same size, the first.          *)
NextBucket(b) ==
    /\ b \in kept
    /\ \A c \in kept \ {b} : Size(b) > Size(c) \/ (Size(b) = Size(c) /\ b < c)

(* A bucket that fits a packet is a group.                                  *)
Whole(b) ==
    /\ stage = "next" /\ NextBucket(b)
    /\ Size(b) <= PacketSize
    /\ groups' = Append(groups, Group(b, Bucketed(b)))
    /\ kept' = kept \ {b}
    /\ UNCHANGED <<edge, bucket, stage, task, bag, searchVars, truncated>>

(* splitConnected.                                                          *)
Split(b) ==
    /\ stage = "next" /\ NextBucket(b)
    /\ Size(b) > PacketSize
    /\ stage' = "split" /\ task' = b
    /\ seen' = {}
    /\ UNCHANGED <<edge, bucket, kept, bag, queue, part, groups, truncated>>

Seed(n) ==
    /\ stage = "split"
    /\ queue = <<>>
    /\ Least(n, Bucketed(task) \ seen)
    /\ seen' = seen \cup {n}
    /\ queue' = <<{n}>>
    /\ UNCHANGED <<edge, bucket, stage, task, kept, bag, part, groups, truncated>>

(* Mutant: the connections are not found. *)
NeighboursNone(n) == {}
Neighbours(n) == {m \in Bucketed(task) \ seen : {n, m} \in edge}

Batches(S) == IF S = {} THEN <<>> ELSE <<S>>

(* Mutant: components are marked as they are visited, not as they are queued. *)
MarkedLate(n) == {n}
Marked(n) == Neighbours(n)

(* Mutant: a part is closed once it is more than full. *)
FillsAbove(S) == Cardinality(S) > PacketSize
Fills(S) == Cardinality(S) >= PacketSize

Visit(n) ==
    /\ stage = "split"
    /\ queue # <<>>
    /\ Least(n, Head(queue))
    /\ IF Fills(part \cup {n})
       THEN /\ groups' = Append(groups, Group(task, part \cup {n}))
            /\ part' = {}
       ELSE /\ part' = part \cup {n}
            /\ UNCHANGED groups
    /\ seen' = seen \cup Marked(n)
    /\ queue' = Batches(Head(queue) \ {n}) \o Tail(queue) \o Batches(Neighbours(n))
    /\ UNCHANGED <<edge, bucket, stage, task, kept, bag, truncated>>

EndSplit ==
    /\ stage = "split"
    /\ queue = <<>>
    /\ Bucketed(task) \subseteq seen
    /\ groups' = IF part = {} THEN groups ELSE Append(groups, Group(task, part))
    /\ part' = {}
    /\ kept' = kept \ {task}
    /\ stage' = "next"
    /\ UNCHANGED <<edge, bucket, task, bag, seen, queue, truncated>>

(* The residual bag, PacketSize at a time in the order of rank.             *)
Residual(S) ==
    /\ stage = "next" /\ kept = {}
    /\ S # {} /\ S \subseteq bag
    /\ \A n \in S, m \in bag \ S : n < m
    /\ Cardinality(S) = PacketSize \/ (S = bag /\ Cardinality(S) <= PacketSize)
    /\ groups' = Append(groups, Group(0, S))
    /\ bag' = bag \ S
    /\ UNCHANGED <<edge, bucket, stage, task, kept, searchVars, truncated>>

Truncate ==
    /\ stage = "next" /\ kept = {} /\ bag = {}
    /\ stage' = "done"
    /\ IF Len(groups) > MaxPackets
       THEN /\ truncated' = Len(groups) - MaxPackets
            /\ groups' = SubSeq(groups, 1, MaxPackets)
       ELSE UNCHANGED <<groups, truncated>>
    /\ UNCHANGED <<edge, bucket, task, kept, bag, searchVars>>

PartitionNext ==
    \/ Bucketise
    \/ \E b \in Bucket : Whole(b) \/ Split(b)
    \/ \E n \in Node : Seed(n) \/ Visit(n)
    \/ EndSplit
    \/ \E S \in SUBSET bag : Residual(S)
    \/ Truncate

PartitionSpec == PartitionInit /\ [][PartitionNext]_partitionVars

-----------------------------------------------------------------------------
PartitionTypeOK ==
    /\ edge \subseteq Pair /\ bucket \in [Node -> Nat]
    /\ stage \in {"idle", "next", "split", "done"} /\ task \in Bucket \cup {0}
    /\ kept \subseteq Bucket /\ bag \subseteq Node
    /\ seen \subseteq Node /\ part \subseteq Node
    /\ queue \in Seq(SUBSET Node)
    /\ groups \in Seq([of : Bucket \cup {0}, members : SUBSET Node])
    /\ truncated \in Nat

Grouped == UNION {groups[i].members : i \in 1..Len(groups)}

(* No agent is sent a component twice, no packet is empty or over its size,  *)
(* and a component is in none only if groups were dropped and counted.       *)
EachOnce ==
    /\ \A i, j \in 1..Len(groups) :
         i # j => groups[i].members \cap groups[j].members = {}
    /\ \A i \in 1..Len(groups) : Cardinality(groups[i].members) \in 1..PacketSize
    /\ stage = "done" =>
         /\ Len(groups) <= MaxPackets
         /\ truncated = 0 => Grouped = Node

(* S is connected: no proper part of it is without an edge to the rest.      *)
Connected(S) ==
    \A A \in SUBSET S : A # {} /\ A # S =>
        \E i \in A, j \in S \ A : {i, j} \in edge

(* The first part of a bucket that is connected is connected.                *)
FirstPartConnected ==
    \A i \in 1..Len(groups) :
        LET b == groups[i].of IN
        b # 0 /\ (\A j \in 1..i - 1 : groups[j].of # b) /\ Connected(Bucketed(b))
        => Connected(groups[i].members)

(* "Split an oversized group into parts that are still connected"            *)
(* (partition.ts:130): the parts of a connected bucket are connected.        *)
PartsConnected ==
    \A i \in 1..Len(groups) :
        groups[i].of # 0 /\ Connected(Bucketed(groups[i].of))
        => Connected(groups[i].members)
=============================================================================
