--------------------------- MODULE DeepMap_proofs ---------------------------
(***************************************************************************)
(* What deep-map promises for any number of plans, agents, ingests, runs   *)
(* and scans, and for any graph and any limits of the partition that it    *)
(* plans by.                                                               *)
(*                                                                         *)
(* The run.  No lock orders the commands, so the argument is about what    *)
(* each of them has read.  What refers to a packet is written after it     *)
(* (OnFile).  What the host was told of, hands out or gets back is on the  *)
(* run's list, since a plan lists what it read and its own (Reported).     *)
(* Between its two writes an ingest finds its own findings on file         *)
(* (Accounts).  And a finding on file would be accepted again, by what is  *)
(* on disk and by what each ingest under way has read (Accepted).  Each    *)
(* holds until the mishap that its theorem names.                          *)
(*                                                                         *)
(* The partition.  The argument is a ledger of the components.  One of a   *)
(* bucket that is yet to be grouped, or in the residual bag, is in no      *)
(* group; one of the bucket at hand is in a group once it was visited,     *)
(* unless it is in the part that is being filled; the queue holds each     *)
(* component that is seen and not visited in one of its batches.           *)
(* The first part of a connected bucket starts from one component and      *)
(* takes neighbours only, so it is connected (FirstIInv).                  *)
(***************************************************************************)
EXTENDS DeepMap, Partition, FiniteSetTheorems, TLAPS

-----------------------------------------------------------------------------
(* The run.                                                                  *)

(* Functions from some of the packet ids to S. *)
Partial(S) == UNION {[D -> S] : D \in SUBSET PacketId}

PacketFile == [scope : SUBSET Id, plan : Nat]
ResultFile == [about : Id, plan : Nat]
Finding == [id : PacketId, about : Id]

Loaded  == [at : {"read"}, run : Run \cup {0}, tiers : SUBSET {1, 2, 3},
            known : 1..MaxScan, plan : Nat]
Writing == [at : {"write"}, run : Run, plan : Nat, todo : Partial(SUBSET Id),
            ids : SUBSET PacketId, base : SUBSET SUBSET PacketId]
Ending  == [at : {"latest"}, run : Run, ids : SUBSET PacketId]
Busy    == [at : {"busy"}, run : Run, id : PacketId, plan : Nat]
Reading == [at : {"results"}, run : Run, known : 1..MaxScan,
            packets : Partial(PacketFile)]
Rewriting == [at : {"findings", "account"}, run : Run, found : SUBSET Finding]

Mishap == {"replanned", "refused", "overlapped", "killed", "answered again",
           "ingests", "torn"}

PlannerState  == {Idle} \cup Loaded \cup Writing \cup Ending
AgentState    == {Idle} \cup Busy
IngesterState == {Idle} \cup Reading \cup Rewriting

Shape ==
    /\ scan \in 1..MaxScan /\ plans \in 0..MaxPlan /\ latest \in Run \cup {0}
    /\ packet \in [Run -> Partial(PacketFile)]
    /\ result \in [Run -> Partial(ResultFile)]
    /\ manifest \in [Run -> SUBSET SUBSET PacketId]
    /\ findings \in [Run -> SUBSET Finding]
    /\ account \in [Run -> SUBSET Nat]
    /\ planner \in [Planner -> PlannerState]
    /\ agent \in [Agent -> AgentState]
    /\ ingester \in [Ingester -> IngesterState]
    /\ reported \in SUBSET (Run \X PacketId)
    /\ blame \in [Run -> SUBSET Mishap]

(* Packets are written one by one, before the manifest that lists them.     *)
RunOnFile(r) ==
    /\ IsFiniteSet(DOMAIN packet[r])
    /\ Listed(r) \subseteq DOMAIN packet[r]
    /\ \A f \in findings[r] : f.id \in DOMAIN packet[r]
PlannerOnFile(p) ==
    LET me == planner[p] IN
    /\ me.at = "write" =>
         /\ me.ids \subseteq DOMAIN packet[me.run] \cup DOMAIN me.todo
         /\ UNION me.base \subseteq DOMAIN packet[me.run]
    /\ me.at = "latest" =>
         /\ me.ids \subseteq DOMAIN packet[me.run]
         /\ manifest[me.run] # {}
IngesterOnFile(i) ==
    LET me == ingester[i] IN
    /\ me.at = "results" => DOMAIN me.packets \subseteq DOMAIN packet[me.run]
    /\ me.at \in {"findings", "account"} =>
         /\ IsFiniteSet(me.found)
         /\ \A f \in me.found : f.id \in DOMAIN packet[me.run]
OnFile ==
    /\ \A r \in Run : RunOnFile(r)
    /\ latest # 0 => manifest[latest] # {}
    /\ \A rk \in reported : rk[2] \in DOMAIN packet[rk[1]]
    /\ \A p \in Planner : PlannerOnFile(p)
    /\ \A i \in Ingester : IngesterOnFile(i)

-----------------------------------------------------------------------------
LEMMA Bounds ==
    /\ MaxScan \in Nat \ {0} /\ MaxRun \in Nat \ {0} /\ MaxPlan \in Nat \ {0}
    /\ MaxDeep \in Nat /\ Run \subseteq Nat /\ 0 \notin Run
    /\ TierChoices \subseteq SUBSET {1, 2, 3}
  BY DeepMapBoundAssumption, TierAssumption DEF DeepMapBoundAssumption, TierAssumption, Run

LEMMA PartialIs ==
    ASSUME NEW S
    PROVE  /\ \A f \in Partial(S) : /\ f = [x \in DOMAIN f |-> f[x]]
                                    /\ DOMAIN f \subseteq PacketId
                                    /\ \A x \in DOMAIN f : f[x] \in S
           /\ \A D \in SUBSET PacketId : \A f \in [D -> S] : f \in Partial(S)
  BY DEF Partial

LEMMA WithIs ==
    ASSUME NEW S, NEW f \in Partial(S), NEW k \in PacketId, NEW v \in S
    PROVE  /\ With(f, k, v) \in Partial(S)
           /\ DOMAIN With(f, k, v) = DOMAIN f \cup {k}
           /\ With(f, k, v)[k] = v
           /\ \A x \in DOMAIN f \ {k} : With(f, k, v)[x] = f[x]
<1>1. With(f, k, v) \in [DOMAIN f \cup {k} -> S]
  BY PartialIs DEF With
<1> QED
  BY <1>1, PartialIs DEF With

LEMMA BothArePartial ==
    ASSUME NEW S, NEW f \in Partial(S), NEW g \in Partial(S)
    PROVE  Both(f, g) \in Partial(S)
<1>1. Both(f, g) \in [DOMAIN f \cup DOMAIN g -> S]
  BY PartialIs DEF Both
<1> QED
  BY <1>1, PartialIs

LEMMA EmptyIsPartial ==
    ASSUME NEW S
    PROVE  Empty \in Partial(S) /\ DOMAIN Empty = {}
<1>1. Empty \in [{} -> S] /\ {} \in SUBSET PacketId
  BY DEF Empty
<1> QED
  BY <1>1, PartialIs

LEMMA IdsAre ==
    ASSUME NEW t \in {1, 2, 3}, NEW n
    PROVE  Ids(t, n) \in SUBSET PacketId
  BY DEF Ids, PacketId

LEMMA PacketsArePartial ==
    ASSUME NEW tiers, NEW ids \in SUBSET Id, NEW found, NEW todo \in Packets(tiers, ids, found)
    PROVE  todo \in Partial(SUBSET Id)
<1>1. PICK g \in IF 1 \in tiers THEN Tier1(ids) ELSE {Empty},
           h \in IF 2 \in tiers THEN Tier2(ids) ELSE {Empty} :
              todo = Both(g, Both(h, IF 3 \in tiers THEN Tier3(h, ids, found) ELSE Empty))
  BY DEF Packets
<1>2. g \in Partial(SUBSET Id)
  <2>1. CASE 1 \in tiers
    <3>1. PICK n : g \in [Ids(1, n) -> (SUBSET ids) \ {{}}]
      BY <1>1, <2>1 DEF Tier1
    <3>2. g \in [Ids(1, n) -> SUBSET Id]
      BY <3>1
    <3> QED
      BY <3>2, IdsAre, PartialIs
  <2> QED
    BY <1>1, <2>1, EmptyIsPartial
<1>3. h \in Partial(SUBSET Id)
  <2>1. CASE 2 \in tiers
    <3>1. PICK n : h \in [Ids(2, n) -> {{c} : c \in ids}]
      BY <1>1, <2>1 DEF Tier2
    <3>2. h \in [Ids(2, n) -> SUBSET Id]
      BY <3>1
    <3> QED
      BY <3>2, IdsAre, PartialIs
  <2> QED
    BY <1>1, <2>1, EmptyIsPartial
<1>4. Tier3(h, ids, found) \in Partial(SUBSET Id)
  <2>1. \A j \in DOMAIN h : h[j] \in SUBSET Id
    BY <1>3, PartialIs
  <2> DEFINE scope == (UNION {h[j] : j \in DOMAIN h}) \cup ({f.about : f \in found} \cap ids)
  <2>2. scope \in SUBSET Id
    BY <2>1
  <2>3. Tier3(h, ids, found) = [k \in Ids(3, 1) |-> scope]
    BY DEF Tier3
  <2>4. Tier3(h, ids, found) \in [Ids(3, 1) -> SUBSET Id]
    BY <2>2, <2>3
  <2> QED
    BY <2>4, IdsAre, PartialIs
<1>5. (IF 3 \in tiers THEN Tier3(h, ids, found) ELSE Empty) \in Partial(SUBSET Id)
  BY <1>4, EmptyIsPartial
<1> QED
  BY <1>1, <1>2, <1>3, <1>5, BothArePartial

LEMMA StatesAre ==
    /\ \A me \in PlannerState : /\ me.at = "read" => me \in Loaded
                                /\ me.at = "write" => me \in Writing
                                /\ me.at = "latest" => me \in Ending
    /\ \A me \in AgentState : me.at = "busy" => me \in Busy
    /\ \A me \in IngesterState : /\ me.at = "results" => me \in Reading
                                 /\ me.at \in {"findings", "account"} => me \in Rewriting
                                 /\ me.run # 0 => me \in Reading \cup Rewriting
    /\ Idle.at = "idle" /\ Idle.run = 0
    /\ Idle \in PlannerState /\ Idle \in AgentState /\ Idle \in IngesterState
<1> USE DEF Idle, PlannerState, AgentState, IngesterState
<1>1. \A me \in PlannerState : /\ me.at = "read" => me \in Loaded
                               /\ me.at = "write" => me \in Writing
                               /\ me.at = "latest" => me \in Ending
  BY DEF Loaded, Writing, Ending
<1>2. \A me \in AgentState : me.at = "busy" => me \in Busy
  BY DEF Busy
<1>3. \A me \in IngesterState : /\ me.at = "results" => me \in Reading
                                /\ me.at \in {"findings", "account"} => me \in Rewriting
                                /\ me.run # 0 => me \in Reading \cup Rewriting
  BY DEF Reading, Rewriting
<1> QED
  BY <1>1, <1>2, <1>3

LEMMA DeepMapStart == DeepMapInit => Shape /\ OnFile
<1> SUFFICES ASSUME DeepMapInit PROVE Shape /\ OnFile
  OBVIOUS
<1> USE DEF DeepMapInit
<1>1. 1 \in 1..MaxScan /\ 0 \in 0..MaxPlan
  BY Bounds
<1>2. Shape
  BY <1>1, EmptyIsPartial, StatesAre DEF Shape
<1>3. \A r \in Run : /\ packet[r] = Empty /\ Listed(r) = {} /\ findings[r] = {}
  BY DEF Listed
<1>4. IsFiniteSet({})
  BY FS_EmptySet
<1>5. DOMAIN Empty = {}
  BY EmptyIsPartial
<1> QED
  BY <1>2, <1>3, <1>4, <1>5, StatesAre DEF OnFile, RunOnFile, PlannerOnFile,
     IngesterOnFile

-----------------------------------------------------------------------------
(* Types. *)

Plan(p) == \/ PlanLoad(p) \/ PlanRead(p) \/ WritePacket(p) \/ RefusePacket(p)
           \/ WriteManifest(p) \/ WriteLatest(p) \/ KillPlan(p)
Ingest(i) == \/ IngestLoad(i) \/ IngestResults(i)
             \/ WriteFindings(i) \/ WriteAccount(i) \/ KillIngest(i)

LEMMA BlameType ==
    ASSUME Shape, NEW r \in Run, NEW what \in Mishap, Blame(r, what)
    PROVE  blame' \in [Run -> SUBSET Mishap]
  BY DEF Shape, Blame

LEMMA WriteTypes ==
    ASSUME Shape, NEW p \in Planner, WritePacket(p) \/ RefusePacket(p)
    PROVE  /\ planner' \in [Planner -> PlannerState]
           /\ packet' \in [Run -> Partial(PacketFile)]
           /\ blame' \in [Run -> SUBSET Mishap]
<1> DEFINE me == planner[p]
<1>1. me \in Writing
  BY StatesAre DEF Shape, WritePacket, RefusePacket
<1>2. me.run \in Run /\ me.plan \in Nat /\ me.todo \in Partial(SUBSET Id)
  BY <1>1 DEF Writing
<1>3. CASE WritePacket(p)
  <2>1. PICK k \in DOMAIN me.todo :
          /\ packet' = [packet EXCEPT ![me.run] =
               With(@, k, [scope |-> me.todo[k], plan |-> me.plan])]
          /\ planner' = [planner EXCEPT ![p].todo =
               [j \in DOMAIN me.todo \ {k} |-> me.todo[j]]]
          /\ IF k \in DOMAIN packet[me.run] THEN Blame(me.run, "replanned")
             ELSE UNCHANGED blame
    BY <1>3 DEF WritePacket
  <2>2. k \in PacketId /\ [scope |-> me.todo[k], plan |-> me.plan] \in PacketFile
    BY <1>2, PartialIs DEF PacketFile
  <2>3. packet[me.run] \in Partial(PacketFile)
    BY <1>2 DEF Shape
  <2>4. With(packet[me.run], k, [scope |-> me.todo[k], plan |-> me.plan])
          \in Partial(PacketFile)
    BY <2>2, <2>3, WithIs
  <2>5. packet' \in [Run -> Partial(PacketFile)]
    BY <1>2, <2>1, <2>4 DEF Shape
  <2> DEFINE rest == [j \in DOMAIN me.todo \ {k} |-> me.todo[j]]
  <2>6. rest \in [DOMAIN me.todo \ {k} -> SUBSET Id] /\ DOMAIN me.todo \ {k} \in SUBSET PacketId
    BY <1>2, PartialIs
  <2>7. rest \in Partial(SUBSET Id)
    BY <2>6, PartialIs
  <2>8. [me EXCEPT !.todo = rest] \in Writing
    BY <1>1, <2>7 DEF Writing
  <2>9. planner' = [planner EXCEPT ![p] = [me EXCEPT !.todo = rest]]
    BY <2>1
  <2>10. planner' \in [Planner -> PlannerState]
    BY <2>8, <2>9 DEF Shape, PlannerState
  <2>11. blame' \in [Run -> SUBSET Mishap]
    <3>1. CASE Blame(me.run, "replanned")
      BY <1>2, <3>1, BlameType DEF Mishap
    <3>2. CASE UNCHANGED blame
      BY <3>2 DEF Shape
    <3> QED
      BY <2>1, <3>1, <3>2
  <2> QED
    BY <2>5, <2>10, <2>11
<1>4. CASE RefusePacket(p)
  <2>1. planner' = [planner EXCEPT ![p] = Idle] /\ UNCHANGED packet
        /\ Blame(me.run, "refused")
    BY <1>4 DEF RefusePacket, fileVars
  <2>2. blame' \in [Run -> SUBSET Mishap]
    BY <1>2, <2>1, BlameType DEF Mishap
  <2> QED
    BY <2>1, <2>2, StatesAre DEF Shape
<1> QED
  BY <1>3, <1>4

LEMMA PlanReadType ==
    ASSUME Shape, NEW p \in Planner, PlanRead(p)
    PROVE  planner' \in [Planner -> PlannerState]
<1> DEFINE me == planner[p]
           source == IF me.run # 0 THEN me.run ELSE latest
           found == IF source = 0 THEN {} ELSE findings[source]
<1>1. me \in Loaded
  BY StatesAre DEF Shape, PlanRead
<1>2. /\ me.run \in Run \cup {0} /\ me.known \in 1..MaxScan /\ me.plan \in Nat
  BY <1>1 DEF Loaded
<1>3. Known(me.known) \in SUBSET Id
  BY <1>2 DEF Known, Id
<1>4. CASE planner' = [planner EXCEPT ![p] = Idle]
  BY <1>4, StatesAre DEF Shape
<1>5. CASE \E todo \in Packets(me.tiers, Known(me.known), found),
              r \in IF me.run # 0 THEN {me.run} ELSE NewRuns :
                planner' = [planner EXCEPT ![p] =
                   [at |-> "write", run |-> r, plan |-> me.plan, todo |-> todo,
                    ids |-> DOMAIN todo, base |-> manifest[r]]]
  <2>1. PICK todo \in Packets(me.tiers, Known(me.known), found),
             r \in IF me.run # 0 THEN {me.run} ELSE NewRuns :
                planner' = [planner EXCEPT ![p] =
                   [at |-> "write", run |-> r, plan |-> me.plan, todo |-> todo,
                    ids |-> DOMAIN todo, base |-> manifest[r]]]
    BY <1>5
  <2>2. r \in Run
    BY <1>2, <2>1 DEF NewRuns
  <2>3. todo \in Partial(SUBSET Id)
    BY <1>3, <2>1, PacketsArePartial
  <2>4. DOMAIN todo \in SUBSET PacketId
    BY <2>3, PartialIs
  <2>5. manifest[r] \in SUBSET SUBSET PacketId
    BY <2>2 DEF Shape
  <2>6. [at |-> "write", run |-> r, plan |-> me.plan, todo |-> todo,
         ids |-> DOMAIN todo, base |-> manifest[r]] \in Writing
    BY <1>2, <2>2, <2>3, <2>4, <2>5 DEF Writing
  <2> QED
    BY <2>1, <2>6 DEF Shape, PlannerState
<1> QED
  BY <1>4, <1>5 DEF PlanRead

LEMMA PlanTypes ==
    ASSUME Shape, NEW p \in Planner, Plan(p)
    PROVE  Shape'
<1> DEFINE me == planner[p]
<1>1. CASE PlanLoad(p)
  <2>1. PICK tiers \in TierChoices, asked \in Planned \cup {0} :
          /\ plans < MaxPlan /\ plans' = plans + 1
          /\ planner' = [planner EXCEPT ![p] =
               [at |-> "read", run |-> asked, tiers |-> tiers, known |-> scan,
                plan |-> plans + 1]]
    BY <1>1 DEF PlanLoad
  <2>2. tiers \in SUBSET {1, 2, 3} /\ asked \in Run \cup {0} /\ scan \in 1..MaxScan
    BY <2>1, Bounds DEF Planned, Shape
  <2>3. plans + 1 \in Nat /\ plans + 1 \in 0..MaxPlan
    BY <2>1, Bounds DEF Shape
  <2>4. [at |-> "read", run |-> asked, tiers |-> tiers, known |-> scan,
         plan |-> plans + 1] \in Loaded
    BY <2>2, <2>3 DEF Loaded
  <2>5. planner' \in [Planner -> PlannerState]
    BY <2>1, <2>4 DEF Shape, PlannerState
  <2>6. UNCHANGED <<scan, fileVars, agent, ingester, reported, blame>>
    BY <1>1 DEF PlanLoad
  <2> QED
    BY <2>1, <2>3, <2>5, <2>6 DEF Shape, fileVars
<1>2. CASE PlanRead(p)
  <2>1. UNCHANGED <<scan, fileVars, plans, agent, ingester, reported, blame>>
    BY <1>2 DEF PlanRead
  <2> QED
    BY <1>2, <2>1, PlanReadType DEF Shape, fileVars
<1>3. CASE WritePacket(p) \/ RefusePacket(p)
  <2>1. UNCHANGED <<scan, result, manifest, latest, findings, account, plans,
                    agent, ingester, reported>>
    BY <1>3 DEF WritePacket, RefusePacket, fileVars
  <2> QED
    BY <1>3, <2>1, WriteTypes DEF Shape
<1>4. CASE WriteManifest(p)
  <2>1. me \in Writing
    BY <1>4, StatesAre DEF Shape, WriteManifest
  <2>2. /\ me.run \in Run /\ me.ids \in SUBSET PacketId
        /\ me.base \in SUBSET SUBSET PacketId
    BY <2>1 DEF Writing
  <2>3. Merged(me) \in SUBSET PacketId
    BY <2>2 DEF Merged
  <2>4. manifest' \in [Run -> SUBSET SUBSET PacketId]
    BY <1>4, <2>2, <2>3 DEF WriteManifest, Shape
  <2>5. [at |-> "latest", run |-> me.run, ids |-> me.ids] \in Ending
    BY <2>2 DEF Ending
  <2>6. planner' \in [Planner -> PlannerState]
    BY <1>4, <2>5 DEF WriteManifest, Shape, PlannerState
  <2>7. Blame(me.run, "overlapped") \/ UNCHANGED blame
    BY <1>4 DEF WriteManifest
  <2>8. blame' \in [Run -> SUBSET Mishap]
    <3>1. CASE Blame(me.run, "overlapped")
      BY <2>2, <3>1, BlameType DEF Mishap
    <3>2. CASE UNCHANGED blame
      BY <3>2 DEF Shape
    <3> QED
      BY <2>7, <3>1, <3>2
  <2>9. UNCHANGED <<scan, packet, result, latest, findings, account, plans,
                    agent, ingester, reported>>
    BY <1>4 DEF WriteManifest
  <2> QED
    BY <2>4, <2>6, <2>8, <2>9 DEF Shape
<1>5. CASE WriteLatest(p)
  <2>1. me \in Ending
    BY <1>5, StatesAre DEF Shape, WriteLatest
  <2>2. me.run \in Run /\ me.ids \in SUBSET PacketId
    BY <2>1 DEF Ending
  <2>3. reported' \in SUBSET (Run \X PacketId) /\ latest' \in Run \cup {0}
    BY <1>5, <2>2 DEF WriteLatest, Shape
  <2>4. planner' \in [Planner -> PlannerState]
    BY <1>5, StatesAre DEF WriteLatest, Shape
  <2>5. UNCHANGED <<scan, packet, result, manifest, findings, account, plans,
                    agent, ingester, blame>>
    BY <1>5 DEF WriteLatest
  <2> QED
    BY <2>3, <2>4, <2>5 DEF Shape
<1>6. CASE KillPlan(p)
  <2>1. me \in Writing \cup Ending
    BY <1>6, StatesAre DEF Shape, KillPlan
  <2>2. me.run \in Run
    BY <2>1 DEF Writing, Ending
  <2>3. Blame(me.run, "killed") /\ planner' = [planner EXCEPT ![p] = Idle]
        /\ UNCHANGED <<scan, fileVars, plans, agent, ingester, reported>>
    BY <1>6 DEF KillPlan
  <2>4. blame' \in [Run -> SUBSET Mishap]
    BY <2>2, <2>3, BlameType DEF Mishap
  <2>5. planner' \in [Planner -> PlannerState]
    BY <2>3, StatesAre DEF Shape
  <2> QED
    BY <2>3, <2>4, <2>5 DEF Shape, fileVars
<1> QED
  BY <1>1, <1>2, <1>3, <1>4, <1>5, <1>6 DEF Plan

LEMMA AgentTypes ==
    ASSUME Shape, OnFile, NEW a \in Agent, Take(a) \/ Answer(a)
    PROVE  Shape'
<1> DEFINE me == agent[a]
<1>1. CASE Take(a)
  <2>1. PICK rk \in reported : agent' = [agent EXCEPT ![a] =
             [at |-> "busy", run |-> rk[1], id |-> rk[2],
              plan |-> packet[rk[1]][rk[2]].plan]]
    BY <1>1 DEF Take
  <2>2. rk[1] \in Run /\ rk[2] \in PacketId /\ rk[2] \in DOMAIN packet[rk[1]]
    BY <2>1 DEF Shape, OnFile
  <2>3. packet[rk[1]][rk[2]] \in PacketFile
    BY <2>2, PartialIs DEF Shape
  <2>4. packet[rk[1]][rk[2]].plan \in Nat
    BY <2>3 DEF PacketFile
  <2>5. [at |-> "busy", run |-> rk[1], id |-> rk[2],
         plan |-> packet[rk[1]][rk[2]].plan] \in Busy
    BY <2>2, <2>4 DEF Busy
  <2>6. agent' \in [Agent -> AgentState]
    BY <2>1, <2>5 DEF Shape, AgentState
  <2>7. UNCHANGED <<scan, fileVars, plans, planner, ingester, reported, blame>>
    BY <1>1 DEF Take
  <2> QED
    BY <2>6, <2>7 DEF Shape, fileVars
<1>2. CASE Answer(a)
  <2>1. me \in Busy
    BY <1>2, StatesAre DEF Shape, Answer
  <2>2. me.run \in Run /\ me.id \in PacketId /\ me.plan \in Nat
    BY <2>1 DEF Busy
  <2>3. PICK c \in Id : result' = [result EXCEPT ![me.run] =
             With(@, me.id, [about |-> c, plan |-> me.plan])]
    BY <1>2 DEF Answer
  <2>4. [about |-> c, plan |-> me.plan] \in ResultFile
    BY <2>2 DEF ResultFile
  <2>5. With(result[me.run], me.id, [about |-> c, plan |-> me.plan]) \in Partial(ResultFile)
    BY <2>2, <2>4, WithIs DEF Shape
  <2>6. result' \in [Run -> Partial(ResultFile)]
    BY <2>3, <2>5 DEF Shape
  <2>7. agent' \in [Agent -> AgentState]
    BY <1>2, StatesAre DEF Answer, Shape
  <2>8. Blame(me.run, "answered again") \/ UNCHANGED blame
    BY <1>2 DEF Answer
  <2>9. blame' \in [Run -> SUBSET Mishap]
    <3>1. CASE Blame(me.run, "answered again")
      BY <2>2, <3>1, BlameType DEF Mishap
    <3>2. CASE UNCHANGED blame
      BY <3>2 DEF Shape
    <3> QED
      BY <2>8, <3>1, <3>2
  <2>10. UNCHANGED <<scan, packet, manifest, latest, findings, account, plans,
                     planner, ingester, reported>>
    BY <1>2 DEF Answer
  <2> QED
    BY <2>6, <2>7, <2>9, <2>10 DEF Shape
<1> QED
  BY <1>1, <1>2

LEMMA IngestTypes ==
    ASSUME Shape, OnFile, NEW i \in Ingester, Ingest(i)
    PROVE  Shape'
<1> DEFINE me == ingester[i]
<1>1. CASE IngestLoad(i)
  <2>1. PICK r \in Planned : ingester' = [ingester EXCEPT ![i] =
             [at |-> "results", run |-> r, known |-> scan, packets |-> PacketsRead(r)]]
    BY <1>1 DEF IngestLoad
  <2>2. r \in Run
    BY <2>1 DEF Planned
  <2>3. [at |-> "results", run |-> r, known |-> scan, packets |-> PacketsRead(r)] \in Reading
    BY <2>2 DEF Shape, Reading, PacketsRead
  <2>4. ingester' \in [Ingester -> IngesterState]
    BY <2>1, <2>3 DEF Shape, IngesterState
  <2>5. UNCHANGED <<scan, fileVars, plans, planner, agent, reported, blame>>
    BY <1>1 DEF IngestLoad
  <2> QED
    BY <2>4, <2>5 DEF Shape, fileVars
<1>2. CASE IngestResults(i)
  <2> DEFINE res == result[me.run]
             from == {x \in DOMAIN me.packets \cap DOMAIN res :
                        Accepts(me, x, res[x].about)}
             found == {[id |-> k, about |-> res[k].about] : k \in from}
  <2>1. me \in Reading
    BY <1>2, StatesAre DEF Shape, IngestResults
  <2>2. me.run \in Run
    BY <2>1 DEF Reading
  <2>3. res \in Partial(ResultFile)
    BY <2>2 DEF Shape
  <2>4. ASSUME NEW k \in from PROVE k \in PacketId /\ res[k].about \in Id
    <3>1. k \in DOMAIN res
      OBVIOUS
    <3>2. k \in PacketId /\ res[k] \in ResultFile
      BY <2>3, <3>1, PartialIs
    <3> QED
      BY <3>2 DEF ResultFile
  <2>5. found \in SUBSET Finding
    BY <2>4 DEF Finding
  <2>6. ingester' = [ingester EXCEPT ![i] =
             [at |-> "findings", run |-> me.run, found |-> found]]
    BY <1>2 DEF IngestResults
  <2> HIDE DEF found
  <2>7. [at |-> "findings", run |-> me.run, found |-> found] \in Rewriting
    BY <2>2, <2>5 DEF Rewriting
  <2>8. ingester' \in [Ingester -> IngesterState]
    BY <2>6, <2>7 DEF Shape, IngesterState
  <2>9. UNCHANGED <<scan, fileVars, plans, planner, agent, reported, blame>>
    BY <1>2 DEF IngestResults
  <2> QED
    BY <2>8, <2>9 DEF Shape, fileVars
<1>3. CASE WriteFindings(i) \/ WriteAccount(i) \/ KillIngest(i)
  <2>1. me \in Rewriting
    BY <1>3, StatesAre DEF Shape, WriteFindings, WriteAccount, KillIngest
  <2>2. me.run \in Run /\ me.found \in SUBSET Finding /\ IsFiniteSet(me.found)
    BY <2>1 DEF Rewriting, OnFile, IngesterOnFile
  <2>3. Cardinality(me.found) \in Nat
    BY <2>2, FS_CardinalityType
  <2>4. findings' \in [Run -> SUBSET Finding]
    BY <1>3, <2>2 DEF WriteFindings, WriteAccount, KillIngest, Rewritten, fileVars, Shape
  <2>5. account' \in [Run -> SUBSET Nat]
    BY <1>3, <2>2, <2>3 DEF WriteFindings, WriteAccount, KillIngest, fileVars, Shape
  <2>6. [me EXCEPT !.at = "account"] \in Rewriting
    BY <2>1 DEF Rewriting
  <2>7. ingester' = [ingester EXCEPT ![i] = [me EXCEPT !.at = "account"]]
        \/ ingester' = [ingester EXCEPT ![i] = Idle]
    BY <1>3 DEF WriteFindings, WriteAccount, KillIngest
  <2>8. ingester' \in [Ingester -> IngesterState]
    <3>1. \A v \in IngesterState : [ingester EXCEPT ![i] = v] \in [Ingester -> IngesterState]
      BY DEF Shape
    <3>2. [me EXCEPT !.at = "account"] \in IngesterState
      BY <2>6 DEF IngesterState
    <3> QED
      BY <2>7, <3>1, <3>2, StatesAre
  <2>9. \/ Blame(me.run, "ingests") \/ Blame(me.run, "torn") \/ UNCHANGED blame
    BY <1>3 DEF WriteFindings, WriteAccount, KillIngest
  <2>10. blame' \in [Run -> SUBSET Mishap]
    <3>1. CASE Blame(me.run, "ingests")
      BY <2>2, <3>1, BlameType DEF Mishap
    <3>2. CASE Blame(me.run, "torn")
      BY <2>2, <3>2, BlameType DEF Mishap
    <3>3. CASE UNCHANGED blame
      BY <3>3 DEF Shape
    <3> QED
      BY <2>9, <3>1, <3>2, <3>3
  <2>11. UNCHANGED <<scan, packet, result, manifest, latest, plans, planner, agent,
                     reported>>
    BY <1>3 DEF WriteFindings, WriteAccount, KillIngest, fileVars
  <2> QED
    BY <2>4, <2>5, <2>8, <2>10, <2>11 DEF Shape
<1> QED
  BY <1>1, <1>2, <1>3 DEF Ingest

-----------------------------------------------------------------------------
(* What is on file. *)

LEMMA WritePacketDoes ==
    ASSUME Shape, NEW p \in Planner, WritePacket(p)
    PROVE  \E k \in DOMAIN planner[p].todo :
             /\ planner[p] \in Writing /\ k \in PacketId
             /\ DOMAIN packet'[planner[p].run] = DOMAIN packet[planner[p].run] \cup {k}
             /\ \A x \in DOMAIN packet[planner[p].run] \ {k} :
                  packet'[planner[p].run][x] = packet[planner[p].run][x]
             /\ \A r \in Run \ {planner[p].run} : packet'[r] = packet[r]
             /\ planner'[p].at = "write" /\ planner'[p].run = planner[p].run
             /\ planner'[p].ids = planner[p].ids /\ planner'[p].base = planner[p].base
             /\ DOMAIN planner'[p].todo = DOMAIN planner[p].todo \ {k}
             /\ \A q \in Planner \ {p} : planner'[q] = planner[q]
             /\ IF k \in DOMAIN packet[planner[p].run] THEN Blame(planner[p].run, "replanned")
                ELSE UNCHANGED blame
<1> DEFINE me == planner[p]
<1>1. me \in Writing
  BY StatesAre DEF Shape, WritePacket
<1>2. me.run \in Run /\ me.plan \in Nat /\ me.todo \in Partial(SUBSET Id)
  BY <1>1 DEF Writing
<1>3. PICK k \in DOMAIN me.todo :
          /\ packet' = [packet EXCEPT ![me.run] =
               With(@, k, [scope |-> me.todo[k], plan |-> me.plan])]
          /\ planner' = [planner EXCEPT ![p].todo =
               [j \in DOMAIN me.todo \ {k} |-> me.todo[j]]]
          /\ IF k \in DOMAIN packet[me.run] THEN Blame(me.run, "replanned")
             ELSE UNCHANGED blame
  BY DEF WritePacket
<1>4. k \in PacketId /\ [scope |-> me.todo[k], plan |-> me.plan] \in PacketFile
  BY <1>2, PartialIs DEF PacketFile
<1>5. packet[me.run] \in Partial(PacketFile)
  BY <1>2 DEF Shape
<1> DEFINE file == [scope |-> me.todo[k], plan |-> me.plan]
           f == With(packet[me.run], k, file)
<1> HIDE DEF file
<1>6. DOMAIN f = DOMAIN packet[me.run] \cup {k}
      /\ \A x \in DOMAIN packet[me.run] \ {k} : f[x] = packet[me.run][x]
  <2>1. file \in PacketFile
    BY <1>4 DEF file
  <2> DEFINE g == packet[me.run]
  <2>2. g \in Partial(PacketFile) /\ k \in PacketId
    BY <1>4, <1>5
  <2> HIDE DEF g
  <2>3. /\ DOMAIN With(g, k, file) = DOMAIN g \cup {k}
        /\ \A x \in DOMAIN g \ {k} : With(g, k, file)[x] = g[x]
    BY DEF With
  <2> QED
    BY <2>3 DEF g
<1>7. packet' = [packet EXCEPT ![me.run] = f]
  BY <1>3 DEF file
<1> HIDE DEF f
<1>8. /\ packet'[me.run] = f /\ \A r \in Run \ {me.run} : packet'[r] = packet[r]
  BY <1>2, <1>7 DEF Shape
<1> DEFINE rest == [j \in DOMAIN me.todo \ {k} |-> me.todo[j]]
<1>9. planner' = [planner EXCEPT ![p] = [me EXCEPT !.todo = rest]]
  BY <1>3
<1>10. /\ planner'[p] = [me EXCEPT !.todo = rest]
       /\ \A q \in Planner \ {p} : planner'[q] = planner[q]
  BY <1>9 DEF Shape
<1>11. /\ planner'[p].at = "write" /\ planner'[p].run = me.run
       /\ planner'[p].ids = me.ids /\ planner'[p].base = me.base
       /\ planner'[p].todo = rest
  BY <1>1, <1>10 DEF Writing
<1> QED
  BY <1>1, <1>3, <1>4, <1>6, <1>8, <1>10, <1>11

(* Nothing takes a packet off file. *)
LEMMA PacketsStay ==
    ASSUME Shape, OnFile, [DeepMapNext]_deepMapVars
    PROVE  \A r \in Run : /\ DOMAIN packet[r] \subseteq DOMAIN packet'[r]
                          /\ IsFiniteSet(DOMAIN packet'[r])
<1>1. CASE UNCHANGED packet
  BY <1>1 DEF OnFile, RunOnFile
<1>2. CASE \E p \in Planner : WritePacket(p)
  <2>1. PICK p \in Planner : WritePacket(p)
    BY <1>2
  <2>2. PICK k \in DOMAIN planner[p].todo :
          /\ planner[p] \in Writing
          /\ DOMAIN packet'[planner[p].run] = DOMAIN packet[planner[p].run] \cup {k}
          /\ \A r \in Run \ {planner[p].run} : packet'[r] = packet[r]
    BY <2>1, WritePacketDoes
  <2>3. \A r \in Run : IsFiniteSet(DOMAIN packet[r])
    BY DEF OnFile, RunOnFile
  <2>4. planner[p].run \in Run
    BY <2>2 DEF Writing
  <2>5. IsFiniteSet(DOMAIN packet[planner[p].run] \cup {k})
    BY <2>3, <2>4, FS_AddElement
  <2> QED
    BY <2>2, <2>3, <2>5
<1>3. UNCHANGED packet \/ \E p \in Planner : WritePacket(p)
  <2> USE DEF fileVars
  <2>1. CASE UNCHANGED deepMapVars
    BY <2>1 DEF deepMapVars
  <2>2. ASSUME NEW p \in Planner, Plan(p) PROVE UNCHANGED packet \/ WritePacket(p)
    BY <2>2 DEF Plan, PlanLoad, PlanRead, RefusePacket, WriteManifest, WriteLatest, KillPlan
  <2>3. ASSUME NEW a \in Agent, Take(a) \/ Answer(a) PROVE UNCHANGED packet
    BY <2>3 DEF Take, Answer
  <2>4. ASSUME NEW i \in Ingester, Ingest(i) PROVE UNCHANGED packet
    BY <2>4 DEF Ingest, IngestLoad, IngestResults, WriteFindings, WriteAccount, KillIngest
  <2>5. CASE Rescan
    BY <2>5 DEF Rescan
  <2> QED
    BY <2>1, <2>2, <2>3, <2>4, <2>5 DEF DeepMapNext, Plan, Ingest
<1> QED
  BY <1>1, <1>2, <1>3

LEMMA PlanOnFile ==
    ASSUME Shape, OnFile, NEW p \in Planner, Plan(p),
           \A r \in Run : DOMAIN packet[r] \subseteq DOMAIN packet'[r]
    PROVE  /\ \A q \in Planner : PlannerOnFile(q)'
           /\ \A r \in Run : Listed(r)' \subseteq DOMAIN packet'[r]
           /\ latest' # 0 => manifest'[latest'] # {}
           /\ \A rk \in reported' : rk[2] \in DOMAIN packet'[rk[1]]
<1> DEFINE me == planner[p]
<1>1. ASSUME \A r \in Run : manifest[r] # {} => manifest'[r] # {},
             NEW q \in Planner, planner'[q] = planner[q]
      PROVE  PlannerOnFile(q)'
  <2>1. PlannerOnFile(q)
    BY DEF OnFile
  <2>2. planner[q].at = "write" => planner[q].run \in Run
    BY StatesAre DEF Shape, Writing
  <2>3. planner[q].at = "latest" => planner[q].run \in Run
    BY StatesAre DEF Shape, Ending
  <2> QED
    BY <1>1, <2>1, <2>2, <2>3 DEF PlannerOnFile
<1>2. \A r \in Run : Listed(r) \subseteq DOMAIN packet'[r]
  BY DEF OnFile, RunOnFile
<1>3. \A rk \in reported : rk[2] \in DOMAIN packet'[rk[1]]
  BY DEF OnFile, Shape
<1>4. ASSUME UNCHANGED manifest, \A q \in Planner \ {p} : planner'[q] = planner[q],
             PlannerOnFile(p)'
      PROVE  /\ \A q \in Planner : PlannerOnFile(q)'
             /\ \A r \in Run : Listed(r)' \subseteq DOMAIN packet'[r]
  BY <1>1, <1>2, <1>4 DEF Listed
<1>5. latest # 0 => manifest[latest] # {}
  BY DEF OnFile
<1>6. CASE PlanLoad(p) \/ RefusePacket(p) \/ KillPlan(p)
  <2>1. /\ UNCHANGED <<manifest, latest, reported>>
        /\ planner'[p].at \in {"idle", "read"}
        /\ \A q \in Planner \ {p} : planner'[q] = planner[q]
    BY <1>6, StatesAre DEF PlanLoad, RefusePacket, KillPlan, fileVars, Shape
  <2> QED
    BY <1>3, <1>4, <1>5, <2>1 DEF PlannerOnFile
<1>7. CASE PlanRead(p)
  <2>1. /\ UNCHANGED <<manifest, packet, latest, reported>>
        /\ \A q \in Planner \ {p} : planner'[q] = planner[q]
    BY <1>7 DEF PlanRead, fileVars, Shape
  <2>2. PlannerOnFile(p)'
    <3>1. CASE planner'[p].at = "idle"
      BY <3>1 DEF PlannerOnFile
    <3>2. CASE planner'[p].at # "idle"
      <4>1. planner' # [planner EXCEPT ![p] = Idle]
        BY <3>2, StatesAre DEF Shape
      <4>2. \E todo : \E r \in IF me.run # 0 THEN {me.run} ELSE NewRuns :
              planner' = [planner EXCEPT ![p] =
                   [at |-> "write", run |-> r, plan |-> me.plan, todo |-> todo,
                    ids |-> DOMAIN todo, base |-> manifest[r]]]
        BY <1>7, <4>1 DEF PlanRead
      <4>3. me.run # 0 => me.run \in Run
        BY <1>7, StatesAre DEF PlanRead, Shape, Loaded
      <4>. PICK todo : \E r \in IF me.run # 0 THEN {me.run} ELSE NewRuns :
              planner' = [planner EXCEPT ![p] =
                   [at |-> "write", run |-> r, plan |-> me.plan, todo |-> todo,
                    ids |-> DOMAIN todo, base |-> manifest[r]]]
        BY <4>2
      <4>4. PICK r \in Run : planner'[p] =
                   [at |-> "write", run |-> r, plan |-> me.plan, todo |-> todo,
                    ids |-> DOMAIN todo, base |-> manifest[r]]
        BY <4>3 DEF NewRuns, Shape
      <4>5. UNION manifest[r] \subseteq DOMAIN packet'[r]
        BY <1>2 DEF Listed
      <4> QED
        BY <4>4, <4>5 DEF PlannerOnFile
    <3> QED
      BY <3>1, <3>2
  <2> QED
    BY <1>3, <1>4, <1>5, <2>1, <2>2
<1>8. CASE WritePacket(p)
  <2>1. UNCHANGED <<manifest, latest, reported>>
    BY <1>8 DEF WritePacket
  <2>2. PICK k \in DOMAIN me.todo :
             /\ me \in Writing
             /\ DOMAIN packet'[me.run] = DOMAIN packet[me.run] \cup {k}
             /\ planner'[p].at = "write" /\ planner'[p].run = me.run
             /\ planner'[p].ids = me.ids /\ planner'[p].base = me.base
             /\ DOMAIN planner'[p].todo = DOMAIN me.todo \ {k}
             /\ \A q \in Planner \ {p} : planner'[q] = planner[q]
    BY <1>8, WritePacketDoes
  <2>3. /\ me.ids \subseteq DOMAIN packet[me.run] \cup DOMAIN me.todo
        /\ UNION me.base \subseteq DOMAIN packet[me.run]
    BY <1>8 DEF WritePacket, OnFile, PlannerOnFile
  <2>4. PlannerOnFile(p)'
    BY <2>2, <2>3 DEF PlannerOnFile
  <2> QED
    BY <1>3, <1>4, <1>5, <2>1, <2>2, <2>4
<1>9. CASE WriteManifest(p)
  <2>1. /\ me.at = "write" /\ me.todo = Empty
        /\ manifest' = [manifest EXCEPT ![me.run] = {Merged(me)}]
        /\ planner' = [planner EXCEPT ![p] =
             [at |-> "latest", run |-> me.run, ids |-> me.ids]]
        /\ UNCHANGED <<packet, latest, reported>>
    BY <1>9 DEF WriteManifest
  <2>2. me.run \in Run
    BY <2>1, StatesAre DEF Shape, Writing
  <2>3. /\ manifest'[me.run] = {Merged(me)}
        /\ \A r \in Run \ {me.run} : manifest'[r] = manifest[r]
        /\ planner'[p] = [at |-> "latest", run |-> me.run, ids |-> me.ids]
        /\ \A q \in Planner \ {p} : planner'[q] = planner[q]
    BY <2>1, <2>2 DEF Shape
  <2>4. me.ids \subseteq DOMAIN packet[me.run] /\ UNION me.base \subseteq DOMAIN packet[me.run]
    BY <2>1, EmptyIsPartial DEF OnFile, PlannerOnFile
  <2>5. Merged(me) \subseteq DOMAIN packet[me.run]
    BY <2>4 DEF Merged
  <2>6. \A r \in Run : Listed(r)' \subseteq DOMAIN packet'[r]
    BY <1>2, <2>1, <2>3, <2>5 DEF Listed
  <2>7. \A r \in Run : manifest[r] # {} => manifest'[r] # {}
    BY <2>3
  <2>8. PlannerOnFile(p)'
    BY <2>1, <2>3, <2>4 DEF PlannerOnFile
  <2>9. latest' # 0 => manifest'[latest'] # {}
    BY <1>5, <2>1, <2>7 DEF Shape
  <2> QED
    BY <1>1, <1>3, <2>1, <2>3, <2>6, <2>7, <2>8, <2>9
<1>10. CASE WriteLatest(p)
  <2>1. /\ me.at = "latest" /\ latest' = me.run
        /\ reported' = reported \cup {<<me.run, k>> : k \in me.ids}
        /\ planner' = [planner EXCEPT ![p] = Idle]
        /\ UNCHANGED <<packet, manifest>>
    BY <1>10 DEF WriteLatest
  <2>2. me.ids \subseteq DOMAIN packet[me.run] /\ manifest[me.run] # {}
    BY <2>1 DEF OnFile, PlannerOnFile
  <2>3. \A rk \in reported' : rk[2] \in DOMAIN packet'[rk[1]]
    BY <1>3, <2>1, <2>2
  <2>4. PlannerOnFile(p)' /\ \A q \in Planner \ {p} : planner'[q] = planner[q]
    BY <2>1, StatesAre DEF PlannerOnFile, Shape
  <2> QED
    BY <1>4, <2>1, <2>2, <2>3, <2>4
<1> QED
  BY <1>6, <1>7, <1>8, <1>9, <1>10 DEF Plan

LEMMA IngestOnFile ==
    ASSUME Shape, OnFile, NEW i \in Ingester, Ingest(i)
    PROVE  /\ \A j \in Ingester : IngesterOnFile(j)'
           /\ \A r \in Run : \A f \in findings'[r] : f.id \in DOMAIN packet[r]
           /\ UNCHANGED <<packet, manifest, latest, reported, planner>>
<1> DEFINE me == ingester[i]
<1>0. \A j \in Ingester : IngesterOnFile(j)
  BY DEF OnFile
<1>1. \A r \in Run : \A f \in findings[r] : f.id \in DOMAIN packet[r]
  BY DEF OnFile, RunOnFile
<1>2. ASSUME UNCHANGED packet, \A j \in Ingester \ {i} : ingester'[j] = ingester[j],
             IngesterOnFile(i)'
      PROVE  \A j \in Ingester : IngesterOnFile(j)'
  BY <1>0, <1>2 DEF IngesterOnFile
<1>3. CASE IngestLoad(i)
  <2>1. /\ UNCHANGED <<packet, findings, manifest, latest, reported, planner>>
        /\ \E r \in Run : ingester' = [ingester EXCEPT ![i] =
             [at |-> "results", run |-> r, known |-> scan, packets |-> packet[r]]]
    BY <1>3 DEF IngestLoad, PacketsRead, Planned, fileVars
  <2>2. IngesterOnFile(i)' /\ \A j \in Ingester \ {i} : ingester'[j] = ingester[j]
    BY <2>1 DEF IngesterOnFile, Shape
  <2> QED
    BY <1>1, <1>2, <2>1, <2>2
<1>4. CASE IngestResults(i)
  <2> DEFINE res == result[me.run]
             from == {x \in DOMAIN me.packets \cap DOMAIN res :
                        Accepts(me, x, res[x].about)}
             found == {[id |-> k, about |-> res[k].about] : k \in from}
  <2>1. me.at = "results" /\ me.run \in Run
    BY <1>4, StatesAre DEF Shape, IngestResults, Reading
  <2>2. DOMAIN me.packets \subseteq DOMAIN packet[me.run]
        /\ IsFiniteSet(DOMAIN packet[me.run])
    BY <2>1 DEF OnFile, IngesterOnFile, RunOnFile
  <2>3. from \subseteq DOMAIN packet[me.run] /\ IsFiniteSet(from)
    BY <2>2, FS_Subset
  <2>4. \A f \in found : f.id \in from
    OBVIOUS
  <2>5. IsFiniteSet(found)
    <3> DEFINE name == [k \in from |-> [id |-> k, about |-> res[k].about]]
    <3>1. name \in [from -> found]
      OBVIOUS
    <3>2. \A f \in found : \E k \in from : name[k] = f
      OBVIOUS
    <3> HIDE DEF name, from, found
    <3>3. name \in Surjection(from, found)
      BY <3>1, <3>2 DEF Surjection
    <3> QED
      BY <2>3, <3>3, FS_Surjection
  <2>6. ingester' = [ingester EXCEPT ![i] =
             [at |-> "findings", run |-> me.run, found |-> found]]
    BY <1>4 DEF IngestResults
  <2>7. UNCHANGED <<packet, findings, manifest, latest, reported, planner>>
    BY <1>4 DEF IngestResults, fileVars
  <2>8. \A f \in found : f.id \in DOMAIN packet[me.run]
    BY <2>3, <2>4
  <2> HIDE DEF found
  <2>9. IngesterOnFile(i)' /\ \A j \in Ingester \ {i} : ingester'[j] = ingester[j]
    BY <2>5, <2>6, <2>7, <2>8 DEF IngesterOnFile, Shape
  <2> QED
    BY <1>1, <1>2, <2>7, <2>9
<1>5. CASE WriteFindings(i)
  <2>1. /\ me.at = "findings" /\ findings' = [findings EXCEPT ![me.run] = me.found]
        /\ ingester' = [ingester EXCEPT ![i].at = "account"]
        /\ UNCHANGED <<packet, manifest, latest, reported, planner>>
    BY <1>5 DEF WriteFindings, Rewritten
  <2>2. me \in Rewriting
    BY <2>1, StatesAre DEF Shape
  <2>3. /\ ingester'[i].run = me.run /\ ingester'[i].found = me.found
        /\ ingester'[i].at = "account"
        /\ \A j \in Ingester \ {i} : ingester'[j] = ingester[j]
    BY <2>1, <2>2 DEF Shape, Rewriting
  <2>4. IsFiniteSet(me.found) /\ \A f \in me.found : f.id \in DOMAIN packet[me.run]
    BY <2>1 DEF OnFile, IngesterOnFile
  <2>5. IngesterOnFile(i)'
    BY <2>1, <2>3, <2>4 DEF IngesterOnFile
  <2>6. \A r \in Run : \A f \in findings'[r] : f.id \in DOMAIN packet[r]
    BY <1>1, <2>1, <2>4 DEF Shape
  <2> QED
    BY <1>2, <2>1, <2>3, <2>5, <2>6
<1>6. CASE WriteAccount(i) \/ KillIngest(i)
  <2>1. /\ UNCHANGED <<packet, findings, manifest, latest, reported, planner>>
        /\ ingester' = [ingester EXCEPT ![i] = Idle]
    BY <1>6 DEF WriteAccount, KillIngest, fileVars
  <2>2. IngesterOnFile(i)' /\ \A j \in Ingester \ {i} : ingester'[j] = ingester[j]
    BY <2>1, StatesAre DEF IngesterOnFile, Shape
  <2> QED
    BY <1>1, <1>2, <2>1, <2>2
<1> QED
  BY <1>3, <1>4, <1>5, <1>6 DEF Ingest

LEMMA PlanKeeps ==
    ASSUME NEW p \in Planner, Plan(p)
    PROVE  UNCHANGED <<scan, result, findings, account, agent, ingester>>
  BY DEF Plan, PlanLoad, PlanRead, WritePacket, RefusePacket, WriteManifest,
     WriteLatest, KillPlan, fileVars

LEMMA AgentKeeps ==
    ASSUME NEW a \in Agent, Take(a) \/ Answer(a)
    PROVE  UNCHANGED <<scan, packet, manifest, latest, findings, account, plans,
                       planner, ingester, reported>>
  BY DEF Take, Answer, fileVars

LEMMA Steps ==
    DeepMapNext => \/ \E p \in Planner : Plan(p)
                   \/ \E a \in Agent : Take(a) \/ Answer(a)
                   \/ \E i \in Ingester : Ingest(i)
                   \/ Rescan
  BY DEF DeepMapNext, Plan, Ingest

LEMMA StepShape ==
    ASSUME Shape, OnFile, [DeepMapNext]_deepMapVars
    PROVE  Shape' /\ OnFile'
<1>0. \A r \in Run : /\ DOMAIN packet[r] \subseteq DOMAIN packet'[r]
                     /\ IsFiniteSet(DOMAIN packet'[r])
  BY PacketsStay
<1>o. /\ \A r \in Run : /\ Listed(r) \subseteq DOMAIN packet[r]
                        /\ \A f \in findings[r] : f.id \in DOMAIN packet[r]
      /\ latest # 0 => manifest[latest] # {}
      /\ \A rk \in reported : rk[2] \in DOMAIN packet[rk[1]]
      /\ \A p \in Planner : PlannerOnFile(p)
      /\ \A i \in Ingester : IngesterOnFile(i)
  BY DEF OnFile, RunOnFile
<1>1. CASE UNCHANGED deepMapVars
  BY <1>1 DEF deepMapVars, fileVars, Shape, OnFile, RunOnFile, Listed, PlannerOnFile,
     IngesterOnFile
<1>2. ASSUME NEW p \in Planner, Plan(p) PROVE Shape' /\ OnFile'
  <2>1. Shape' /\ UNCHANGED <<findings, ingester>>
    BY <1>2, PlanTypes, PlanKeeps
  <2>2. \A r \in Run : RunOnFile(r)'
    BY <1>0, <1>2, <1>o, <2>1, PlanOnFile DEF RunOnFile
  <2>3. \A i \in Ingester : IngesterOnFile(i)'
    <3> SUFFICES ASSUME NEW i \in Ingester PROVE IngesterOnFile(i)'
      OBVIOUS
    <3>1. ingester[i].at = "results" => ingester[i].run \in Run
      BY StatesAre DEF Shape, Reading
    <3>2. ingester[i].at \in {"findings", "account"} => ingester[i].run \in Run
      BY StatesAre DEF Shape, Rewriting
    <3> QED
      BY <1>0, <1>o, <2>1, <3>1, <3>2 DEF IngesterOnFile
  <2> QED
    BY <1>0, <1>2, <2>1, <2>2, <2>3, PlanOnFile DEF OnFile
<1>3. ASSUME NEW a \in Agent, Take(a) \/ Answer(a) PROVE Shape' /\ OnFile'
  BY <1>3, <1>o, <1>0, AgentTypes, AgentKeeps DEF OnFile, RunOnFile, Listed, PlannerOnFile,
     IngesterOnFile
<1>4. ASSUME NEW i \in Ingester, Ingest(i) PROVE Shape' /\ OnFile'
  <2>1. Shape'
    BY <1>4, IngestTypes
  <2>2. /\ \A j \in Ingester : IngesterOnFile(j)'
        /\ \A r \in Run : \A f \in findings'[r] : f.id \in DOMAIN packet[r]
        /\ UNCHANGED <<packet, manifest, latest, reported, planner>>
    BY <1>4, IngestOnFile
  <2> QED
    BY <1>0, <1>o, <2>1, <2>2 DEF OnFile, RunOnFile, Listed, PlannerOnFile
<1>5. CASE Rescan
  <2>1. scan' \in 1..MaxScan
    BY <1>5, Bounds DEF Rescan, Shape
  <2> QED
    BY <1>5, <2>1 DEF Rescan, fileVars, Shape, OnFile, RunOnFile, Listed,
       PlannerOnFile, IngesterOnFile
<1> QED
  BY <1>1, <1>2, <1>3, <1>4, <1>5, Steps

-----------------------------------------------------------------------------
(* What happened to a run stays in its history, and only a plan that met     *)
(* another takes a packet off its list.                                      *)
LEMMA BlameKeeps ==
    ASSUME Shape, NEW r, NEW what, Blame(r, what)
    PROVE  \A s \in Run : blame[s] \subseteq blame'[s] /\ (s # r => blame'[s] = blame[s])
  BY DEF Shape, Blame

LEMMA BlameSays ==
    ASSUME Shape, NEW r \in Run, NEW what, Blame(r, what)
    PROVE  what \in blame'[r]
  BY DEF Shape, Blame

LEMMA BlameGrows ==
    ASSUME Shape, [DeepMapNext]_deepMapVars
    PROVE  \A r \in Run : blame[r] \subseteq blame'[r]
<1> DEFINE Recorded == UNCHANGED blame \/ \E r, what : Blame(r, what)
<1>1. Recorded
  <2>1. CASE UNCHANGED deepMapVars
    BY <2>1 DEF deepMapVars
  <2>2. ASSUME NEW p \in Planner, Plan(p) PROVE Recorded
    <3>1. CASE PlanLoad(p) \/ PlanRead(p) \/ WriteLatest(p)
      BY <3>1 DEF PlanLoad, PlanRead, WriteLatest
    <3>2. CASE WritePacket(p)
      <4>1. Blame(planner[p].run, "replanned") \/ UNCHANGED blame
        BY <3>2 DEF WritePacket
      <4> QED
        BY <4>1
    <3>3. CASE RefusePacket(p)
      <4>1. Blame(planner[p].run, "refused")
        BY <3>3 DEF RefusePacket
      <4> QED
        BY <4>1
    <3>4. CASE WriteManifest(p)
      <4>1. Blame(planner[p].run, "overlapped") \/ UNCHANGED blame
        BY <3>4 DEF WriteManifest
      <4> QED
        BY <4>1
    <3>5. CASE KillPlan(p)
      <4>1. Blame(planner[p].run, "killed")
        BY <3>5 DEF KillPlan
      <4> QED
        BY <4>1
    <3> QED
      BY <2>2, <3>1, <3>2, <3>3, <3>4, <3>5 DEF Plan
  <2>3. ASSUME NEW a \in Agent, Take(a) \/ Answer(a) PROVE Recorded
    <3>1. Blame(agent[a].run, "answered again") \/ UNCHANGED blame
      BY <2>3 DEF Take, Answer
    <3> QED
      BY <3>1
  <2>4. ASSUME NEW i \in Ingester, Ingest(i) PROVE Recorded
    <3>1. \/ Blame(ingester[i].run, "ingests") \/ Blame(ingester[i].run, "torn")
          \/ UNCHANGED blame
      BY <2>4 DEF Ingest, IngestLoad, IngestResults, WriteFindings, WriteAccount, KillIngest
    <3> QED
      BY <3>1
  <2>5. CASE Rescan
    BY <2>5 DEF Rescan
  <2> QED
    BY <2>1, <2>2, <2>3, <2>4, <2>5, Steps
<1>2. ASSUME NEW r, NEW what, Blame(r, what) PROVE \A s \in Run : blame[s] \subseteq blame'[s]
  BY <1>2, BlameKeeps
<1> QED
  BY <1>1, <1>2

LEMMA WriteManifestDoes ==
    ASSUME Shape, NEW p \in Planner, WriteManifest(p)
    PROVE  /\ planner[p].run \in Run /\ planner[p].at = "write"
           /\ UNION manifest'[planner[p].run] = Merged(planner[p])
           /\ \A r \in Run \ {planner[p].run} : manifest'[r] = manifest[r]
           /\ \/ manifest[planner[p].run] = planner[p].base
              \/ "overlapped" \in blame'[planner[p].run]
           /\ planner'[p] = [at |-> "latest", run |-> planner[p].run, ids |-> planner[p].ids]
           /\ \A q \in Planner \ {p} : planner'[q] = planner[q]
           /\ UNCHANGED reported
<1> DEFINE me == planner[p]
<1>1. /\ me.at = "write"
      /\ manifest' = [manifest EXCEPT ![me.run] = {Merged(me)}]
      /\ planner' = [planner EXCEPT ![p] =
           [at |-> "latest", run |-> me.run, ids |-> me.ids]]
      /\ manifest[me.run] = me.base \/ Blame(me.run, "overlapped")
      /\ UNCHANGED reported
  BY DEF WriteManifest
<1>2. me.run \in Run
  BY <1>1, StatesAre DEF Shape, Writing
<1>3. /\ manifest'[me.run] = {Merged(me)}
      /\ \A r \in Run \ {me.run} : manifest'[r] = manifest[r]
      /\ planner'[p] = [at |-> "latest", run |-> me.run, ids |-> me.ids]
      /\ \A q \in Planner \ {p} : planner'[q] = planner[q]
  BY <1>1, <1>2 DEF Shape
<1>4. manifest[me.run] = me.base \/ "overlapped" \in blame'[me.run]
  BY <1>1, <1>2, BlameSays
<1>5. UNION {Merged(me)} = Merged(me)
  OBVIOUS
<1> QED
  BY <1>1, <1>2, <1>3, <1>4, <1>5

LEMMA ListedGrows ==
    ASSUME Shape, [DeepMapNext]_deepMapVars
    PROVE  \A r \in Run : Listed(r) \subseteq Listed(r)' \/ "overlapped" \in blame'[r]
<1>1. CASE UNCHANGED manifest
  BY <1>1 DEF Listed
<1>2. ASSUME NEW p \in Planner, WriteManifest(p)
      PROVE  \A r \in Run : Listed(r) \subseteq Listed(r)' \/ "overlapped" \in blame'[r]
  <2> DEFINE me == planner[p]
  <2>1. /\ UNION manifest'[me.run] = Merged(me)
        /\ \A r \in Run \ {me.run} : manifest'[r] = manifest[r]
        /\ manifest[me.run] = me.base \/ "overlapped" \in blame'[me.run]
    BY <1>2, WriteManifestDoes
  <2>2. UNION me.base \subseteq Merged(me)
    BY DEF Merged
  <2> QED
    BY <2>1, <2>2 DEF Listed
<1>3. UNCHANGED manifest \/ \E p \in Planner : WriteManifest(p)
  <2> USE DEF fileVars
  <2>1. CASE UNCHANGED deepMapVars
    BY <2>1 DEF deepMapVars
  <2>2. ASSUME NEW p \in Planner, Plan(p) PROVE UNCHANGED manifest \/ WriteManifest(p)
    BY <2>2 DEF Plan, PlanLoad, PlanRead, WritePacket, RefusePacket, WriteLatest, KillPlan
  <2>3. ASSUME NEW a \in Agent, Take(a) \/ Answer(a) PROVE UNCHANGED manifest
    BY <2>3, AgentKeeps
  <2>4. ASSUME NEW i \in Ingester, Ingest(i) PROVE UNCHANGED manifest
    BY <2>4 DEF Ingest, IngestLoad, IngestResults, WriteFindings, WriteAccount, KillIngest
  <2>5. CASE Rescan
    BY <2>5 DEF Rescan
  <2> QED
    BY <2>1, <2>2, <2>3, <2>4, <2>5, Steps
<1> QED
  BY <1>1, <1>2, <1>3

-----------------------------------------------------------------------------
(* Whatever is handed out or answered is on the run's list: the host learns  *)
(* of a packet after the manifest that lists it is on file, and a plan that  *)
(* continues a run keeps what the run listed, unless another plan has        *)
(* changed the list since it was read.                                       *)
Told(r) ==
    "overlapped" \notin blame[r] =>
      /\ \A k \in PacketId : <<r, k>> \in reported => k \in Listed(r)
      /\ \A p \in Planner : planner[p].at = "latest" /\ planner[p].run = r
                               => planner[p].ids \subseteq Listed(r)
      /\ DOMAIN result[r] \subseteq Listed(r)
      /\ \A a \in Agent : agent[a].at = "busy" /\ agent[a].run = r
                             => agent[a].id \in Listed(r)
Reported == \A r \in Run : Told(r)

LEMMA ReportedStart == DeepMapInit => Reported
  BY EmptyIsPartial, StatesAre DEF DeepMapInit, Reported, Told

LEMMA StepReported ==
    ASSUME Shape, OnFile, Reported, [DeepMapNext]_deepMapVars
    PROVE  Reported'
<1> SUFFICES ASSUME NEW r \in Run, "overlapped" \notin blame'[r] PROVE Told(r)'
  BY DEF Reported, Told
<1>1. /\ "overlapped" \notin blame[r] /\ Listed(r) \subseteq Listed(r)'
  BY BlameGrows, ListedGrows
<1>2. /\ \A k \in PacketId : <<r, k>> \in reported => k \in Listed(r)'
      /\ \A p \in Planner : planner[p].at = "latest" /\ planner[p].run = r
                               => planner[p].ids \subseteq Listed(r)'
      /\ DOMAIN result[r] \subseteq Listed(r)'
      /\ \A a \in Agent : agent[a].at = "busy" /\ agent[a].run = r
                             => agent[a].id \in Listed(r)'
  BY <1>1 DEF Reported, Told
<1> DEFINE list == Listed(r)'
<1> HIDE DEF list
<1>3. /\ \A k \in PacketId : <<r, k>> \in reported => k \in list
      /\ \A p \in Planner : planner[p].at = "latest" /\ planner[p].run = r
                               => planner[p].ids \subseteq list
      /\ DOMAIN result[r] \subseteq list
      /\ \A a \in Agent : agent[a].at = "busy" /\ agent[a].run = r
                             => agent[a].id \in list
  BY <1>2 DEF list
<1>4. SUFFICES
        /\ \A k \in PacketId : <<r, k>> \in reported' => k \in list
        /\ \A p \in Planner : planner'[p].at = "latest" /\ planner'[p].run = r
                                 => planner'[p].ids \subseteq list
        /\ DOMAIN result'[r] \subseteq list
        /\ \A a \in Agent : agent'[a].at = "busy" /\ agent'[a].run = r
                               => agent'[a].id \in list
  BY DEF Told, list
<1>5. CASE UNCHANGED deepMapVars
  BY <1>3, <1>5 DEF deepMapVars, fileVars
<1>6. ASSUME NEW p \in Planner, Plan(p)
      PROVE  /\ \A k \in PacketId : <<r, k>> \in reported' => k \in list
             /\ \A q \in Planner : planner'[q].at = "latest" /\ planner'[q].run = r
                                      => planner'[q].ids \subseteq list
  <2>1. CASE PlanLoad(p) \/ PlanRead(p) \/ RefusePacket(p) \/ KillPlan(p)
    <3>1. UNCHANGED reported /\ \A q \in Planner \ {p} : planner'[q] = planner[q]
      BY <2>1 DEF PlanLoad, PlanRead, RefusePacket, KillPlan, Shape
    <3>2. planner'[p].at # "latest"
      BY <2>1, StatesAre DEF PlanLoad, PlanRead, RefusePacket, KillPlan, Shape
    <3> QED
      BY <1>3, <3>1, <3>2
  <2>2. CASE WritePacket(p)
    <3>1. /\ \A q \in Planner \ {p} : planner'[q] = planner[q]
          /\ planner'[p].at = "write"
      BY <2>2, WritePacketDoes
    <3>2. UNCHANGED reported
      BY <2>2 DEF WritePacket
    <3> QED
      BY <1>3, <3>1, <3>2
  <2>3. CASE WriteManifest(p)
    <3>1. /\ planner[p].run \in Run
          /\ UNION manifest'[planner[p].run] = Merged(planner[p])
          /\ planner'[p] = [at |-> "latest", run |-> planner[p].run, ids |-> planner[p].ids]
          /\ \A q \in Planner \ {p} : planner'[q] = planner[q]
          /\ UNCHANGED reported
      BY <2>3, WriteManifestDoes
    <3>2. planner[p].run = r => planner[p].ids \subseteq list
      BY <3>1 DEF Merged, list, Listed
    <3> QED
      BY <1>3, <3>1, <3>2
  <2>4. CASE WriteLatest(p)
    <3>1. /\ planner[p].at = "latest"
          /\ reported' = reported \cup {<<planner[p].run, k>> : k \in planner[p].ids}
          /\ planner'[p] = Idle
          /\ \A q \in Planner \ {p} : planner'[q] = planner[q]
      BY <2>4 DEF WriteLatest, Shape
    <3>2. planner[p].run = r => planner[p].ids \subseteq list
      BY <1>3, <3>1
    <3>3. \A k \in PacketId : <<r, k>> \in reported' => k \in list
      BY <1>3, <3>1, <3>2
    <3> QED
      BY <1>3, <3>1, <3>3, StatesAre
  <2> QED
    BY <1>6, <2>1, <2>2, <2>3, <2>4 DEF Plan
<1>7. ASSUME NEW a \in Agent, Take(a) \/ Answer(a)
      PROVE  /\ DOMAIN result'[r] \subseteq list
             /\ \A b \in Agent : agent'[b].at = "busy" /\ agent'[b].run = r
                                    => agent'[b].id \in list
  <2>1. CASE Take(a)
    <3>1. PICK rk \in reported : agent' = [agent EXCEPT ![a] =
             [at |-> "busy", run |-> rk[1], id |-> rk[2],
              plan |-> packet[rk[1]][rk[2]].plan]]
      BY <2>1 DEF Take
    <3>2. /\ rk = <<rk[1], rk[2]>> /\ rk[2] \in PacketId
          /\ agent'[a].run = rk[1] /\ agent'[a].id = rk[2]
          /\ \A b \in Agent \ {a} : agent'[b] = agent[b]
          /\ UNCHANGED result
      BY <2>1, <3>1 DEF Shape, Take, fileVars
    <3>3. rk[1] = r => rk[2] \in list
      BY <1>3, <3>1, <3>2
    <3> QED
      BY <1>3, <3>2, <3>3
  <2>2. CASE Answer(a)
    <3>1. PICK c \in Id :
            /\ agent[a].at = "busy" /\ agent' = [agent EXCEPT ![a] = Idle]
            /\ result' = [result EXCEPT ![agent[a].run] =
                 With(@, agent[a].id, [about |-> c, plan |-> agent[a].plan])]
      BY <2>2 DEF Answer
    <3>2. agent'[a] = Idle /\ \A b \in Agent \ {a} : agent'[b] = agent[b]
      BY <3>1 DEF Shape
    <3>3. CASE agent[a].run = r
      <4>1. result'[r] = With(result[r], agent[a].id, [about |-> c, plan |-> agent[a].plan])
        BY <3>1, <3>3 DEF Shape
      <4>2. DOMAIN result'[r] = DOMAIN result[r] \cup {agent[a].id}
        BY <4>1 DEF With
      <4>3. agent[a].id \in list
        BY <1>3, <3>1, <3>3
      <4> QED
        BY <1>3, <3>2, <4>2, <4>3, StatesAre
    <3>4. CASE agent[a].run # r
      BY <1>3, <3>1, <3>2, <3>4, StatesAre DEF Shape
    <3> QED
      BY <3>3, <3>4
  <2> QED
    BY <1>7, <2>1, <2>2
<1>8. ASSUME NEW i \in Ingester, Ingest(i)
      PROVE  UNCHANGED <<reported, planner, result, agent>>
  BY <1>8 DEF Ingest, IngestLoad, IngestResults, WriteFindings, WriteAccount,
     KillIngest, fileVars
<1>9. CASE Rescan
  BY <1>3, <1>9 DEF Rescan, fileVars
<1> QED
  BY <1>3, <1>5, <1>6, <1>7, <1>8, <1>9, Steps, PlanKeeps, AgentKeeps

LEMMA CountedIsPending ==
    ASSUME OnFile, Reported
    PROVE  StatusCounts
<1> SUFFICES ASSUME NEW r \in Run, "overlapped" \notin blame[r]
             PROVE  Pending(r) = Cardinality(Listed(r) \ DOMAIN result[r])
  BY DEF StatusCounts, Planned
<1> DEFINE list == Listed(r)
           done == DOMAIN result[r]
<1>1. /\ IsFiniteSet(DOMAIN packet[r]) /\ list \subseteq DOMAIN packet[r]
      /\ done \subseteq list
  BY DEF OnFile, RunOnFile, Reported, Told
<1>2. IsFiniteSet(list)
  BY <1>1, FS_Subset
<1>3. IsFiniteSet(done) /\ IsFiniteSet(list \ done)
  BY <1>1, <1>2, FS_Subset
<1>4. Cardinality((list \ done) \cup done)
        = Cardinality(list \ done) + Cardinality(done) - Cardinality((list \ done) \cap done)
  BY <1>3, FS_Union
<1>5. (list \ done) \cup done = list /\ (list \ done) \cap done = {}
      /\ DOMAIN packet[r] \cap done = done
  BY <1>1
<1>6. Cardinality(list \ done) \in Nat /\ Cardinality(done) \in Nat
      /\ Cardinality(list) \in Nat /\ Cardinality({}) = 0
  BY <1>2, <1>3, FS_CardinalityType, FS_EmptySet
<1> QED
  <2>1. Cardinality(Answered(r)) = Cardinality(done)
    BY <1>5 DEF Answered
  <2> DEFINE both == (list \ done) \cap done
             whole == (list \ done) \cup done
             a == Cardinality(list \ done)
             b == Cardinality(done)
  <2>2. both = {} /\ whole = list
    BY <1>5
  <2>3. Cardinality(whole) = a + b - Cardinality(both)
    BY <1>4
  <2>4. a \in Nat /\ b \in Nat
    BY <1>6
  <2> HIDE DEF both, whole, a, b
  <2>5. Cardinality(both) = 0 /\ Cardinality(whole) = Cardinality(list)
    BY <1>6, <2>2
  <2>6. Cardinality(list) = a + b
    BY <2>3, <2>5, <2>4
  <2>7. Cardinality(list) = Cardinality(list \ done) + Cardinality(done)
    BY <2>6 DEF a, b
  <2> HIDE DEF list, done
  <2>8. Pending(r) = Cardinality(list) - Cardinality(done)
    BY <2>1 DEF Pending, list
  <2>9. Pending(r) = Cardinality(list \ done)
    BY <1>6, <2>7, <2>8
  <2> QED
    BY <2>9 DEF list, done

-----------------------------------------------------------------------------
(* An ingest counts what it wrote: between its two writes the findings on    *)
(* file are its own, unless it met another ingest of the run.                *)
Tallied(r) ==
    "ingests" \notin blame[r] =>
      \A i \in Ingester :
        ingester[i].run = r /\ ingester[i].at = "account" => ingester[i].found = findings[r]
AddsUp(r) ==
    \/ account[r] \in {{}, {Cardinality(findings[r])}}
    \/ \E i \in Ingester : ingester[i].run = r /\ ingester[i].at = "account"
    \/ blame[r] \cap {"torn", "ingests"} # {}
Accounts == \A r \in Run : Tallied(r) /\ AddsUp(r)

LEMMA AccountsStart == DeepMapInit => Accounts
  BY StatesAre DEF DeepMapInit, Accounts, Tallied, AddsUp

LEMMA WriteFindingsDoes ==
    ASSUME Shape, NEW i \in Ingester, WriteFindings(i)
    PROVE  /\ ingester[i] \in Rewriting /\ ingester[i].run \in Run
           /\ ingester[i].at = "findings"
           /\ findings'[ingester[i].run] = ingester[i].found
           /\ \A r \in Run \ {ingester[i].run} : findings'[r] = findings[r]
           /\ ingester'[i].at = "account" /\ ingester'[i].run = ingester[i].run
           /\ ingester'[i].found = ingester[i].found
           /\ \A j \in Ingester \ {i} : ingester'[j] = ingester[j]
           /\ \/ \A j \in Ingester \ {i} : ingester[j].run # ingester[i].run
              \/ "ingests" \in blame'[ingester[i].run]
           /\ UNCHANGED <<scan, packet, result, account>>
<1> DEFINE me == ingester[i]
<1>1. /\ me.at = "findings"
      /\ findings' = [findings EXCEPT ![me.run] = me.found]
      /\ ingester' = [ingester EXCEPT ![i] = [me EXCEPT !.at = "account"]]
      /\ \/ \A j \in Ingester \ {i} : ingester[j].run # me.run
         \/ Blame(me.run, "ingests")
      /\ UNCHANGED <<scan, packet, result, account>>
  BY DEF WriteFindings, Rewritten
<1>2. me \in Rewriting
  BY <1>1, StatesAre DEF Shape
<1>3. me.run \in Run
  BY <1>2 DEF Rewriting
<1>4. /\ ingester'[i] = [me EXCEPT !.at = "account"]
      /\ \A j \in Ingester \ {i} : ingester'[j] = ingester[j]
  BY <1>1 DEF Shape
<1>5. /\ ingester'[i].at = "account" /\ ingester'[i].run = me.run
      /\ ingester'[i].found = me.found
  BY <1>2, <1>4 DEF Rewriting
<1>6. /\ findings'[me.run] = me.found
      /\ \A r \in Run \ {me.run} : findings'[r] = findings[r]
  BY <1>1, <1>3 DEF Shape
<1>7. \/ \A j \in Ingester \ {i} : ingester[j].run # me.run
      \/ "ingests" \in blame'[me.run]
  BY <1>1, <1>3, BlameSays
<1> QED
  BY <1>1, <1>2, <1>3, <1>4, <1>5, <1>6, <1>7

LEMMA StepAccounts ==
    ASSUME Shape, OnFile, Accounts, [DeepMapNext]_deepMapVars
    PROVE  Accounts'
<1> SUFFICES ASSUME NEW r \in Run PROVE Tallied(r)' /\ AddsUp(r)'
  BY DEF Accounts
<1>1. Tallied(r) /\ AddsUp(r) /\ blame[r] \subseteq blame'[r]
  BY BlameGrows DEF Accounts
<1>2. CASE UNCHANGED <<findings, account, ingester>>
  BY <1>1, <1>2 DEF Tallied, AddsUp
<1>3. ASSUME NEW i \in Ingester, IngestLoad(i) \/ IngestResults(i)
      PROVE  Tallied(r)' /\ AddsUp(r)'
  <2>1. /\ UNCHANGED <<findings, account>>
        /\ ingester[i].at # "account" /\ ingester'[i].at # "account"
        /\ \A j \in Ingester \ {i} : ingester'[j] = ingester[j]
    BY <1>3, StatesAre DEF IngestLoad, IngestResults, fileVars, Shape
  <2> QED
    BY <1>1, <2>1 DEF Tallied, AddsUp
<1>4. ASSUME NEW i \in Ingester, WriteFindings(i)
      PROVE  Tallied(r)' /\ AddsUp(r)'
  <2> DEFINE me == ingester[i]
  <2>1. /\ me.run \in Run /\ me.at = "findings"
        /\ findings'[me.run] = me.found
        /\ \A s \in Run \ {me.run} : findings'[s] = findings[s]
        /\ ingester'[i].at = "account" /\ ingester'[i].run = me.run
        /\ ingester'[i].found = me.found
        /\ \A j \in Ingester \ {i} : ingester'[j] = ingester[j]
        /\ \/ \A j \in Ingester \ {i} : ingester[j].run # me.run
           \/ "ingests" \in blame'[me.run]
        /\ UNCHANGED account
    BY <1>4, WriteFindingsDoes
  <2>2. CASE r = me.run
    BY <2>1, <2>2 DEF Tallied, AddsUp
  <2>3. CASE r # me.run
    BY <1>1, <2>1, <2>3 DEF Tallied, AddsUp
  <2> QED
    BY <2>2, <2>3
<1>5. ASSUME NEW i \in Ingester, WriteAccount(i)
      PROVE  Tallied(r)' /\ AddsUp(r)'
  <2> DEFINE me == ingester[i]
  <2>1. /\ me.at = "account" /\ me.run \in Run
        /\ account' = [account EXCEPT ![me.run] = {Cardinality(me.found)}]
        /\ ingester'[i] = Idle /\ \A j \in Ingester \ {i} : ingester'[j] = ingester[j]
        /\ UNCHANGED <<findings, blame>>
    BY <1>5, StatesAre DEF WriteAccount, Shape, Rewriting
  <2>2. Tallied(r)'
    BY <1>1, <2>1, StatesAre DEF Tallied
  <2>3. CASE r = me.run
    <3>1. account'[r] = {Cardinality(me.found)}
      BY <2>1, <2>3 DEF Shape
    <3>2. "ingests" \in blame[r] \/ me.found = findings[r]
      BY <1>1, <2>1, <2>3 DEF Tallied
    <3> QED
      BY <2>1, <2>2, <3>1, <3>2 DEF AddsUp
  <2>4. CASE r # me.run
    <3>1. account'[r] = account[r]
      BY <2>1, <2>4 DEF Shape
    <3> QED
      BY <1>1, <2>1, <2>2, <2>4, <3>1 DEF AddsUp
  <2> QED
    BY <2>3, <2>4
<1>6. ASSUME NEW i \in Ingester, KillIngest(i)
      PROVE  Tallied(r)' /\ AddsUp(r)'
  <2> DEFINE me == ingester[i]
  <2>1. /\ me.at = "account" /\ me.run \in Run /\ Blame(me.run, "torn")
        /\ ingester'[i] = Idle /\ \A j \in Ingester \ {i} : ingester'[j] = ingester[j]
        /\ UNCHANGED <<findings, account>>
    BY <1>6, StatesAre DEF KillIngest, Shape, Rewriting, fileVars
  <2>2. Tallied(r)'
    BY <1>1, <2>1, StatesAre DEF Tallied
  <2>3. "torn" \in blame'[me.run]
    BY <2>1, BlameSays
  <2>4. CASE r = me.run
    BY <2>2, <2>3, <2>4 DEF AddsUp
  <2>5. CASE r # me.run
    BY <1>1, <2>1, <2>2, <2>5 DEF AddsUp
  <2> QED
    BY <2>4, <2>5
<1>7. CASE UNCHANGED deepMapVars
  BY <1>2, <1>7 DEF deepMapVars, fileVars
<1>8. CASE Rescan
  BY <1>2, <1>8 DEF Rescan, fileVars
<1> QED
  BY <1>2, <1>3, <1>4, <1>5, <1>6, <1>7, <1>8, Steps, PlanKeeps, AgentKeeps DEF Ingest

-----------------------------------------------------------------------------
(* An accepted finding can be accepted again: it is what the result file     *)
(* says, the packet is about its component, and the component was of a scan. *)
(* So is what an ingest is about to write, and it has every finding on file  *)
(* that is of the current scan.                                              *)
Fine(r) == blame[r] \cap {"answered again", "replanned", "ingests"} = {}
InScope(files, f) ==
    f.id \in DOMAIN files /\ (f.id[1] = 3 \/ f.about \in files[f.id].scope)
Backed(r, f) ==
    /\ InScope(packet[r], f)
    /\ f.id \in DOMAIN result[r] /\ result[r][f.id].about = f.about
    /\ f.about[2] \in 1..scan
ReadsRight(r, me) ==
    /\ me.known \in 1..scan
    /\ \A f \in findings[r] : f.about[2] <= me.known /\ InScope(me.packets, f)
    /\ \A k \in DOMAIN me.packets :
         k \in DOMAIN packet[r] /\ packet[r][k] = me.packets[k]
FindsRight(r, me) ==
    /\ \A f \in me.found : Backed(r, f)
    /\ \A f \in findings[r] : f.about[2] # scan \/ f \in me.found
Right(r, me) ==
    me.run = r => /\ me.at = "results" => ReadsRight(r, me)
                  /\ me.at = "findings" => FindsRight(r, me)
Sound(r) ==
    Fine(r) => /\ \A f \in findings[r] : Backed(r, f)
               /\ \A i \in Ingester : Right(r, ingester[i])
Accepted == \A r \in Run : Sound(r)

LEMMA AcceptedStart == DeepMapInit => Accepted
  BY StatesAre DEF DeepMapInit, Accepted, Sound, Right

(* A packet and its result stay as they are. *)
Kept(f, g) == \A k \in DOMAIN f : k \in DOMAIN g /\ g[k] = f[k]

LEMMA FilesKept ==
    ASSUME Shape, OnFile, [DeepMapNext]_deepMapVars, NEW r \in Run, Fine(r)'
    PROVE  Fine(r) /\ Kept(packet[r], packet'[r]) /\ Kept(result[r], result'[r])
<1>1. Fine(r)
  BY BlameGrows DEF Fine
<1>2. UNCHANGED packet \/ \E p \in Planner : WritePacket(p)
  <2> USE DEF fileVars
  <2>1. CASE UNCHANGED deepMapVars
    BY <2>1 DEF deepMapVars
  <2>2. ASSUME NEW p \in Planner, Plan(p) PROVE UNCHANGED packet \/ WritePacket(p)
    BY <2>2 DEF Plan, PlanLoad, PlanRead, RefusePacket, WriteManifest, WriteLatest, KillPlan
  <2>3. ASSUME NEW i \in Ingester, Ingest(i) PROVE UNCHANGED packet
    BY <2>3, IngestOnFile
  <2>4. CASE Rescan
    BY <2>4 DEF Rescan
  <2> QED
    BY <2>1, <2>2, <2>3, <2>4, Steps, AgentKeeps
<1>3. ASSUME NEW p \in Planner, WritePacket(p) PROVE Kept(packet[r], packet'[r])
  <2> DEFINE run == planner[p].run
  <2>1. PICK k \in DOMAIN planner[p].todo :
             /\ planner[p] \in Writing
             /\ DOMAIN packet'[run] = DOMAIN packet[run] \cup {k}
             /\ \A x \in DOMAIN packet[run] \ {k} : packet'[run][x] = packet[run][x]
             /\ \A s \in Run \ {run} : packet'[s] = packet[s]
             /\ IF k \in DOMAIN packet[run] THEN Blame(run, "replanned")
                ELSE UNCHANGED blame
    BY <1>3, WritePacketDoes
  <2>2. run \in Run
    BY <2>1 DEF Writing
  <2>3. ASSUME r = run PROVE k \notin DOMAIN packet[run]
    BY <2>1, <2>2, <2>3, BlameSays DEF Fine
  <2> HIDE DEF run
  <2> QED
    BY <2>1, <2>3 DEF Kept
<1>4. UNCHANGED result \/ \E a \in Agent : Answer(a)
  <2> USE DEF fileVars
  <2>1. CASE UNCHANGED deepMapVars
    BY <2>1 DEF deepMapVars
  <2>2. ASSUME NEW a \in Agent, Take(a) PROVE UNCHANGED result
    BY <2>2 DEF Take
  <2>3. ASSUME NEW i \in Ingester, Ingest(i) PROVE UNCHANGED result
    BY <2>3 DEF Ingest, IngestLoad, IngestResults, WriteFindings, WriteAccount, KillIngest
  <2>4. CASE Rescan
    BY <2>4 DEF Rescan
  <2> QED
    BY <2>1, <2>2, <2>3, <2>4, Steps, PlanKeeps
<1>5. ASSUME NEW a \in Agent, Answer(a) PROVE Kept(result[r], result'[r])
  <2> DEFINE me == agent[a]
  <2>1. me \in Busy
    BY <1>5, StatesAre DEF Answer, Shape
  <2>2. me.run \in Run
    BY <2>1 DEF Busy
  <2>3. PICK c \in Id :
            /\ result' = [result EXCEPT ![me.run] =
                 With(@, me.id, [about |-> c, plan |-> me.plan])]
            /\ me.id \in DOMAIN result[me.run] => Blame(me.run, "answered again")
    BY <1>5 DEF Answer
  <2>4. CASE r = me.run
    <3>1. me.id \notin DOMAIN result[r]
      BY <2>2, <2>3, <2>4, BlameSays DEF Fine
    <3>2. result'[r] = With(result[r], me.id, [about |-> c, plan |-> me.plan])
      BY <2>3, <2>4 DEF Shape
    <3> QED
      BY <3>1, <3>2 DEF Kept, With
  <2>5. CASE r # me.run
    <3>1. result'[r] = result[r]
      BY <2>3, <2>5 DEF Shape
    <3> QED
      BY <3>1 DEF Kept
  <2> QED
    BY <2>4, <2>5
<1> QED
  BY <1>1, <1>2, <1>3, <1>4, <1>5 DEF Kept

LEMMA ScanGrows ==
    ASSUME Shape, [DeepMapNext]_deepMapVars
    PROVE  /\ UNCHANGED scan \/ (scan' = scan + 1 /\ Rescan)
           /\ scan \in Nat /\ scan' \in Nat /\ 1..scan \subseteq 1..scan'
<1>1. UNCHANGED scan \/ (scan' = scan + 1 /\ Rescan)
  <2>1. CASE UNCHANGED deepMapVars
    BY <2>1 DEF deepMapVars
  <2>2. ASSUME NEW i \in Ingester, Ingest(i) PROVE UNCHANGED scan
    BY <2>2 DEF Ingest, IngestLoad, IngestResults, WriteFindings, WriteAccount, KillIngest
  <2>3. Rescan => scan' = scan + 1
    BY DEF Rescan
  <2> QED
    BY <2>1, <2>2, <2>3, Steps, PlanKeeps, AgentKeeps
<1>2. scan \in Nat
  BY Bounds DEF Shape
<1> QED
  BY <1>1, <1>2

LEMMA BackedStays ==
    ASSUME Shape, OnFile, [DeepMapNext]_deepMapVars, NEW r \in Run, Fine(r)'
    PROVE  \A f : Backed(r, f) => Backed(r, f)'
<1>1. /\ Kept(packet[r], packet'[r]) /\ Kept(result[r], result'[r])
      /\ 1..scan \subseteq 1..scan'
  BY FilesKept, ScanGrows
<1> SUFFICES ASSUME NEW f, Backed(r, f) PROVE Backed(r, f)'
  OBVIOUS
<1>2. f.id \in DOMAIN packet'[r] /\ packet'[r][f.id] = packet[r][f.id]
  BY <1>1 DEF Backed, InScope, Kept
<1>3. f.id \in DOMAIN result'[r] /\ result'[r][f.id] = result[r][f.id]
  BY <1>1 DEF Backed, Kept
<1>4. f.about[2] \in 1..scan'
  BY <1>1 DEF Backed
<1> QED
  BY <1>2, <1>3, <1>4 DEF Backed, InScope

(* An ingest whose run's findings stay on file. *)
LEMMA RightStays ==
    ASSUME Shape, OnFile, [DeepMapNext]_deepMapVars, NEW r \in Run, Fine(r)', Sound(r),
           NEW i \in Ingester, ingester'[i] = ingester[i],
           findings'[r] = findings[r] \/ ingester[i].run # r
    PROVE  Right(r, ingester[i])'
<1> DEFINE me == ingester[i]
<1> SUFFICES ASSUME me.run = r, findings'[r] = findings[r]
             PROVE  Right(r, ingester[i])'
  BY DEF Right
<1>1. /\ Fine(r) /\ Kept(packet[r], packet'[r])
      /\ UNCHANGED scan \/ scan' = scan + 1
      /\ scan \in Nat /\ 1..scan \subseteq 1..scan'
  BY FilesKept, ScanGrows
<1>2. Right(r, me) /\ \A f \in findings[r] : Backed(r, f)
  BY <1>1 DEF Sound
<1>3. CASE me.at = "results"
  <2>1. ReadsRight(r, me)
    BY <1>2, <1>3 DEF Right
  <2>2. /\ me.known \in 1..scan'
        /\ \A f \in findings'[r] : f.about[2] <= me.known /\ InScope(me.packets, f)
    BY <1>1, <2>1 DEF ReadsRight
  <2>3. \A k \in DOMAIN me.packets : k \in DOMAIN packet'[r] /\ packet'[r][k] = me.packets[k]
    BY <1>1, <2>1 DEF ReadsRight, Kept
  <2>4. ReadsRight(r, ingester[i])'
    BY <2>2, <2>3 DEF ReadsRight, InScope
  <2> QED
    BY <1>3, <2>4 DEF Right
<1>4. CASE me.at = "findings"
  <2>1. FindsRight(r, me)
    BY <1>2, <1>4 DEF Right
  <2>2. \A f \in me.found : Backed(r, f)'
    BY <2>1, BackedStays DEF FindsRight
  <2>3. ASSUME NEW f \in findings'[r] PROVE f.about[2] # scan' \/ f \in me.found
    <3>1. CASE UNCHANGED scan
      BY <2>1, <3>1 DEF FindsRight
    <3>2. CASE scan' = scan + 1
      <4>1. f.about[2] \in 1..scan
        BY <1>2 DEF Backed
      <4> QED
        BY <1>1, <3>2, <4>1
    <3> QED
      BY <1>1, <3>1, <3>2
  <2>4. FindsRight(r, ingester[i])'
    BY <2>2, <2>3 DEF FindsRight
  <2> QED
    BY <1>4, <2>4 DEF Right
<1>5. CASE me.at \notin {"results", "findings"}
  BY <1>5 DEF Right
<1> QED
  BY <1>3, <1>4, <1>5

LEMMA StepAccepted ==
    ASSUME Shape, OnFile, Accepted, [DeepMapNext]_deepMapVars
    PROVE  Accepted'
<1> SUFFICES ASSUME NEW r \in Run, Fine(r)'
             PROVE  /\ \A f \in findings'[r] : Backed(r, f)'
                    /\ \A i \in Ingester : Right(r, ingester[i])'
  BY DEF Accepted, Sound
<1>1. /\ Fine(r) /\ Sound(r)
      /\ \A f \in findings[r] : Backed(r, f)
      /\ \A i \in Ingester : Right(r, ingester[i])
  BY FilesKept DEF Accepted, Sound
<1>2. \A f : Backed(r, f) => Backed(r, f)'
  BY BackedStays
<1>3. CASE UNCHANGED <<findings, ingester>>
  BY <1>1, <1>2, <1>3, RightStays
<1>4. ASSUME NEW i \in Ingester, IngestLoad(i)
      PROVE  Right(r, ingester[i])'
  <2>1. PICK s \in Run :
          /\ ingester' = [ingester EXCEPT ![i] =
               [at |-> "results", run |-> s, known |-> scan, packets |-> packet[s]]]
          /\ UNCHANGED <<scan, packet, findings>>
    BY <1>4 DEF IngestLoad, PacketsRead, Planned, fileVars
  <2>2. ingester'[i] = [at |-> "results", run |-> s, known |-> scan, packets |-> packet[s]]
    BY <2>1 DEF Shape
  <2>3. scan \in 1..scan
    BY Bounds DEF Shape
  <2>4. \A f \in findings[r] : f.about[2] <= scan /\ InScope(packet[r], f)
    BY <1>1, ScanGrows DEF Backed
  <2>5. s = r => ReadsRight(r, ingester[i])'
    BY <2>1, <2>2, <2>3, <2>4 DEF ReadsRight, InScope
  <2> QED
    BY <2>2, <2>5 DEF Right
<1>5. ASSUME NEW i \in Ingester, IngestResults(i)
      PROVE  Right(r, ingester[i])'
  <2> DEFINE me == ingester[i]
             res == result[me.run]
             from == {x \in DOMAIN me.packets \cap DOMAIN res :
                        Accepts(me, x, res[x].about)}
             found == {[id |-> k, about |-> res[k].about] : k \in from}
  <2>1. /\ me.at = "results"
        /\ ingester' = [ingester EXCEPT ![i] =
             [at |-> "findings", run |-> me.run, found |-> found]]
        /\ UNCHANGED <<scan, packet, result, findings>>
    BY <1>5 DEF IngestResults, fileVars
  <2>2. \A k : k \in from <=>
           /\ k \in DOMAIN me.packets /\ k \in DOMAIN res
           /\ Accepts(me, k, res[k].about)
    OBVIOUS
  <2>3. \A f : f \in found <=> \E k \in from : f = [id |-> k, about |-> res[k].about]
    OBVIOUS
  <2> HIDE DEF from, found
  <2>4. ingester'[i] = [at |-> "findings", run |-> me.run, found |-> found]
    BY <2>1 DEF Shape
  <2>5. CASE me.run # r
    BY <2>4, <2>5 DEF Right
  <2>6. CASE me.run = r
    <3>1. ReadsRight(r, me)
      BY <1>1, <2>1, <2>6 DEF Right
    <3>2. ASSUME NEW f \in found PROVE Backed(r, f)
      <4>1. PICK k \in from : f = [id |-> k, about |-> res[k].about]
        BY <2>3, <3>2
      <4>2. /\ f.id = k /\ f.about = res[k].about
            /\ k \in DOMAIN me.packets /\ k \in DOMAIN result[r]
            /\ f.about \in Known(me.known)
            /\ k[1] = 3 \/ f.about \in me.packets[k].scope
        BY <2>2, <2>6, <4>1 DEF Accepts
      <4>3. k \in DOMAIN packet[r] /\ packet[r][k] = me.packets[k]
        BY <3>1, <4>2 DEF ReadsRight
      <4>4. f.about[2] \in 1..scan
        BY <3>1, <4>2 DEF ReadsRight, Known
      <4> QED
        BY <2>6, <4>2, <4>3, <4>4 DEF Backed, InScope
    <3>3. ASSUME NEW f \in findings[r], f.about[2] = scan PROVE f \in found
      <4>1. /\ f = [id |-> f.id, about |-> f.about]
            /\ f.about \in Id
        BY DEF Shape, Finding
      <4>2. me.known = scan
        <5>1. f.about[2] <= me.known /\ me.known \in 1..scan /\ scan \in Nat
          BY <3>1, ScanGrows DEF ReadsRight
        <5> QED
          BY <3>3, <5>1
      <4>3. f.about \in Known(scan)
        BY <3>3, <4>1 DEF Id, Known
      <4>4. /\ f.id \in DOMAIN me.packets
            /\ f.id[1] = 3 \/ f.about \in me.packets[f.id].scope
        BY <3>1 DEF ReadsRight, InScope
      <4>5. f.id \in DOMAIN result[r] /\ result[r][f.id].about = f.about
        BY <1>1 DEF Backed
      <4>6. f.id \in from
        BY <2>2, <2>6, <4>2, <4>3, <4>4, <4>5 DEF Accepts
      <4> QED
        BY <2>3, <2>6, <4>1, <4>5, <4>6
    <3>4. FindsRight(r, ingester[i])'
      BY <1>2, <2>1, <2>4, <3>2, <3>3 DEF FindsRight
    <3> QED
      BY <2>4, <3>4 DEF Right
  <2> QED
    BY <2>5, <2>6
<1>6. ASSUME NEW i \in Ingester, IngestLoad(i) \/ IngestResults(i)
      PROVE  /\ \A f \in findings'[r] : Backed(r, f)'
             /\ \A j \in Ingester : Right(r, ingester[j])'
  <2>1. /\ UNCHANGED findings
        /\ \A j \in Ingester \ {i} : ingester'[j] = ingester[j]
    BY <1>6 DEF IngestLoad, IngestResults, fileVars, Shape
  <2> QED
    BY <1>1, <1>2, <1>4, <1>5, <1>6, <2>1, RightStays
<1>7. ASSUME NEW i \in Ingester, WriteFindings(i)
      PROVE  /\ \A f \in findings'[r] : Backed(r, f)'
             /\ \A j \in Ingester : Right(r, ingester[j])'
  <2> DEFINE me == ingester[i]
  <2>1. /\ me.run \in Run /\ me.at = "findings"
        /\ findings'[me.run] = me.found
        /\ \A s \in Run \ {me.run} : findings'[s] = findings[s]
        /\ ingester'[i].at = "account"
        /\ \A j \in Ingester \ {i} : ingester'[j] = ingester[j]
        /\ \/ \A j \in Ingester \ {i} : ingester[j].run # me.run
           \/ "ingests" \in blame'[me.run]
    BY <1>7, WriteFindingsDoes
  <2>2. Right(r, ingester[i])'
    BY <2>1 DEF Right
  <2>3. me.run = r => \A j \in Ingester \ {i} : ingester[j].run # r
    BY <2>1 DEF Fine
  <2>4. \A f \in findings'[r] : Backed(r, f)
    <3>1. CASE me.run = r
      BY <1>1, <2>1, <3>1 DEF Right, FindsRight
    <3>2. CASE me.run # r
      BY <1>1, <2>1, <3>2
    <3> QED
      BY <3>1, <3>2
  <2> QED
    BY <1>1, <1>2, <2>1, <2>2, <2>3, <2>4, RightStays
<1>8. ASSUME NEW i \in Ingester, WriteAccount(i) \/ KillIngest(i)
      PROVE  /\ \A f \in findings'[r] : Backed(r, f)'
             /\ \A j \in Ingester : Right(r, ingester[j])'
  <2>1. /\ UNCHANGED findings /\ ingester'[i] = Idle
        /\ \A j \in Ingester \ {i} : ingester'[j] = ingester[j]
    BY <1>8 DEF WriteAccount, KillIngest, fileVars, Shape
  <2>2. Right(r, ingester[i])'
    BY <2>1, StatesAre DEF Right
  <2> QED
    BY <1>1, <1>2, <2>1, <2>2, RightStays
<1>9. CASE UNCHANGED deepMapVars
  BY <1>3, <1>9 DEF deepMapVars, fileVars
<1>10. CASE Rescan
  BY <1>3, <1>10 DEF Rescan, fileVars
<1> QED
  BY <1>3, <1>6, <1>7, <1>8, <1>9, <1>10, Steps, PlanKeeps, AgentKeeps DEF Ingest

-----------------------------------------------------------------------------
(* The theorems. *)

DeepMapIInv == Shape /\ OnFile /\ Reported /\ Accounts /\ Accepted

LEMMA DeepMapInvariant == DeepMapSpec => []DeepMapIInv
<1>1. DeepMapInit => DeepMapIInv
  BY DeepMapStart, ReportedStart, AccountsStart, AcceptedStart DEF DeepMapIInv
<1>2. DeepMapIInv /\ [DeepMapNext]_deepMapVars => DeepMapIInv'
  BY StepShape, StepReported, StepAccounts, StepAccepted DEF DeepMapIInv
<1> QED
  BY <1>1, <1>2, PTL DEF DeepMapSpec

(* The files of every run are well formed; every listed packet and every     *)
(* finding's packet is on file, and latest.json names a run that was planned *)
(* (plan, ingest): packets go to disk before what refers to them.            *)
THEOREM DeepMapTypeCorrect == DeepMapSpec => []DeepMapTypeOK
<1>1. DeepMapIInv => DeepMapTypeOK
  <2> SUFFICES ASSUME Shape, OnFile PROVE DeepMapTypeOK
    BY DEF DeepMapIInv
  <2>1. ASSUME NEW r \in Run
        PROVE  /\ DOMAIN packet[r] \cup DOMAIN result[r] \subseteq PacketId
               /\ \A S \in manifest[r] : S \subseteq DOMAIN packet[r]
               /\ \A f \in findings[r] : f.about \in Id /\ f.id \in DOMAIN packet[r]
               /\ account[r] \subseteq Nat
    <3>1. packet[r] \in Partial(PacketFile) /\ result[r] \in Partial(ResultFile)
      BY DEF Shape
    <3>2. DOMAIN packet[r] \subseteq PacketId /\ DOMAIN result[r] \subseteq PacketId
      BY <3>1, PartialIs
    <3>3. \A S \in manifest[r] : S \subseteq DOMAIN packet[r]
      BY DEF OnFile, RunOnFile, Listed
    <3>4. \A f \in findings[r] : f.about \in Id /\ f.id \in DOMAIN packet[r]
      BY DEF Shape, OnFile, RunOnFile, Finding
    <3> QED
      BY <3>2, <3>3, <3>4 DEF Shape
  <2>2. /\ scan \in 1..MaxScan /\ latest \in Run \cup {0} /\ plans \in 0..MaxPlan
        /\ latest # 0 => manifest[latest] # {}
        /\ reported \subseteq Run \X PacketId
    BY DEF Shape, OnFile
  <2> QED
    BY <2>1, <2>2 DEF DeepMapTypeOK
<1> QED
  BY <1>1, DeepMapInvariant, PTL

(* What status counts as pending is the listed packets that have no result   *)
(* file (readStatus subtracts the number of answered packet files), until    *)
(* two plans of one run overlap.                                             *)
THEOREM StatusIsRight == DeepMapSpec => []StatusCounts
<1>1. DeepMapIInv => StatusCounts
  BY CountedIsPending DEF DeepMapIInv
<1> QED
  BY <1>1, DeepMapInvariant, PTL

(* ingest.json counts the findings of findings.jsonl (runIngest writes one   *)
(* and then the other), but between the two writes, after a kill between     *)
(* them, and where two ingests of a run met.                                 *)
THEOREM CountMatches == DeepMapSpec => []AccountAddsUp
<1>1. DeepMapIInv => AccountAddsUp
  BY DEF DeepMapIInv, Accounts, AddsUp, AccountAddsUp
<1> QED
  BY <1>1, DeepMapInvariant, PTL

(* An ingest does not lose a finding that an earlier one accepted            *)
(* (validateResult, writeFindings), unless the component was renamed by a    *)
(* scan, its packet planned or answered again, or the ingests overlapped.    *)
THEOREM NothingAcceptedIsLost == DeepMapSpec => AcceptedStays
<1> DEFINE Stays == \A r \in Run : \A f \in findings[r] \ findings'[r] :
         \/ f.about[2] # scan
         \/ blame'[r] \cap {"answered again", "replanned", "ingests"} # {}
<1>1. ASSUME DeepMapIInv, [DeepMapNext]_deepMapVars PROVE Stays
  <2> SUFFICES ASSUME NEW r \in Run, NEW f \in findings[r], f \notin findings'[r], Fine(r)'
               PROVE  f.about[2] # scan
    BY DEF Fine
  <2> USE <1>1 DEF DeepMapIInv
  <2>1. Fine(r) /\ Sound(r)
    BY FilesKept DEF Accepted
  <2>2. \E i \in Ingester : WriteFindings(i)
    <3>1. CASE UNCHANGED deepMapVars
      BY <3>1 DEF deepMapVars, fileVars
    <3>2. ASSUME NEW i \in Ingester, Ingest(i) PROVE UNCHANGED findings \/ WriteFindings(i)
      BY <3>2 DEF Ingest, IngestLoad, IngestResults, WriteAccount, KillIngest, fileVars
    <3>3. CASE Rescan
      BY <3>3 DEF Rescan, fileVars
    <3> QED
      BY <3>1, <3>2, <3>3, Steps, PlanKeeps, AgentKeeps
  <2>3. PICK i \in Ingester : WriteFindings(i)
    BY <2>2
  <2>4. ingester[i].run = r /\ findings'[r] = ingester[i].found
        /\ ingester[i].at = "findings"
    BY <2>3, WriteFindingsDoes
  <2> QED
    BY <2>1, <2>4 DEF Sound, Right, FindsRight
<1>2. DeepMapSpec => [][Stays]_deepMapVars
  BY <1>1, DeepMapInvariant, PTL DEF DeepMapSpec
<1> QED
  BY <1>2 DEF AcceptedStays

-----------------------------------------------------------------------------
(* The partition.                                                            *)


GroupRecord == [of : Bucket \cup {0}, members : SUBSET Node]

LEMMA NodesFinite == IsFiniteSet(Node) /\ \A S \in SUBSET Node : IsFiniteSet(S)
<1>1. IsFiniteSet(1..Nodes)
  BY PartitionAssumption, FS_Interval
<1> QED
  BY <1>1, FS_Subset DEF Node

-----------------------------------------------------------------------------
(* Sequences of sets. *)

InSome(q) == UNION {q[i] : i \in 1..Len(q)}
Apart(q) == \A i, j \in 1..Len(q) : i # j => q[i] \cap q[j] = {}

(* One component taken from the first batch, and a batch of new ones put    *)
(* after the last.                                                          *)
Requeued(q, A, B) == Batches(A) \o Tail(q) \o Batches(B)

(* The new queue keeps the batches apart, and holds what it should.         *)
StaysApart(q, A, B) ==
    /\ Apart(Requeued(q, A, B))
    /\ InSome(Requeued(q, A, B)) = (InSome(q) \ q[1]) \cup A \cup B

LEMMA RequeuedIsApart ==
    ASSUME NEW T, NEW q \in Seq(SUBSET T), q # <<>>, Apart(q),
           NEW A \in SUBSET q[1], NEW B \in SUBSET T, B \cap InSome(q) = {}
    PROVE  StaysApart(q, A, B)
<1> DEFINE r == Requeued(q, A, B)
<1>0. Len(q) \in Nat \ {0} /\ q[1] \in SUBSET T /\ A \in SUBSET T
  OBVIOUS
<1>6. ASSUME NEW x
      PROVE  x \in InSome(q) \ q[1] <=> \E i \in 2..Len(q) : x \in q[i]
  <2>1. \A i \in 2..Len(q) : q[i] \cap q[1] = {}
    BY <1>0 DEF Apart
  <2> QED
    BY <1>0, <2>1 DEF InSome
<1>1. CASE A = {} /\ B = {}
  <2>1. r = Tail(q)
    BY <1>0, <1>1 DEF Requeued, Batches
  <2>2. /\ r \in Seq(SUBSET T) /\ Len(r) = Len(q) - 1
        /\ \A i \in 1..Len(r) : r[i] = q[i + 1]
    BY <1>0, <2>1
  <2>3. \A i \in 2..Len(q) : i - 1 \in 1..Len(r) /\ r[i - 1] = q[i]
    BY <1>0, <2>2
  <2> HIDE DEF r
  <2>4. Apart(r)
    <3>1. ASSUME NEW i \in 1..Len(r), NEW j \in 1..Len(r), i # j
          PROVE  r[i] \cap r[j] = {}
      <4>1. r[i] = q[i + 1] /\ r[j] = q[j + 1]
        BY <2>2
      <4>2. i + 1 \in 1..Len(q) /\ j + 1 \in 1..Len(q) /\ i + 1 # j + 1
        BY <1>0, <2>2, <3>1
      <4>3. \A a, b \in 1..Len(q) : a # b => q[a] \cap q[b] = {}
        BY DEF Apart
      <4>4. q[i + 1] \cap q[j + 1] = {}
        BY <4>2, <4>3
      <4> QED
        BY <4>1, <4>4
    <3> QED
      BY <3>1 DEF Apart
  <2>5. ASSUME NEW x PROVE x \in InSome(r) <=> x \in InSome(q) \ q[1]
    <3>1. x \in InSome(r) <=> \E i \in 1..Len(r) : x \in r[i]
      BY DEF InSome
    <3>2. (\E i \in 1..Len(r) : x \in r[i]) <=> \E i \in 2..Len(q) : x \in q[i]
      BY <1>0, <2>2, <2>3
    <3> QED
      BY <3>1, <3>2, <1>6
  <2> QED
    BY <1>1, <2>4, <2>5 DEF StaysApart, r
<1>2. CASE A # {} /\ B = {}
  <2>1. r = <<A>> \o Tail(q)
    BY <1>0, <1>2 DEF Requeued, Batches
  <2>2. /\ r \in Seq(SUBSET T) /\ Len(r) = Len(q) /\ r[1] = A
        /\ \A i \in 2..Len(r) : r[i] = q[i]
    BY <1>0, <2>1
  <2> HIDE DEF r
  <2>4. Apart(r)
    <3>1. \A i \in 2..Len(r) : i \in 2..Len(q) /\ r[i] = q[i] /\ q[i] \cap A = {}
      BY <1>0, <2>2 DEF Apart
    <3> QED
      BY <1>0, <2>2, <3>1 DEF Apart
  <2>5. ASSUME NEW x PROVE x \in InSome(r) <=> x \in (InSome(q) \ q[1]) \cup A
    <3>1. x \in InSome(r) <=> x \in A \/ \E i \in 2..Len(q) : x \in q[i]
      BY <1>0, <2>2 DEF InSome
    <3> QED
      BY <3>1, <1>6
  <2> QED
    BY <1>2, <2>4, <2>5 DEF StaysApart, r
<1>3. CASE A = {} /\ B # {}
  <2>1. r = Tail(q) \o <<B>>
    BY <1>0, <1>3 DEF Requeued, Batches
  <2>2. /\ r \in Seq(SUBSET T) /\ Len(r) = Len(q) /\ r[Len(r)] = B
        /\ \A i \in 1..Len(r) - 1 : r[i] = q[i + 1]
    BY <1>0, <2>1
  <2>3. \A i \in 2..Len(q) : i - 1 \in 1..Len(r) - 1 /\ r[i - 1] = q[i]
    BY <1>0, <2>2
  <2> HIDE DEF r
  <2>4. Apart(r)
    <3>1. \A i \in 1..Len(r) - 1 : r[i] \cap B = {}
      BY <1>0, <2>2 DEF InSome
    <3> QED
      BY <1>0, <2>2, <3>1 DEF Apart
  <2>5. ASSUME NEW x PROVE x \in InSome(r) <=> x \in (InSome(q) \ q[1]) \cup B
    <3>1. x \in InSome(r) <=> x \in B \/ \E i \in 1..Len(r) - 1 : x \in r[i]
      BY <1>0, <2>2 DEF InSome
    <3>2. (\E i \in 1..Len(r) - 1 : x \in r[i]) <=> \E i \in 2..Len(q) : x \in q[i]
      BY <1>0, <2>2, <2>3
    <3> QED
      BY <3>1, <3>2, <1>6
  <2> QED
    BY <1>3, <2>4, <2>5 DEF StaysApart, r
<1>4. CASE A # {} /\ B # {}
  <2>1. r = <<A>> \o Tail(q) \o <<B>>
    BY <1>0, <1>4 DEF Requeued, Batches
  <2>2. /\ r \in Seq(SUBSET T) /\ Len(r) = Len(q) + 1
        /\ r[1] = A /\ r[Len(r)] = B
        /\ \A i \in 2..Len(r) - 1 : r[i] = q[i]
    BY <1>0, <2>1
  <2> HIDE DEF r
  <2>4. Apart(r)
    <3>1. \A i \in 1..Len(r) - 1 : r[i] \cap B = {}
      BY <1>0, <2>2 DEF InSome
    <3> QED
      BY <1>0, <2>2, <3>1 DEF Apart
  <2>5. ASSUME NEW x PROVE x \in InSome(r) <=> x \in (InSome(q) \ q[1]) \cup A \cup B
    <3>1. x \in InSome(r) <=> x \in A \/ x \in B \/ \E i \in 2..Len(q) : x \in q[i]
      BY <1>0, <2>2 DEF InSome
    <3> QED
      BY <3>1, <1>6
  <2> QED
    BY <1>4, <2>4, <2>5 DEF StaysApart, r
<1> QED
  BY <1>1, <1>2, <1>3, <1>4

(* A component is taken from the first batch of the queue.                  *)
LEMMA VisitedQueue ==
    ASSUME queue \in Seq(SUBSET Node), queue # <<>>, Apart(queue),
           NEW n \in queue[1], NEW B \in SUBSET Node, B \cap InSome(queue) = {}
    PROVE  /\ Apart(Requeued(queue, queue[1] \ {n}, B))
           /\ InSome(Requeued(queue, queue[1] \ {n}, B)) = (InSome(queue) \ {n}) \cup B
<1>1. queue[1] \ {n} \in SUBSET queue[1]
  OBVIOUS
<1>2. StaysApart(queue, queue[1] \ {n}, B)
  BY <1>1, RequeuedIsApart
<1>3. queue[1] \subseteq InSome(queue)
  <2>1. 1 \in 1..Len(queue)
    OBVIOUS
  <2> QED
    BY <2>1 DEF InSome
<1>4. (InSome(queue) \ queue[1]) \cup (queue[1] \ {n}) \cup B = (InSome(queue) \ {n}) \cup B
  BY <1>3
<1> QED
  BY <1>2, <1>4 DEF StaysApart

-----------------------------------------------------------------------------
(* Types. *)

LEMMA Numbers ==
    /\ Nodes \in Nat /\ Buckets \in Nat
    /\ MinGroup \in Nat \ {0} /\ PacketSize \in Nat \ {0} /\ MaxPackets \in Nat \ {0}
BY PartitionAssumption

LEMMA RequeuedType ==
    ASSUME NEW q \in Seq(SUBSET Node), q # <<>>,
           NEW A \in SUBSET Node, NEW B \in SUBSET Node
    PROVE  Requeued(q, A, B) \in Seq(SUBSET Node)
<1>1. Tail(q) \in Seq(SUBSET Node)
  OBVIOUS
<1>2. ASSUME NEW S \in SUBSET Node PROVE Batches(S) \in Seq(SUBSET Node)
  <2>1. <<S>> \in Seq(SUBSET Node) /\ <<>> \in Seq(SUBSET Node)
    OBVIOUS
  <2> QED
    BY <2>1 DEF Batches
<1> QED
  BY <1>1, <1>2 DEF Requeued

LEMMA AppendType ==
    ASSUME NEW T, NEW q \in Seq(T), NEW e \in T
    PROVE  Append(q, e) \in Seq(T)
OBVIOUS

LEMMA PartitionTypeInit == PartitionInit => PartitionTypeOK
BY Numbers DEF PartitionInit, PartitionTypeOK, Node, Pair, Group

LEMMA PartitionTypeStep ==
    PartitionTypeOK /\ [PartitionNext]_partitionVars => PartitionTypeOK'
<1> SUFFICES ASSUME PartitionTypeOK, [PartitionNext]_partitionVars
             PROVE  PartitionTypeOK'
  OBVIOUS
<1> USE DEF PartitionTypeOK, Group, searchVars
<1>0. Node \subseteq Nat /\ Bucket \subseteq Nat /\ \A b : Bucketed(b) \subseteq Node
  BY Numbers DEF Node, Bucket, Bucketed
<1>1. CASE Bucketise
  <2>1. /\ edge' \subseteq Pair /\ bucket' \in [Node -> Nat]
        /\ kept' \subseteq Bucket /\ bag' \subseteq Node /\ stage' = "next"
    BY <1>0, <1>1 DEF Bucketise
  <2> QED
    BY <2>1, <1>1 DEF Bucketise
<1>2. ASSUME NEW b \in Bucket, Whole(b) PROVE PartitionTypeOK'
  <2>1. Group(b, Bucketed(b)) \in [of : Bucket \cup {0}, members : SUBSET Node]
    BY <1>0
  <2> QED
    BY <1>2, <2>1 DEF Whole
<1>3. ASSUME NEW b \in Bucket, Split(b) PROVE PartitionTypeOK'
  BY <1>3 DEF Split
<1>4. ASSUME NEW n \in Node, Seed(n) PROVE PartitionTypeOK'
  BY <1>4 DEF Seed
<1>5. ASSUME NEW n \in Node, Visit(n) PROVE PartitionTypeOK'
  <2>1. /\ queue # <<>> /\ queue' = Requeued(queue, Head(queue) \ {n}, Neighbours(n))
        /\ UNCHANGED <<edge, bucket, stage, task, kept, bag, truncated>>
        /\ seen' = seen \cup Marked(n)
        /\ \/ groups' = Append(groups, Group(task, part \cup {n})) /\ part' = {}
           \/ part' = part \cup {n} /\ groups' = groups
    BY <1>5 DEF Visit, Requeued
  <2>2. Head(queue) \ {n} \in SUBSET Node /\ Neighbours(n) \in SUBSET Node
    BY <1>0, <2>1 DEF Neighbours
  <2>3. queue' \in Seq(SUBSET Node)
    BY <2>1, <2>2, RequeuedType
  <2>4. Marked(n) \subseteq Node /\ part \cup {n} \subseteq Node
    BY <2>2 DEF Marked
  <2>5. groups' \in Seq([of : Bucket \cup {0}, members : SUBSET Node])
    <3>1. Group(task, part \cup {n}) \in [of : Bucket \cup {0}, members : SUBSET Node]
      BY <2>4
    <3>2. Append(groups, Group(task, part \cup {n})) \in Seq([of : Bucket \cup {0}, members : SUBSET Node])
      BY <3>1, AppendType DEF PartitionTypeOK
    <3> QED
      BY <2>1, <3>2
  <2> QED
    BY <2>1, <2>3, <2>4, <2>5
<1>6. CASE EndSplit
  <2>1. groups' \in Seq([of : Bucket \cup {0}, members : SUBSET Node])
    <3>1. Group(task, part) \in [of : Bucket \cup {0}, members : SUBSET Node]
      OBVIOUS
    <3>2. Append(groups, Group(task, part)) \in Seq([of : Bucket \cup {0}, members : SUBSET Node])
      BY <3>1, AppendType
    <3> QED
      BY <1>6, <3>2 DEF EndSplit
  <2> QED
    BY <1>6, <2>1 DEF EndSplit
<1>7. ASSUME NEW S \in SUBSET bag, Residual(S) PROVE PartitionTypeOK'
  <2>1. groups' \in Seq([of : Bucket \cup {0}, members : SUBSET Node])
    <3>1. Group(0, S) \in [of : Bucket \cup {0}, members : SUBSET Node]
      BY <1>7
    <3> QED
      BY <1>7, <3>1 DEF Residual
  <2> QED
    BY <1>7, <2>1 DEF Residual
<1>8. CASE Truncate
  <2>1. groups' \in Seq([of : Bucket \cup {0}, members : SUBSET Node]) /\ truncated' \in Nat
    BY <1>8, Numbers DEF Truncate
  <2> QED
    BY <1>8, <2>1 DEF Truncate
<1>9. CASE UNCHANGED partitionVars
  BY <1>9 DEF partitionVars
<1> QED
  BY <1>1, <1>2, <1>3, <1>4, <1>5, <1>6, <1>7, <1>8, <1>9 DEF PartitionNext

(* The variables of the partition keep their types. *)
THEOREM PartitionTypeCorrect == PartitionSpec => []PartitionTypeOK
<1>1. PartitionInit => PartitionTypeOK
  BY PartitionTypeInit
<1>2. PartitionTypeOK /\ [PartitionNext]_partitionVars => PartitionTypeOK'
  BY PartitionTypeStep
<1> QED
  BY <1>1, <1>2, PTL DEF PartitionSpec

-----------------------------------------------------------------------------
(* The groups. *)

MembersOf(gs) == UNION {gs[i].members : i \in 1..Len(gs)}

Packed(gs) ==
    /\ \A i, j \in 1..Len(gs) : i # j => gs[i].members \cap gs[j].members = {}
    /\ \A i \in 1..Len(gs) : Cardinality(gs[i].members) \in 1..PacketSize

LEMMA AppendPacked ==
    ASSUME NEW T, NEW gs \in Seq(T), Packed(gs), NEW g \in T,
           g.members \cap MembersOf(gs) = {},
           Cardinality(g.members) \in 1..PacketSize
    PROVE  /\ Packed(Append(gs, g))
           /\ MembersOf(Append(gs, g)) = MembersOf(gs) \cup g.members
<1> DEFINE r == Append(gs, g)
<1>1. /\ Len(gs) \in Nat /\ Len(r) = Len(gs) + 1 /\ r[Len(r)] = g
      /\ \A i \in 1..Len(gs) : r[i] = gs[i]
  OBVIOUS
<1>2. \A i \in 1..Len(gs) : gs[i].members \cap g.members = {}
  BY DEF MembersOf
<1> HIDE DEF r
<1>3. Packed(r)
  <2>1. \A i \in 1..Len(r) : i \in 1..Len(gs) \/ i = Len(r)
    BY <1>1
  <2>2. \A i \in 1..Len(r) : Cardinality(r[i].members) \in 1..PacketSize
    BY <1>1, <2>1 DEF Packed
  <2>3. \A i, j \in 1..Len(r) : i # j => r[i].members \cap r[j].members = {}
    BY <1>1, <1>2, <2>1 DEF Packed
  <2> QED
    BY <2>2, <2>3 DEF Packed
<1>4. ASSUME NEW x PROVE x \in MembersOf(r) <=> x \in MembersOf(gs) \cup g.members
  <2>1. x \in MembersOf(r) <=> \E i \in 1..Len(r) : x \in r[i].members
    BY DEF MembersOf
  <2>2. (\E i \in 1..Len(r) : x \in r[i].members)
        <=> x \in g.members \/ \E i \in 1..Len(gs) : x \in gs[i].members
    BY <1>1
  <2> QED
    BY <2>1, <2>2 DEF MembersOf
<1> QED
  BY <1>3, <1>4 DEF r

(* A member more is one more, and a set that has a member is not of size 0. *)
LEMMA Sizes ==
    ASSUME NEW S \in SUBSET Node
    PROVE  /\ Cardinality(S) \in Nat
           /\ Cardinality(S) = 0 <=> S = {}
           /\ \A n \in Node \ S : Cardinality(S \cup {n}) = Cardinality(S) + 1
<1>1. IsFiniteSet(S)
  BY NodesFinite
<1> QED
  BY <1>1, FS_CardinalityType, FS_EmptySet, FS_AddElement

-----------------------------------------------------------------------------
(* The ledger. *)

(* The components that neither a bucket that is left nor the bag holds.     *)
Settled == {n \in Node : bucket[n] \notin kept /\ n \notin bag}

(* Seen, and yet to be put in a group.                                      *)
Unplaced == part \cup InSome(queue)

Ledger ==
    /\ stage = "idle" => groups = <<>>
    /\ stage # "split" => queue = <<>> /\ part = {}
    /\ stage # "done" => truncated = 0
    /\ \A b \in kept : Bucketed(b) # {}
    /\ \A n \in bag : bucket[n] \notin kept
    /\ stage = "next" => Grouped = Settled
    /\ stage = "split" =>
         /\ task \in kept
         /\ seen \subseteq Bucketed(task) /\ Unplaced \subseteq seen
         /\ Apart(queue) /\ part \cap InSome(queue) = {}
         /\ Cardinality(part) < PacketSize
         /\ Grouped = Settled \cup (seen \ Unplaced)

PacketIInv == PartitionTypeOK /\ Ledger /\ EachOnce

LEMMA EachOncePacked == EachOnce => Packed(groups)
BY DEF EachOnce, Packed

LEMMA PacketInit == PartitionInit => PacketIInv
<1> SUFFICES ASSUME PartitionInit PROVE PacketIInv
  OBVIOUS
<1>1. /\ groups = <<>> /\ stage = "idle" /\ queue = <<>> /\ part = {}
      /\ kept = {} /\ bag = {} /\ truncated = 0
  BY DEF PartitionInit
<1>2. Ledger
  BY <1>1 DEF Ledger
<1>3. EachOnce
  BY <1>1 DEF EachOnce
<1> QED
  BY <1>2, <1>3, PartitionTypeInit DEF PacketIInv

(* A step that appends one group, of components that are in none.           *)
LEMMA GroupAdded ==
    ASSUME PacketIInv, stage # "done", stage' # "done", NEW b \in Bucket \cup {0},
           NEW S \in SUBSET Node, groups' = Append(groups, Group(b, S)),
           S \cap Grouped = {}, S # {}, Cardinality(S) <= PacketSize
    PROVE  EachOnce' /\ Grouped' = Grouped \cup S
<1> DEFINE T == [of : Bucket \cup {0}, members : SUBSET Node]
           g == Group(b, S)
<1>1. groups \in Seq(T)
  BY DEF PacketIInv, PartitionTypeOK
<1>2. g \in T /\ g.members = S
  BY DEF Group
<1>3. Cardinality(S) \in 1..PacketSize
  BY Sizes, Numbers
<1>4. Packed(groups) /\ Grouped = MembersOf(groups)
  BY EachOncePacked DEF PacketIInv, Grouped, MembersOf
<1> HIDE DEF T, g
<1>5. /\ Packed(Append(groups, g))
      /\ MembersOf(Append(groups, g)) = MembersOf(groups) \cup S
  BY <1>1, <1>2, <1>3, <1>4, AppendPacked
<1>6. Packed(groups') /\ Grouped' = Grouped \cup S
  BY <1>4, <1>5 DEF g, Grouped, MembersOf
<1> QED
  BY <1>6 DEF EachOnce, Packed

LEMMA PacketStep == PacketIInv /\ [PartitionNext]_partitionVars => PacketIInv'
<1> SUFFICES ASSUME PacketIInv, [PartitionNext]_partitionVars PROVE PacketIInv'
  OBVIOUS
<1>0. PartitionTypeOK /\ PartitionTypeOK' /\ Ledger /\ EachOnce
  BY PartitionTypeStep DEF PacketIInv
<1> SUFFICES Ledger' /\ EachOnce'
  BY <1>0 DEF PacketIInv
<1> USE DEF searchVars
<1>e. InSome(<<>>) = {}
  BY DEF InSome
<1>1. CASE Bucketise
  <2>1. /\ groups' = <<>> /\ queue' = <<>> /\ part' = {} /\ truncated' = 0
        /\ stage' = "next" /\ bag' = {n \in Node : bucket'[n] \notin kept'}
        /\ kept' = {b \in Bucket : Cardinality({n \in Node : bucket'[n] = b}) >= MinGroup}
    BY <1>0, <1>1 DEF Bucketise, Ledger
  <2>2. EachOnce'
    BY <2>1 DEF EachOnce
  <2>3. Grouped' = {} /\ Settled' = {}
    BY <2>1 DEF Grouped, Settled
  <2>4. ASSUME NEW b \in kept' PROVE Bucketed(b)' # {}
    <3>1. Cardinality(Bucketed(b)') >= MinGroup
      BY <2>1, <2>4 DEF Bucketed
    <3>2. Bucketed(b)' \in SUBSET Node
      BY DEF Bucketed
    <3> QED
      BY <3>1, <3>2, Sizes, Numbers
  <2> QED
    BY <2>1, <2>2, <2>3, <2>4 DEF Ledger
<1>2. ASSUME NEW b \in Bucket, Whole(b) PROVE Ledger' /\ EachOnce'
  <2>1. /\ b \in kept /\ stage = "next" /\ stage' = "next" /\ kept' = kept \ {b}
        /\ bag' = bag /\ bucket' = bucket /\ queue' = queue /\ part' = part
        /\ truncated' = truncated /\ Cardinality(Bucketed(b)) <= PacketSize
        /\ groups' = Append(groups, Group(b, Bucketed(b)))
    BY <1>2 DEF Whole, NextBucket, Size
  <2>2. Bucketed(b) \in SUBSET Node /\ Bucketed(b) \cap Grouped = {} /\ Bucketed(b) # {}
    BY <1>0, <2>1 DEF Ledger, Settled, Bucketed
  <2>3. EachOnce' /\ Grouped' = Grouped \cup Bucketed(b)
    BY <2>1, <2>2, GroupAdded
  <2>4. Settled' = Settled \cup Bucketed(b)
    BY <1>0, <2>1 DEF Ledger, Settled, Bucketed
  <2>5. \A c \in kept' : Bucketed(c)' # {}
    BY <1>0, <2>1 DEF Ledger, Bucketed
  <2> QED
    BY <1>0, <2>1, <2>3, <2>4, <2>5 DEF Ledger
<1>3. ASSUME NEW b \in Bucket, Split(b) PROVE Ledger' /\ EachOnce'
  <2>1. /\ b \in kept /\ stage = "next" /\ stage' = "split" /\ task' = b /\ seen' = {}
        /\ bag' = bag /\ bucket' = bucket /\ queue' = <<>> /\ part' = {}
        /\ kept' = kept /\ groups' = groups /\ truncated' = truncated
    BY <1>0, <1>3 DEF Split, NextBucket, Ledger
  <2>2. EachOnce'
    BY <1>0, <2>1 DEF EachOnce
  <2>3. Grouped' = Grouped /\ Settled' = Settled /\ Unplaced' = {}
    BY <1>e, <2>1 DEF Grouped, Settled, Unplaced
  <2>4. \A c \in kept' : Bucketed(c)' # {}
    BY <1>0, <2>1 DEF Ledger, Bucketed
  <2>5. Apart(queue)' /\ InSome(queue)' = {} /\ Cardinality(part') < PacketSize
    BY <1>e, <2>1, Numbers, FS_EmptySet DEF Apart
  <2> QED
    BY <1>0, <2>1, <2>2, <2>3, <2>4, <2>5 DEF Ledger
<1>4. ASSUME NEW n \in Node, Seed(n) PROVE Ledger' /\ EachOnce'
  <2>1. /\ stage = "split" /\ stage' = "split" /\ queue = <<>> /\ queue' = <<{n}>>
        /\ n \in Bucketed(task) \ seen /\ seen' = seen \cup {n}
        /\ task' = task /\ kept' = kept /\ bag' = bag /\ bucket' = bucket
        /\ part' = part /\ groups' = groups /\ truncated' = truncated
    BY <1>4 DEF Seed, Least
  <2>2. EachOnce'
    BY <1>0, <2>1 DEF EachOnce
  <2>3. Grouped' = Grouped /\ Settled' = Settled /\ Bucketed(task)' = Bucketed(task)
    BY <2>1 DEF Grouped, Settled, Bucketed
  <2>4. InSome(queue) = {} /\ InSome(queue)' = {n} /\ Apart(queue)'
    BY <1>e, <2>1 DEF InSome, Apart
  <2>5. \A c \in kept' : Bucketed(c)' # {}
    BY <1>0, <2>1 DEF Ledger, Bucketed
  <2>6. Unplaced = part /\ Unplaced' = part \cup {n} /\ part \subseteq seen
    BY <1>0, <2>1, <2>4 DEF Unplaced, Ledger
  <2> QED
    BY <1>0, <2>1, <2>2, <2>3, <2>4, <2>5, <2>6 DEF Ledger
<1>5. ASSUME NEW n \in Node, Visit(n) PROVE Ledger' /\ EachOnce'
  <2> DEFINE N == Neighbours(n)
  <2>1. /\ stage = "split" /\ stage' = "split" /\ queue # <<>> /\ n \in queue[1]
        /\ queue' = Requeued(queue, queue[1] \ {n}, N) /\ seen' = seen \cup N
        /\ task' = task /\ kept' = kept /\ bag' = bag /\ bucket' = bucket
        /\ truncated' = truncated
        /\ IF Fills(part \cup {n})
           THEN groups' = Append(groups, Group(task, part \cup {n})) /\ part' = {}
           ELSE part' = part \cup {n} /\ groups' = groups
    BY <1>0, <1>5 DEF Visit, Requeued, Least, Marked, PartitionTypeOK
  <2>2. /\ task \in kept /\ seen \subseteq Bucketed(task) /\ Unplaced \subseteq seen
        /\ Apart(queue) /\ part \cap InSome(queue) = {}
        /\ Cardinality(part) < PacketSize
        /\ Grouped = Settled \cup (seen \ Unplaced)
    BY <1>0, <2>1 DEF Ledger
  <2>3. /\ n \in InSome(queue) /\ queue[1] \subseteq InSome(queue)
        /\ N \subseteq Bucketed(task) \ seen
    <3>1. queue \in Seq(SUBSET Node) /\ queue # <<>>
      BY <1>0, <2>1 DEF PartitionTypeOK
    <3>2. 1 \in 1..Len(queue)
      BY <3>1
    <3> QED
      BY <2>1, <3>2 DEF InSome, Neighbours
  <2> HIDE DEF N
  <2>4. /\ Apart(queue)' /\ InSome(queue)' = (InSome(queue) \ {n}) \cup N
    <3>1. /\ queue \in Seq(SUBSET Node) /\ queue # <<>> /\ Apart(queue)
          /\ N \in SUBSET Node /\ N \cap InSome(queue) = {}
      BY <1>0, <2>1, <2>2, <2>3 DEF PartitionTypeOK, Unplaced, Bucketed
    <3>2. n \in queue[1]
      BY <2>1
    <3>3. /\ Apart(Requeued(queue, queue[1] \ {n}, N))
          /\ InSome(Requeued(queue, queue[1] \ {n}, N)) = (InSome(queue) \ {n}) \cup N
      BY <3>1, <3>2, VisitedQueue
    <3> QED
      BY <2>1, <3>3
  <2>5. Settled' = Settled /\ Bucketed(task)' = Bucketed(task)
        /\ \A c \in kept' : Bucketed(c)' # {}
    BY <1>0, <2>1 DEF Settled, Ledger, Bucketed
  <2>6. part \cup {n} \in SUBSET Node /\ n \notin part
        /\ Cardinality(part \cup {n}) = Cardinality(part) + 1
        /\ Cardinality(part \cup {n}) <= PacketSize
    <3>1. n \notin part /\ part \in SUBSET Node
      BY <1>0, <2>2, <2>3 DEF PartitionTypeOK
    <3> QED
      BY <2>2, <3>1, Sizes, Numbers
  <2>7. (part \cup {n}) \cap Grouped = {}
    BY <1>0, <2>2, <2>3 DEF Unplaced, Settled, Bucketed
  <2>10. /\ stage' = "split" /\ task' \in kept' /\ truncated' = 0
         /\ seen' \subseteq Bucketed(task)' /\ \A c \in kept' : Bucketed(c)' # {}
         /\ \A m \in bag' : bucket'[m] \notin kept'
    BY <1>0, <2>1, <2>2, <2>3, <2>5 DEF Ledger
  <2>8. CASE Fills(part \cup {n})
    <3>1. groups' = Append(groups, Group(task, part \cup {n})) /\ part' = {}
      BY <2>1, <2>8
    <3>2. EachOnce' /\ Grouped' = Grouped \cup (part \cup {n})
      BY <1>0, <2>1, <2>6, <2>7, <3>1, GroupAdded DEF PartitionTypeOK, PacketIInv
    <3>3. Unplaced' = (InSome(queue) \ {n}) \cup N
      BY <2>4, <3>1 DEF Unplaced
    <3>4. Grouped' = Settled' \cup (seen' \ Unplaced')
      BY <2>1, <2>2, <2>3, <2>5, <3>2, <3>3 DEF Unplaced
    <3>5. Cardinality(part') < PacketSize
      BY <3>1, Numbers, FS_EmptySet
    <3>6. part' \cap InSome(queue)' = {} /\ Unplaced' \subseteq seen'
      BY <2>1, <2>2, <2>4, <3>1, <3>3 DEF Unplaced
    <3>7. Apart(queue)'
      BY <2>4
    <3> QED
      BY <2>10, <3>2, <3>4, <3>5, <3>6, <3>7 DEF Ledger
  <2>9. CASE ~Fills(part \cup {n})
    <3>1. groups' = groups /\ part' = part \cup {n}
      BY <2>1, <2>9
    <3>2. EachOnce' /\ Grouped' = Grouped
      BY <1>0, <2>1, <3>1 DEF EachOnce, Grouped
    <3>3. Unplaced' = Unplaced \cup N
      BY <2>3, <2>4, <3>1 DEF Unplaced
    <3>4. Grouped' = Settled' \cup (seen' \ Unplaced')
      BY <2>1, <2>2, <2>3, <2>5, <3>2, <3>3 DEF Unplaced
    <3>5. Cardinality(part') < PacketSize
      BY <2>6, <2>9, <3>1, Sizes, Numbers DEF Fills
    <3>6. part' \cap InSome(queue)' = {} /\ Unplaced' \subseteq seen'
      BY <2>1, <2>2, <2>3, <2>4, <3>1, <3>3 DEF Unplaced
    <3> QED
      BY <2>4, <2>10, <3>2, <3>4, <3>5, <3>6 DEF Ledger
  <2> QED
    BY <2>8, <2>9
<1>6. CASE EndSplit
  <2>1. /\ stage = "split" /\ stage' = "next" /\ queue = <<>> /\ queue' = <<>>
        /\ Bucketed(task) \subseteq seen /\ part' = {} /\ kept' = kept \ {task}
        /\ bag' = bag /\ bucket' = bucket /\ truncated' = truncated
        /\ groups' = IF part = {} THEN groups ELSE Append(groups, Group(task, part))
    BY <1>6 DEF EndSplit
  <2>2. /\ task \in kept /\ seen = Bucketed(task) /\ part \subseteq seen
        /\ Cardinality(part) < PacketSize
        /\ Grouped = Settled \cup (seen \ part)
    BY <1>0, <1>e, <2>1 DEF Ledger, Unplaced
  <2>3. Settled' = Settled \cup Bucketed(task)
        /\ \A c \in kept' : Bucketed(c)' # {}
    BY <1>0, <2>1, <2>2 DEF Settled, Ledger, Bucketed
  <2>4. part \in SUBSET Node /\ part \cap Grouped = {}
    BY <1>0, <2>2 DEF PartitionTypeOK, Settled, Bucketed
  <2>5. EachOnce' /\ Grouped' = Grouped \cup part
    <3>1. CASE part = {}
      BY <1>0, <2>1, <3>1 DEF EachOnce, Grouped
    <3>2. CASE part # {}
      <4>1. Cardinality(part) <= PacketSize
        BY <2>2, <2>4, Sizes, Numbers
      <4>2. groups' = Append(groups, Group(task, part)) /\ task \in Bucket \cup {0}
        BY <1>0, <2>1, <3>2 DEF PartitionTypeOK
      <4> QED
        BY <1>0, <2>1, <2>4, <3>2, <4>1, <4>2, GroupAdded
    <3> QED
      BY <3>1, <3>2
  <2>6. Grouped' = Settled'
    BY <2>2, <2>3, <2>5
  <2> QED
    BY <1>0, <2>1, <2>3, <2>5, <2>6 DEF Ledger
<1>7. ASSUME NEW S \in SUBSET bag, Residual(S) PROVE Ledger' /\ EachOnce'
  <2>1. /\ stage = "next" /\ stage' = "next" /\ S # {} /\ Cardinality(S) <= PacketSize
        /\ bag' = bag \ S /\ kept' = kept /\ bucket' = bucket
        /\ queue' = queue /\ part' = part /\ truncated' = truncated
        /\ groups' = Append(groups, Group(0, S))
    BY <1>7, Numbers DEF Residual
  <2>2. S \in SUBSET Node /\ S \cap Grouped = {}
    BY <1>0, <2>1 DEF PartitionTypeOK, Ledger, Settled
  <2>3. EachOnce' /\ Grouped' = Grouped \cup S
    BY <2>1, <2>2, GroupAdded
  <2>4. Settled' = Settled \cup S /\ \A c \in kept' : Bucketed(c)' # {}
    BY <1>0, <2>1, <2>2 DEF Ledger, Settled, Bucketed
  <2> QED
    BY <1>0, <2>1, <2>3, <2>4 DEF Ledger
<1>8. CASE Truncate
  <2>1. /\ stage = "next" /\ stage' = "done" /\ kept = {} /\ bag = {}
        /\ kept' = kept /\ bag' = bag /\ bucket' = bucket
        /\ queue' = queue /\ part' = part /\ Grouped = Node
    BY <1>0, <1>8 DEF Truncate, Ledger, Settled
  <2>2. EachOnce'
    <3>1. CASE Len(groups) > MaxPackets
      <4>1. /\ groups' = SubSeq(groups, 1, MaxPackets) /\ Len(groups) \in Nat
            /\ truncated' = Len(groups) - MaxPackets /\ groups \in Seq([of : Bucket \cup {0}, members : SUBSET Node])
        BY <1>0, <1>8, <3>1 DEF Truncate, PartitionTypeOK
      <4>2. truncated' # 0
        BY <3>1, <4>1, Numbers
      <4>3. Len(groups') = MaxPackets /\ \A i \in 1..MaxPackets : groups'[i] = groups[i]
        BY <3>1, <4>1, Numbers
      <4>4. \A i \in 1..MaxPackets : i \in 1..Len(groups)
        BY <3>1, <4>1, Numbers
      <4>5. \A i \in 1..MaxPackets : Cardinality(groups'[i].members) \in 1..PacketSize
        BY <1>0, <4>3, <4>4 DEF EachOnce
      <4>6. \A i, j \in 1..MaxPackets : i # j => groups'[i].members \cap groups'[j].members = {}
        BY <1>0, <4>3, <4>4 DEF EachOnce
      <4>7. Len(groups') <= MaxPackets
        BY <4>3, Numbers
      <4> QED
        BY <4>2, <4>3, <4>5, <4>6, <4>7 DEF EachOnce
    <3>2. CASE ~(Len(groups) > MaxPackets)
      <4>1. groups' = groups /\ Len(groups) \in Nat /\ Grouped' = Grouped
        BY <1>0, <1>8, <3>2 DEF Truncate, PartitionTypeOK, Grouped
      <4>2. Len(groups) <= MaxPackets
        BY <3>2, <4>1, Numbers
      <4> QED
        BY <1>0, <2>1, <4>1, <4>2 DEF EachOnce
    <3> QED
      BY <3>1, <3>2
  <2> QED
    BY <1>0, <2>1, <2>2 DEF Ledger
<1>9. CASE UNCHANGED partitionVars
  <2>1. UNCHANGED <<edge, bucket, stage, task, kept, bag, seen, queue, part, groups, truncated>>
    BY <1>9 DEF partitionVars
  <2>2. Ledger'
    BY <1>0, <2>1 DEF Ledger, Grouped, Settled, Unplaced, Bucketed, InSome, Apart
  <2>3. EachOnce'
    BY <1>0, <2>1 DEF EachOnce, Grouped
  <2> QED
    BY <2>2, <2>3
<1> QED
  BY <1>1, <1>2, <1>3, <1>4, <1>5, <1>6, <1>7, <1>8, <1>9 DEF PartitionNext

(* No agent is sent a component twice, no packet is empty or over its size,  *)
(* and a component that is in none was dropped with a group that is counted. *)
THEOREM PacketsShareNothing == PartitionSpec => []EachOnce
<1>1. PartitionInit => PacketIInv
  BY PacketInit
<1>2. PacketIInv /\ [PartitionNext]_partitionVars => PacketIInv'
  BY PacketStep
<1>3. PacketIInv => EachOnce
  BY DEF PacketIInv
<1> QED
  BY <1>1, <1>2, <1>3, PTL DEF PartitionSpec

-----------------------------------------------------------------------------
(* The first part of a bucket. *)

(* The property, of a sequence of groups. *)
FirstsConnected(gs) ==
    \A i \in 1..Len(gs) :
        gs[i].of # 0 /\ (\A j \in 1..i - 1 : gs[j].of # gs[i].of)
        /\ Connected(Bucketed(gs[i].of)) => Connected(gs[i].members)
NoGroupOf(gs, b) == \A i \in 1..Len(gs) : gs[i].of # b

(* A bucket that is kept has no group yet, but for the one being split; the *)
(* search of a connected one that has none has put aside nothing of what it *)
(* has seen, and each component in its queue is next to one of the part.    *)
KeptHasNone ==
    /\ stage = "next" => \A b \in kept : NoGroupOf(groups, b)
    /\ stage = "split" => \A b \in kept \ {task} : NoGroupOf(groups, b)
Grows ==
    /\ Connected(part) /\ seen = Unplaced
    /\ part = {} => \A m, k \in seen : m = k
    /\ part # {} => \A m \in InSome(queue) : \E k \in part : {k, m} \in edge
    /\ \A k \in part, m \in Bucketed(task) : {k, m} \in edge => m \in seen
FirstGrows ==
    stage = "split" /\ NoGroupOf(groups, task) /\ Connected(Bucketed(task)) => Grows

FirstIInv == PacketIInv /\ KeptHasNone /\ FirstGrows /\ FirstPartConnected

LEMMA FirstsAre ==
    /\ FirstPartConnected <=> FirstsConnected(groups)
    /\ edge' = edge /\ bucket' = bucket =>
          (FirstPartConnected' <=> FirstsConnected(groups'))
<1>1. FirstPartConnected <=> FirstsConnected(groups)
  BY DEF FirstPartConnected, FirstsConnected
<1>2. ASSUME edge' = edge, bucket' = bucket
      PROVE  FirstPartConnected' <=> FirstsConnected(groups')
  BY <1>2 DEF FirstPartConnected, FirstsConnected, Connected, Bucketed
<1> QED
  BY <1>1, <1>2

(* One component more that has a neighbour in the set. *)
LEMMA OneMoreConnected ==
    ASSUME NEW S, Connected(S), NEW n, S = {} \/ \E k \in S : {k, n} \in edge
    PROVE  Connected(S \cup {n})
<1> SUFFICES ASSUME NEW A \in SUBSET (S \cup {n}), A # {}, A # S \cup {n}
             PROVE  \E i \in A, j \in (S \cup {n}) \ A : {i, j} \in edge
  BY DEF Connected
<1>0. S # {}
  OBVIOUS
<1>1. PICK k \in S : {k, n} \in edge
  BY <1>0
<1>2. {n, k} = {k, n}
  OBVIOUS
<1>3. CASE A \cap S = {}
  BY <1>1, <1>2, <1>3
<1>4. CASE S \subseteq A
  BY <1>1, <1>4
<1>5. CASE A \cap S # {} /\ ~(S \subseteq A)
  <2>1. A \cap S \in SUBSET S /\ A \cap S # {} /\ A \cap S # S
    BY <1>5
  <2>2. PICK i \in A \cap S, j \in S \ (A \cap S) : {i, j} \in edge
    BY <2>1 DEF Connected
  <2> QED
    BY <2>2
<1> QED
  BY <1>3, <1>4, <1>5

(* A step that appends one group. *)
LEMMA FirstAdded ==
    ASSUME PacketIInv, FirstPartConnected, edge' = edge, bucket' = bucket,
           NEW b \in Bucket \cup {0}, NEW S \in SUBSET Node,
           groups' = Append(groups, Group(b, S)),
           b # 0 /\ NoGroupOf(groups, b) /\ Connected(Bucketed(b)) => Connected(S)
    PROVE  /\ FirstPartConnected'
           /\ \A c : c # b /\ NoGroupOf(groups, c) => NoGroupOf(groups', c)
           /\ ~NoGroupOf(groups', b)
<1> DEFINE r == groups'
           g == Group(b, S)
           T == [of : Bucket \cup {0}, members : SUBSET Node]
<1>1. groups \in Seq(T) /\ g \in T
  BY DEF PacketIInv, PartitionTypeOK, Group
<1> HIDE DEF T, g
<1>2. /\ Len(groups) \in Nat /\ Len(r) = Len(groups) + 1 /\ r[Len(r)] = g
      /\ \A i \in 1..Len(groups) : r[i] = groups[i]
  BY <1>1 DEF g
<1>3. g.of = b /\ g.members = S
  BY DEF g, Group
<1>4. FirstsConnected(groups)
  BY FirstsAre
<1> HIDE DEF r
<1>5. \A i \in 1..Len(r) : i \in 1..Len(groups) \/ i = Len(r)
  BY <1>2
<1>6. ASSUME NEW i \in 1..Len(r), r[i].of # 0, \A j \in 1..i - 1 : r[j].of # r[i].of,
             Connected(Bucketed(r[i].of))
      PROVE  Connected(r[i].members)
  <2>1. CASE i \in 1..Len(groups)
    <3>1. r[i] = groups[i] /\ \A j \in 1..i - 1 : r[j] = groups[j]
      BY <1>2, <2>1
    <3> QED
      BY <1>4, <1>6, <2>1, <3>1 DEF FirstsConnected
  <2>2. CASE i = Len(r)
    <3>1. r[i] = g /\ \A j \in 1..Len(groups) : j \in 1..i - 1 /\ r[j] = groups[j]
      BY <1>2, <2>2
    <3>2. NoGroupOf(groups, b)
      BY <1>3, <1>6, <3>1 DEF NoGroupOf
    <3> QED
      BY <1>3, <1>6, <3>1, <3>2
  <2> QED
    BY <1>5, <2>1, <2>2
<1>7. FirstsConnected(r)
  BY <1>6 DEF FirstsConnected
<1>8. ASSUME NEW c, c # b, NoGroupOf(groups, c) PROVE NoGroupOf(r, c)
  BY <1>2, <1>3, <1>5, <1>8 DEF NoGroupOf
<1>9. ~NoGroupOf(r, b)
  <2>1. Len(r) \in 1..Len(r)
    BY <1>2
  <2> QED
    BY <1>2, <1>3, <2>1 DEF NoGroupOf
<1> QED
  BY <1>7, <1>8, <1>9, FirstsAre DEF r
LEMMA FirstInit == PartitionInit => FirstIInv
<1> SUFFICES ASSUME PartitionInit PROVE FirstIInv
  OBVIOUS
<1>1. stage = "idle" /\ groups = <<>>
  BY DEF PartitionInit
<1>2. KeptHasNone /\ FirstGrows
  BY <1>1 DEF KeptHasNone, FirstGrows
<1>3. FirstPartConnected
  BY <1>1 DEF FirstPartConnected
<1> QED
  BY <1>2, <1>3, PacketInit DEF FirstIInv

LEMMA FirstStep == FirstIInv /\ [PartitionNext]_partitionVars => FirstIInv'
<1> SUFFICES ASSUME FirstIInv, [PartitionNext]_partitionVars
             PROVE  KeptHasNone' /\ FirstGrows' /\ FirstPartConnected'
  BY PacketStep DEF FirstIInv
<1>0. PartitionTypeOK /\ PartitionTypeOK' /\ PacketIInv /\ Ledger
      /\ KeptHasNone /\ FirstGrows /\ FirstPartConnected
  BY PartitionTypeStep DEF FirstIInv, PacketIInv
<1> USE DEF searchVars
<1>e. InSome(<<>>) = {}
  BY DEF InSome
<1>b. kept \subseteq Bucket /\ 0 \notin Bucket
  BY <1>0, Numbers DEF PartitionTypeOK, Bucket
<1>1. CASE Bucketise
  <2>1. groups' = <<>> /\ stage' = "next"
    BY <1>0, <1>1 DEF Bucketise, Ledger
  <2> QED
    BY <2>1 DEF KeptHasNone, FirstGrows, FirstPartConnected, NoGroupOf
<1>2. ASSUME NEW b \in Bucket, Whole(b)
      PROVE  KeptHasNone' /\ FirstGrows' /\ FirstPartConnected'
  <2>1. /\ b \in kept /\ stage = "next" /\ stage' = "next" /\ kept' = kept \ {b}
        /\ edge' = edge /\ bucket' = bucket
        /\ groups' = Append(groups, Group(b, Bucketed(b)))
    BY <1>2 DEF Whole, NextBucket
  <2>2. Bucketed(b) \in SUBSET Node
    BY DEF Bucketed
  <2>3. /\ FirstPartConnected'
        /\ \A c : c # b /\ NoGroupOf(groups, c) => NoGroupOf(groups', c)
    BY <1>0, <2>1, <2>2, FirstAdded
  <2>4. KeptHasNone'
    BY <1>0, <2>1, <2>3 DEF KeptHasNone
  <2> QED
    BY <2>1, <2>3, <2>4 DEF FirstGrows
<1>3. ASSUME NEW b \in Bucket, Split(b)
      PROVE  KeptHasNone' /\ FirstGrows' /\ FirstPartConnected'
  <2>1. /\ b \in kept /\ stage = "next" /\ stage' = "split" /\ task' = b /\ seen' = {}
        /\ edge' = edge /\ bucket' = bucket /\ queue' = <<>> /\ part' = {}
        /\ kept' = kept /\ groups' = groups
    BY <1>0, <1>3 DEF Split, NextBucket, Ledger
  <2>2. Unplaced' = {} /\ InSome(queue)' = {}
    BY <1>e, <2>1 DEF Unplaced
  <2>3. Connected(part)'
    BY <2>1 DEF Connected
  <2>4. Grows'
    BY <2>1, <2>2, <2>3 DEF Grows
  <2>5. KeptHasNone'
    BY <1>0, <2>1 DEF KeptHasNone
  <2>6. FirstPartConnected'
    BY <1>0, <2>1, FirstsAre
  <2> QED
    BY <2>4, <2>5, <2>6 DEF FirstGrows
<1>4. ASSUME NEW n \in Node, Seed(n)
      PROVE  KeptHasNone' /\ FirstGrows' /\ FirstPartConnected'
  <2>1. /\ stage = "split" /\ stage' = "split" /\ queue = <<>> /\ queue' = <<{n}>>
        /\ n \in Bucketed(task) \ seen /\ seen' = seen \cup {n}
        /\ task' = task /\ kept' = kept /\ edge' = edge /\ bucket' = bucket
        /\ part' = part /\ groups' = groups
    BY <1>4 DEF Seed, Least
  <2>2. KeptHasNone'
    BY <1>0, <2>1 DEF KeptHasNone
  <2>3. FirstPartConnected'
    BY <1>0, <2>1, FirstsAre
  <2>4. ASSUME NoGroupOf(groups, task), Connected(Bucketed(task)) PROVE Grows'
    <3>1. Grows /\ part = seen
      BY <1>0, <1>e, <2>1, <2>4 DEF FirstGrows, Grows, Unplaced
    <3>2. part = {}
      <4> SUFFICES ASSUME part # {} PROVE FALSE
        OBVIOUS
      <4>1. part \in SUBSET Bucketed(task) /\ part # Bucketed(task)
        BY <1>0, <2>1, <3>1 DEF Ledger
      <4>2. PICK i \in part, j \in Bucketed(task) \ part : {i, j} \in edge
        BY <2>4, <4>1 DEF Connected
      <4> QED
        BY <3>1, <4>2 DEF Grows
    <3>3. InSome(queue)' = {n} /\ Unplaced' = {n} /\ seen' = {n} /\ part' = {}
      BY <2>1, <3>1, <3>2 DEF InSome, Unplaced
    <3>4. Connected(part)'
      BY <3>3 DEF Connected
    <3> QED
      BY <3>3, <3>4 DEF Grows
  <2>5. NoGroupOf(groups, task)' /\ Connected(Bucketed(task))' =>
        NoGroupOf(groups, task) /\ Connected(Bucketed(task))
    BY <2>1 DEF NoGroupOf, Connected, Bucketed
  <2> QED
    BY <2>2, <2>3, <2>4, <2>5 DEF FirstGrows
<1>5. ASSUME NEW n \in Node, Visit(n)
      PROVE  KeptHasNone' /\ FirstGrows' /\ FirstPartConnected'
  <2> DEFINE N == Neighbours(n)
  <2>1. /\ stage = "split" /\ stage' = "split" /\ queue # <<>> /\ n \in queue[1]
        /\ queue' = Requeued(queue, queue[1] \ {n}, N) /\ seen' = seen \cup N
        /\ task' = task /\ kept' = kept /\ edge' = edge /\ bucket' = bucket
        /\ IF Fills(part \cup {n})
           THEN groups' = Append(groups, Group(task, part \cup {n})) /\ part' = {}
           ELSE part' = part \cup {n} /\ groups' = groups
    BY <1>0, <1>5 DEF Visit, Requeued, Least, Marked, PartitionTypeOK
  <2>2. /\ task \in kept /\ seen \subseteq Bucketed(task) /\ Unplaced \subseteq seen
        /\ Apart(queue) /\ task \in Bucket
    BY <1>0, <1>b, <2>1 DEF Ledger
  <2>3. /\ n \in InSome(queue) /\ queue \in Seq(SUBSET Node)
        /\ N = {m \in Bucketed(task) \ seen : {n, m} \in edge}
    <3>1. queue \in Seq(SUBSET Node) /\ queue # <<>>
      BY <1>0, <2>1 DEF PartitionTypeOK
    <3>2. 1 \in 1..Len(queue)
      BY <3>1
    <3> QED
      BY <2>1, <3>1, <3>2 DEF InSome, Neighbours
  <2> HIDE DEF N
  <2>4. InSome(queue)' = (InSome(queue) \ {n}) \cup N
    <3>1. N \in SUBSET Node /\ N \cap InSome(queue) = {}
      BY <2>2, <2>3 DEF Unplaced, Bucketed
    <3>2. InSome(Requeued(queue, queue[1] \ {n}, N)) = (InSome(queue) \ {n}) \cup N
      BY <2>1, <2>2, <2>3, <3>1, VisitedQueue
    <3> QED
      BY <2>1, <3>2
  <2>5. ASSUME NoGroupOf(groups, task), Connected(Bucketed(task))
        PROVE  Grows /\ Connected(part \cup {n})
    <3>1. Grows
      BY <1>0, <2>1, <2>5 DEF FirstGrows
    <3>2. part = {} \/ \E k \in part : {k, n} \in edge
      BY <2>3, <3>1 DEF Grows
    <3> QED
      BY <3>1, <3>2, OneMoreConnected DEF Grows
  <2>6. CASE Fills(part \cup {n})
    <3>1. groups' = Append(groups, Group(task, part \cup {n}))
      BY <2>1, <2>6
    <3>2. part \cup {n} \in SUBSET Node
      BY <1>0 DEF PartitionTypeOK
    <3>3. /\ FirstPartConnected' /\ ~NoGroupOf(groups', task)
          /\ \A c : c # task /\ NoGroupOf(groups, c) => NoGroupOf(groups', c)
      BY <1>0, <2>1, <2>2, <2>5, <3>1, <3>2, FirstAdded
    <3>4. KeptHasNone'
      BY <1>0, <2>1, <3>3 DEF KeptHasNone
    <3>5. FirstGrows'
      BY <2>1, <3>3 DEF FirstGrows
    <3> QED
      BY <3>3, <3>4, <3>5
  <2>7. CASE ~Fills(part \cup {n})
    <3>1. groups' = groups /\ part' = part \cup {n}
      BY <2>1, <2>7
    <3>2. KeptHasNone'
      BY <1>0, <2>1, <3>1 DEF KeptHasNone
    <3>3. FirstPartConnected'
      BY <1>0, <2>1, <3>1, FirstsAre
    <3>4. ASSUME NoGroupOf(groups, task), Connected(Bucketed(task)) PROVE Grows'
      <4>1. Grows
        BY <2>5, <3>4
      <4>2. Connected(part)'
        <5>1. Connected(part \cup {n})
          BY <2>5, <3>4
        <5> QED
          BY <2>1, <3>1, <5>1 DEF Connected
      <4>3. seen' = Unplaced'
        <5>1. seen = part \cup InSome(queue)
          BY <4>1 DEF Grows, Unplaced
        <5>2. Unplaced' = part' \cup InSome(queue)'
          BY DEF Unplaced
        <5> QED
          BY <2>1, <2>3, <2>4, <3>1, <5>1, <5>2
      <4>4. \A m \in InSome(queue)' : \E k \in part' : {k, m} \in edge
        <5>1. ASSUME NEW m \in InSome(queue) \ {n} PROVE \E k \in part : {k, m} \in edge
          <6>1. m \in seen /\ n \in seen
            BY <2>2, <2>3 DEF Unplaced
          <6> QED
            BY <4>1, <6>1 DEF Grows
        <5>2. \A m \in N : {n, m} \in edge
          BY <2>3
        <5> QED
          BY <2>4, <3>1, <5>1, <5>2
      <4>5. \A k \in part', m \in Bucketed(task) : {k, m} \in edge => m \in seen'
        BY <2>1, <2>3, <3>1, <4>1 DEF Grows
      <4>6. part' # {} /\ Bucketed(task)' = Bucketed(task)
        BY <2>1, <3>1 DEF Bucketed
      <4> QED
        BY <2>1, <4>2, <4>3, <4>4, <4>5, <4>6 DEF Grows
    <3>5. NoGroupOf(groups, task)' /\ Connected(Bucketed(task))' =>
          NoGroupOf(groups, task) /\ Connected(Bucketed(task))
      BY <2>1, <3>1 DEF NoGroupOf, Connected, Bucketed
    <3> QED
      BY <3>2, <3>3, <3>4, <3>5 DEF FirstGrows
  <2> QED
    BY <2>6, <2>7
<1>6. CASE EndSplit
  <2>1. /\ stage = "split" /\ stage' = "next" /\ kept' = kept \ {task}
        /\ edge' = edge /\ bucket' = bucket
        /\ groups' = IF part = {} THEN groups ELSE Append(groups, Group(task, part))
    BY <1>6 DEF EndSplit
  <2>2. task \in Bucket /\ part \in SUBSET Node
    BY <1>0, <1>b, <2>1 DEF Ledger, PartitionTypeOK
  <2>3. /\ FirstPartConnected'
        /\ \A c : c # task /\ NoGroupOf(groups, c) => NoGroupOf(groups', c)
    <3>1. CASE part = {}
      BY <1>0, <2>1, <3>1, FirstsAre
    <3>2. CASE part # {}
      <4>1. groups' = Append(groups, Group(task, part))
        BY <2>1, <3>2
      <4>2. NoGroupOf(groups, task) /\ Connected(Bucketed(task)) => Connected(part)
        BY <1>0, <2>1 DEF FirstGrows, Grows
      <4> QED
        BY <1>0, <2>1, <2>2, <4>1, <4>2, FirstAdded
    <3> QED
      BY <3>1, <3>2
  <2>4. KeptHasNone'
    BY <1>0, <2>1, <2>3 DEF KeptHasNone
  <2> QED
    BY <2>1, <2>3, <2>4 DEF FirstGrows
<1>7. ASSUME NEW S \in SUBSET bag, Residual(S)
      PROVE  KeptHasNone' /\ FirstGrows' /\ FirstPartConnected'
  <2>1. /\ stage' = "next" /\ kept' = {} /\ edge' = edge /\ bucket' = bucket
        /\ groups' = Append(groups, Group(0, S))
    BY <1>7 DEF Residual
  <2>2. S \in SUBSET Node
    BY <1>0 DEF PartitionTypeOK
  <2>3. FirstPartConnected'
    BY <1>0, <2>1, <2>2, FirstAdded
  <2> QED
    BY <2>1, <2>3 DEF KeptHasNone, FirstGrows
<1>8. CASE Truncate
  <2>1. stage' = "done" /\ edge' = edge /\ bucket' = bucket
    BY <1>8 DEF Truncate
  <2>2. FirstsConnected(groups')
    <3>1. CASE Len(groups) > MaxPackets
      <4>1. /\ groups' = SubSeq(groups, 1, MaxPackets) /\ Len(groups) \in Nat
            /\ groups \in Seq([of : Bucket \cup {0}, members : SUBSET Node])
        BY <1>0, <1>8, <3>1 DEF Truncate, PartitionTypeOK
      <4>2. Len(groups') = MaxPackets /\ \A i \in 1..MaxPackets : groups'[i] = groups[i]
        BY <3>1, <4>1, Numbers
      <4>3. \A i \in 1..MaxPackets : i \in 1..Len(groups)
        BY <3>1, <4>1, Numbers
      <4>4. \A i \in 1..MaxPackets : \A j \in 1..i - 1 : j \in 1..MaxPackets
        BY Numbers
      <4> QED
        BY <1>0, <4>2, <4>3, <4>4, FirstsAre DEF FirstsConnected
    <3>2. CASE ~(Len(groups) > MaxPackets)
      BY <1>0, <1>8, <3>2, FirstsAre DEF Truncate
    <3> QED
      BY <3>1, <3>2
  <2>3. FirstPartConnected'
    BY <2>1, <2>2, FirstsAre
  <2> QED
    BY <2>1, <2>3 DEF KeptHasNone, FirstGrows
<1>9. CASE UNCHANGED partitionVars
  <2>1. UNCHANGED <<edge, bucket, stage, task, kept, seen, queue, part, groups>>
    BY <1>9 DEF partitionVars
  <2>2. FirstPartConnected' /\ KeptHasNone'
    BY <1>0, <2>1, FirstsAre DEF KeptHasNone
  <2>3. FirstGrows'
    <3>1. Unplaced' = Unplaced /\ InSome(queue)' = InSome(queue)
          /\ Bucketed(task)' = Bucketed(task)
      BY <2>1 DEF Unplaced, InSome, Bucketed
    <3>2. /\ Connected(part)' <=> Connected(part)
          /\ Connected(Bucketed(task))' => Connected(Bucketed(task))
      BY <2>1, <3>1 DEF Connected
    <3>3. Grows => Grows'
      BY <2>1, <3>1, <3>2 DEF Grows
    <3>4. NoGroupOf(groups, task)' => NoGroupOf(groups, task)
      BY <2>1 DEF NoGroupOf
    <3> QED
      BY <1>0, <2>1, <3>2, <3>3, <3>4 DEF FirstGrows
  <2> QED
    BY <2>2, <2>3
<1> QED
  BY <1>1, <1>2, <1>3, <1>4, <1>5, <1>6, <1>7, <1>8, <1>9 DEF PartitionNext

(* The first part that splitConnected makes of a connected bucket is         *)
(* connected, whatever the graph and the sizes; later ones need not be.      *)
THEOREM FirstIsConnected == PartitionSpec => []FirstPartConnected
<1>1. FirstIInv => FirstPartConnected
  BY DEF FirstIInv
<1> QED
  BY <1>1, FirstInit, FirstStep, PTL DEF PartitionSpec
=============================================================================
