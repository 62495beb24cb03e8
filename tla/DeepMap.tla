------------------------------- MODULE DeepMap -------------------------------
(***************************************************************************)
(* Deep-map runs (src/deep-map, cli/commands/deep-map.ts).                 *)
(*                                                                         *)
(* `plan` writes work packets into a run's directory, then the manifest    *)
(* that lists them, then latest.json; a host hands the packets to agents;  *)
(* each agent leaves a result file beside its packet; `ingest` validates   *)
(* the results against the packets and the current scan and rewrites       *)
(* findings.jsonl and ingest.json; `status` counts.  A plan may continue a *)
(* run with another tier.  Nothing is locked, packet ids are ordinals that *)
(* a second plan of a tier uses again, and component ids are minted anew   *)
(* by a scan.  Each file is written atomically, one step each, and the     *)
(* command may be killed before any of them.                               *)
(*                                                                         *)
(* A packet is its scope and (history) the plan that wrote it; a result    *)
(* has one finding, about some component; prompts, caps on size and the    *)
(* checks of a finding's form are left out.                                *)
(***************************************************************************)
EXTENDS Integers, FiniteSets

CONSTANTS
    Planner, Agent, Ingester,  \* processes
    Component,                 \* what a scan finds
    TierChoices,               \* the sets of tiers that a plan may be asked for
    MaxDeep,                   \* the most components that tier 2 looks into
    MaxOrdinal,                \* the largest ordinal that fits a packet id (999)
    MaxRun, MaxPlan, MaxScan,  \* bounds on runs, plans and scans
    MaxChange,                 \* a bound on plans and rescans together
    Kills                      \* TRUE if a command may be killed

ASSUME TierAssumption == TierChoices \subseteq (SUBSET {1, 2, 3}) \ {{}}
ASSUME DeepMapBoundAssumption ==
    /\ MaxDeep \in Nat
    /\ {MaxOrdinal, MaxRun, MaxPlan, MaxScan, MaxChange} \subseteq Nat \ {0}
ASSUME KillAssumption == Kills \in BOOLEAN

VARIABLES
    scan,      \* the number of the current scan
    packet,    \* packets/<id>.json of each run: [scope, plan]
    result,    \* packets/<id>.result.json: [about, plan]
    manifest,  \* each run's manifest.json: {} or {the packets it lists}
    latest,    \* the run in latest.json; 0 if there is none
    findings,  \* findings.jsonl of each run
    account,   \* each run's ingest.json: {} or {the number of findings}
    plans,     \* the plans started
    planner, agent, ingester,  \* the state of each command
    reported,  \* (history) the packets that finished plans told the host of
    blame      \* (history) what has happened to each run

fileVars == <<packet, result, manifest, latest, findings, account>>
deepMapVars == <<scan, fileVars, plans, planner, agent, ingester, reported, blame>>

Run == 1..MaxRun
(* A component id is minted by a scan. *)
Id == Component \X (1..MaxScan)
Known(s) == Component \X {s}
Empty == [k \in {} |-> 0]
With(f, k, v) == [x \in DOMAIN f \cup {k} |-> IF x = k THEN v ELSE f[x]]
Both(f, g) == [x \in DOMAIN f \cup DOMAIN g |-> IF x \in DOMAIN f THEN f[x] ELSE g[x]]
Blame(r, what) == blame' = [blame EXCEPT ![r] = @ \cup {what}]

Planned == {r \in Run : manifest[r] # {}}
Listed(r) == UNION manifest[r]
NewRuns == {r \in Run : /\ manifest[r] = {} /\ packet[r] = Empty
                        /\ \A p \in Planner : planner[p].run # r}

Idle == [at |-> "idle", run |-> 0]

DeepMapInit ==
    /\ scan = 1
    /\ packet = [r \in Run |-> Empty]
    /\ result = [r \in Run |-> Empty]
    /\ manifest = [r \in Run |-> {}]
    /\ latest = 0
    /\ findings = [r \in Run |-> {}]
    /\ account = [r \in Run |-> {}]
    /\ plans = 0
    /\ planner = [p \in Planner |-> Idle]
    /\ agent = [a \in Agent |-> Idle]
    /\ ingester = [i \in Ingester |-> Idle]
    /\ reported = {}
    /\ blame = [r \in Run |-> {}]

-----------------------------------------------------------------------------
(* plan. *)

(* The packets of each tier, as a function from their ids, which are        *)
(* ordinals, to their scopes: groups of components, a component each, and   *)
(* the components that are escalated or have findings.                      *)
Ids(tier, n) == {tier} \X (1..n)
Tier1(ids) ==
    UNION {{g \in [Ids(1, n) -> (SUBSET ids) \ {{}}] :
              \A j, k \in Ids(1, n) : j # k => g[j] \cap g[k] = {}} :
           n \in 1..Cardinality(ids)}
Tier2(ids) ==
    UNION {{g \in [Ids(2, n) -> {{c} : c \in ids}] :
              \A j, k \in Ids(2, n) : j # k => g[j] # g[k]} : n \in 0..MaxDeep}
Tier3(deep, ids, found) ==
    [k \in Ids(3, 1) |-> (UNION {deep[j] : j \in DOMAIN deep})
                          \cup ({f.about : f \in found} \cap ids)]
Packets(tiers, ids, found) ==
    {Both(g, Both(h, IF 3 \in tiers THEN Tier3(h, ids, found) ELSE Empty)) :
     g \in IF 1 \in tiers THEN Tier1(ids) ELSE {Empty},
     h \in IF 2 \in tiers THEN Tier2(ids) ELSE {Empty}}

(* runPlan loads the scan. *)
PlanLoad(p) ==
    \E tiers \in TierChoices, asked \in Planned \cup {0} :
        /\ planner[p] = Idle
        /\ plans < MaxPlan /\ plans + scan <= MaxChange
        /\ plans' = plans + 1
        /\ planner' = [planner EXCEPT ![p] =
             [at |-> "read", run |-> asked, tiers |-> tiers, known |-> scan,
              plan |-> plans + 1]]
        /\ UNCHANGED <<scan, fileVars, agent, ingester, reported, blame>>

(* It reads the manifest of the run it continues and, for tier 3, findings. *)
PlanRead(p) ==
    LET me == planner[p]
        source == IF me.run # 0 THEN me.run ELSE latest
        found == IF source = 0 THEN {} ELSE findings[source]
    IN
    /\ me.at = "read"
    /\ IF 3 \in me.tiers /\ found = {} THEN planner' = [planner EXCEPT ![p] = Idle]
       ELSE \E todo \in Packets(me.tiers, Known(me.known), found),
               r \in IF me.run # 0 THEN {me.run} ELSE NewRuns :
              /\ me.run = 0 => \A q \in NewRuns : r <= q
              /\ planner' = [planner EXCEPT ![p] =
                   [at |-> "write", run |-> r, plan |-> me.plan, todo |-> todo,
                    ids |-> DOMAIN todo, base |-> manifest[r]]]
    /\ UNCHANGED <<scan, fileVars, plans, agent, ingester, reported, blame>>

Precedes(j, k) == j[1] < k[1] \/ (j[1] = k[1] /\ j[2] < k[2])

WritePacket(p) ==
    LET me == planner[p] IN
    /\ me.at = "write"
    /\ \E k \in DOMAIN me.todo :
         /\ k[2] <= MaxOrdinal
         /\ \A j \in DOMAIN me.todo \ {k} : Precedes(k, j)
         /\ packet' = [packet EXCEPT ![me.run] =
              With(@, k, [scope |-> me.todo[k], plan |-> me.plan])]
         /\ planner' = [planner EXCEPT ![p].todo =
              [j \in DOMAIN me.todo \ {k} |-> me.todo[j]]]
         /\ IF k \in DOMAIN packet[me.run] THEN Blame(me.run, "replanned")
            ELSE UNCHANGED blame
    /\ UNCHANGED <<scan, result, manifest, latest, findings, account, plans,
                   agent, ingester, reported>>

(* Mutant: a packet that cannot be written is skipped. *)
RefusePacketSkips(p) ==
    LET me == planner[p] IN
    /\ me.at = "write"
    /\ \E k \in DOMAIN me.todo :
         /\ k[2] > MaxOrdinal /\ \A j \in DOMAIN me.todo \ {k} : Precedes(k, j)
         /\ planner' = [planner EXCEPT ![p].todo =
              [j \in DOMAIN me.todo \ {k} |-> me.todo[j]]]
    /\ UNCHANGED <<scan, fileVars, plans, agent, ingester, reported, blame>>
(* writePacket throws at an id it takes to be invalid, and the plan fails.   *)
RefusePacket(p) ==
    LET me == planner[p] IN
    /\ me.at = "write"
    /\ \E k \in DOMAIN me.todo :
         k[2] > MaxOrdinal /\ \A j \in DOMAIN me.todo \ {k} : Precedes(k, j)
    /\ Blame(me.run, "refused")
    /\ planner' = [planner EXCEPT ![p] = Idle]
    /\ UNCHANGED <<scan, fileVars, plans, agent, ingester, reported>>

(* Mutant: a plan that continues a run lists only its own packets. *)
MergedOwn(me) == me.ids
(* The packets of earlier tiers stay listed. *)
Merged(me) == (UNION me.base) \cup me.ids

WriteManifest(p) ==
    LET me == planner[p] IN
    /\ me.at = "write" /\ me.todo = Empty
    /\ manifest' = [manifest EXCEPT ![me.run] = {Merged(me)}]
    /\ IF manifest[me.run] = me.base THEN UNCHANGED blame
       ELSE Blame(me.run, "overlapped")
    /\ planner' = [planner EXCEPT ![p] =
         [at |-> "latest", run |-> me.run, ids |-> me.ids]]
    /\ UNCHANGED <<scan, packet, result, latest, findings, account, plans,
                   agent, ingester, reported>>

(* writeLatest, and the plan is printed. *)
WriteLatest(p) ==
    LET me == planner[p] IN
    /\ me.at = "latest"
    /\ latest' = me.run
    /\ reported' = reported \cup {<<me.run, k>> : k \in me.ids}
    /\ planner' = [planner EXCEPT ![p] = Idle]
    /\ UNCHANGED <<scan, packet, result, manifest, findings, account, plans,
                   agent, ingester, blame>>

KillPlan(p) ==
    LET me == planner[p] IN
    /\ Kills /\ me.at \in {"write", "latest"}
    /\ Blame(me.run, "killed")
    /\ planner' = [planner EXCEPT ![p] = Idle]
    /\ UNCHANGED <<scan, fileVars, plans, agent, ingester, reported>>

-----------------------------------------------------------------------------
(* The host's agents. *)

Take(a) ==
    \E rk \in reported :
        /\ agent[a] = Idle
        /\ agent' = [agent EXCEPT ![a] =
             [at |-> "busy", run |-> rk[1], id |-> rk[2],
              plan |-> packet[rk[1]][rk[2]].plan]]
        /\ UNCHANGED <<scan, fileVars, plans, planner, ingester, reported, blame>>

(* An agent may name any component there ever was. *)
Answer(a) ==
    LET me == agent[a] IN
    \E c \in Id :
        /\ me.at = "busy"
        /\ c[2] <= scan
        /\ result' = [result EXCEPT ![me.run] =
             With(@, me.id, [about |-> c, plan |-> me.plan])]
        /\ agent' = [agent EXCEPT ![a] = Idle]
        /\ IF me.id \in DOMAIN result[me.run] THEN Blame(me.run, "answered again")
           ELSE UNCHANGED blame
        /\ UNCHANGED <<scan, packet, manifest, latest, findings, account,
                       plans, planner, ingester, reported>>

(* A full scan mints new ids. *)
Rescan ==
    /\ scan < MaxScan /\ plans + scan <= MaxChange
    /\ scan' = scan + 1
    /\ UNCHANGED <<fileVars, plans, planner, agent, ingester, reported, blame>>

-----------------------------------------------------------------------------
(* ingest. *)

Answered(r) == DOMAIN packet[r] \cap DOMAIN result[r]

(* Mutant: only the packets of the last plan are looked at. *)
PacketsReadLast(r) ==
    LET last == {k \in DOMAIN packet[r] :
                   \A j \in DOMAIN packet[r] : packet[r][j].plan <= packet[r][k].plan}
    IN [k \in last |-> packet[r][k]]
PacketsRead(r) == packet[r]

(* runIngest: a run with a manifest and a result; loadTier0 and the packets. *)
IngestLoad(i) ==
    \E r \in Planned :
        /\ ingester[i] = Idle
        /\ Answered(r) # {}
        /\ ingester' = [ingester EXCEPT ![i] =
             [at |-> "results", run |-> r, known |-> scan, packets |-> PacketsRead(r)]]
        /\ UNCHANGED <<scan, fileVars, plans, planner, agent, reported, blame>>

(* validateOneFinding: the component is of the scan that was loaded, and    *)
(* one that the packet was about, unless the packet is of tier 3.           *)
Accepts(me, k, c) ==
    /\ c \in Known(me.known)
    /\ k[1] = 3 \/ c \in me.packets[k].scope

IngestResults(i) ==
    LET me == ingester[i]
        res == result[me.run]
    IN
    /\ me.at = "results"
    /\ ingester' = [ingester EXCEPT ![i] =
         [at |-> "findings", run |-> me.run,
          found |-> {[id |-> k, about |-> res[k].about] :
                     k \in {x \in DOMAIN me.packets \cap DOMAIN res :
                              Accepts(me, x, res[x].about)}}]]
    /\ UNCHANGED <<scan, fileVars, plans, planner, agent, reported, blame>>

(* Mutant: a run's findings are added to, not replaced. *)
RewrittenAdding(me) == findings[me.run] \cup me.found
Rewritten(me) == me.found

WriteFindings(i) ==
    LET me == ingester[i] IN
    /\ me.at = "findings"
    /\ findings' = [findings EXCEPT ![me.run] = Rewritten(me)]
    /\ ingester' = [ingester EXCEPT ![i].at = "account"]
    /\ IF \E j \in Ingester \ {i} : ingester[j].run = me.run
       THEN Blame(me.run, "ingests") ELSE UNCHANGED blame
    /\ UNCHANGED <<scan, packet, result, manifest, latest, account, plans,
                   planner, agent, reported>>

WriteAccount(i) ==
    LET me == ingester[i] IN
    /\ me.at = "account"
    /\ account' = [account EXCEPT ![me.run] = {Cardinality(me.found)}]
    /\ ingester' = [ingester EXCEPT ![i] = Idle]
    /\ UNCHANGED <<scan, packet, result, manifest, latest, findings, plans,
                   planner, agent, reported, blame>>

KillIngest(i) ==
    LET me == ingester[i] IN
    /\ Kills /\ me.at = "account"
    /\ Blame(me.run, "torn")
    /\ ingester' = [ingester EXCEPT ![i] = Idle]
    /\ UNCHANGED <<scan, fileVars, plans, planner, agent, reported>>

DeepMapNext ==
    \/ \E p \in Planner :
         \/ PlanLoad(p) \/ PlanRead(p) \/ WritePacket(p) \/ RefusePacket(p)
         \/ WriteManifest(p) \/ WriteLatest(p) \/ KillPlan(p)
    \/ \E a \in Agent : Take(a) \/ Answer(a)
    \/ \E i \in Ingester :
         \/ IngestLoad(i) \/ IngestResults(i)
         \/ WriteFindings(i) \/ WriteAccount(i) \/ KillIngest(i)
    \/ Rescan

DeepMapSpec == DeepMapInit /\ [][DeepMapNext]_deepMapVars

-----------------------------------------------------------------------------
(* status: planned packets less the packet files that have a result file.   *)
Pending(r) == Cardinality(Listed(r)) - Cardinality(Answered(r))
(* Every listed packet, as it was last planned, has been answered.          *)
FannedOut(r) ==
    \A k \in Listed(r) :
        k \in DOMAIN result[r] /\ result[r][k].plan = packet[r][k].plan

PacketId == {1, 2, 3} \X Nat
DeepMapTypeOK ==
    /\ scan \in 1..MaxScan /\ latest \in Run \cup {0} /\ plans \in 0..MaxPlan
    /\ \A r \in Run :
         /\ DOMAIN packet[r] \cup DOMAIN result[r] \subseteq PacketId
         /\ \A S \in manifest[r] : S \subseteq DOMAIN packet[r]
         /\ \A f \in findings[r] : f.about \in Id /\ f.id \in DOMAIN packet[r]
         /\ account[r] \subseteq Nat
    /\ latest # 0 => manifest[latest] # {}
    /\ reported \subseteq Run \X PacketId

AtRest == \A p \in Planner : planner[p] = Idle

(* "Is a fan-out actually done, or silently un-run?": while no plan is being *)
(* written, status reports nothing pending only when each listed packet, as  *)
(* it was last planned, has an answer.                                       *)
StatusIsDone ==
    \A r \in Planned : AtRest /\ Pending(r) <= 0 => FannedOut(r)

(* What status reports as pending is what was planned and has no answer yet, *)
(* whatever tiers were added, planned again, answered again and ingested in  *)
(* between, and even if a plan was killed or failed while it wrote: unless   *)
(* two plans of the run overlapped.                                          *)
StatusCounts ==
    \A r \in Planned :
        \/ Pending(r) = Cardinality(Listed(r) \ DOMAIN result[r])
        \/ "overlapped" \in blame[r]

(* What report joins agrees: the accounting counts the findings on file,     *)
(* unless an ingest is between its two writes, was killed there, or met      *)
(* another.                                                                  *)
AccountAddsUp ==
    \A r \in Run :
        \/ account[r] \in {{}, {Cardinality(findings[r])}}
        \/ \E i \in Ingester : ingester[i].run = r /\ ingester[i].at = "account"
        \/ blame[r] \cap {"torn", "ingests"} # {}

(* An accepted finding stays through later ingests, unless a scan has        *)
(* renamed its component, its packet was answered again or planned anew, or  *)
(* ingests overlapped.                                                       *)
AcceptedStays ==
    [][\A r \in Run : \A f \in findings[r] \ findings'[r] :
         \/ f.about[2] # scan
         \/ blame'[r] \cap {"answered again", "replanned", "ingests"} # {}]_deepMapVars
=============================================================================
