------------------------------ MODULE MCDashboard ------------------------------
(* Small instances for TLC of parts that share nothing: the key drawer, the TTL   *)
(* rings, the connection badge and the Pub/Sub page of a tab, and the life of the *)
(* API.  A behaviour is of one of them; the others stand still.                   *)
EXTENDS KeyDrawer, TtlRings, ConnectionStatus, PubSubFeed, ApiLifecycle

\* The default subscriptions: the demo channel's handler throws, the pattern covers both.
CONSTANTS exact, glob, demo, products, errors
Covered == [s \in {exact, glob, demo} |->
              IF s = exact THEN {products} ELSE IF s = demo THEN {errors} ELSE {products, errors}]

VARIABLE scene
badgeVars == <<conn, health, probe, probed, polled, missed>>
pageVars  == <<open, reachable, published, sending, card, cuts, whole>>
tabVars == <<drawerVars, ringVars, socketVars, badgeVars, pageVars>>
dashboardVars == <<tabVars, lifeVars, scene>>

DashboardInit ==
  /\ scene \in {"drawer", "ring", "status", "pubsub", "life"}
  /\ DrawerInit /\ RingInit /\ StatusInit /\ FeedInit /\ LifeInit
  \* One initial state of the parts that stand still.
  /\ scene # "drawer" => ttl = Absent
  /\ scene # "ring" => DrawerRing /\ real = Gone
  /\ scene # "life" => env = CHOOSE e \in Environment : TRUE

DashboardNext ==
  /\ UNCHANGED scene
  /\ \/ scene = "drawer" /\ DrawerNext /\ UNCHANGED <<ringVars, socketVars, badgeVars, pageVars, lifeVars>>
     \/ scene = "ring" /\ RingNext /\ UNCHANGED <<drawerVars, socketVars, badgeVars, pageVars, lifeVars>>
     \/ scene = "status" /\ StatusNext /\ UNCHANGED <<drawerVars, ringVars, pageVars, lifeVars>>
     \/ scene = "pubsub" /\ FeedNext /\ UNCHANGED <<drawerVars, ringVars, badgeVars, lifeVars>>
     \/ scene = "life" /\ LifeNext /\ UNCHANGED tabVars

DashboardSpec == DashboardInit /\ [][DashboardNext]_dashboardVars

\* Counters, phases and queues of the part under way stay in their ranges.
DashboardTypeOK ==
  /\ scene = "drawer" => DrawerTypeOK
  /\ scene = "ring" => RingTypeOK
  /\ scene = "status" => StatusTypeOK
  /\ scene = "pubsub" => FeedTypeOK
  /\ scene = "life" => LifeTypeOK

\* explorer/KeyDetailDrawer.tsx, TtlRing.tsx: an inspection shown as settled is of the
\* key as it is, and its TTL counts down with the key's.
InspectionsTrue == InspectionFresh /\ RingKeepsTime

\* pubsub.bridge.service.ts, ttl-events.service.ts: what the API forwards to the tabs
\* is what Redis sent it, in order and no more, and all of it when nothing was lost.
FeedsFaithful == FeedFaithful /\ (scene = "pubsub" => MessagesArrive)
=============================================================================
