-------------------------------- MODULE MCTabs --------------------------------
(* Small instances for TLC of two parts of the dashboard that requests and the     *)
(* API's own calls drive: the ref-counted subscriptions, and the TTL Live page.    *)
(* A behaviour is of one of the two; the other stands still.                       *)
EXTENDS MCPubSubBridge, MCTtlLive

VARIABLE scene
tabsVars == <<vars, ttlVars, scene>>

InBridge == scene = "bridge" /\ UNCHANGED <<ttlVars, scene>>
InTtl    == scene = "ttl" /\ UNCHANGED <<vars, scene>>

TabsInit == scene \in {"bridge", "ttl"} /\ Init /\ TtlInit

TabsNext == (InBridge /\ Next) \/ (InTtl /\ TtlNext)

\* FairSpec of the bridge in its scene, TtlFairSpec in the other: the calls of the module
\* and the fade timers are finitely many, so that fairness to all is fairness to each.
TabsSpec ==
  /\ TabsInit
  /\ [][TabsNext]_tabsVars
  /\ WF_tabsVars(InBridge /\ (Boot \/ Destroyed \/ \E e \in Entry : Settle(e)))
  /\ \A t \in Tab : WF_tabsVars(InBridge /\ Serve(t))
  /\ WF_tabsVars(InTtl /\ Requests)
  /\ WF_tabsVars(InTtl /\ Frame)
  /\ WF_tabsVars(InTtl /\ Commit)
  /\ WF_tabsVars(InTtl /\ \E k \in Key : FadeEnd(k))
===============================================================================
