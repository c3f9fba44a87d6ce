------------------------------ MODULE MCRequests ------------------------------
(* Small instances for TLC of two parts of the dashboard whose requests must      *)
(* come to an end: tabs that subscribe and unsubscribe, and a key listing with    *)
(* its mutations.  A behaviour is of one of the two; the other stands still.      *)
EXTENDS MCPubSubBridge, KeyListing

VARIABLE scene
requestVars == <<vars, listingVars, scene>>

InBridge == scene = "bridge" /\ UNCHANGED <<listingVars, scene>>
InListing == scene = "listing" /\ UNCHANGED <<vars, scene>>

RequestsInit ==
  /\ scene \in {"bridge", "listing"}
  /\ Init /\ ListingInit /\ (scene = "bridge" => present = {})

RequestsNext == (InBridge /\ Next) \/ (InListing /\ ListingNext)

\* FairSpec of the bridge in its scene, ListingFairness in the other.
RequestsSpec ==
  /\ RequestsInit
  /\ [][RequestsNext]_requestVars
  /\ WF_requestVars(InBridge /\ Boot)
  /\ WF_requestVars(InBridge /\ Destroyed)
  /\ \A e \in Entry : WF_requestVars(InBridge /\ Settle(e))
  /\ \A t \in Tab : WF_requestVars(InBridge /\ Serve(t))
  /\ WF_requestVars(InListing /\ ServePage)
  /\ WF_requestVars(InListing /\ Receive)
  /\ WF_requestVars(InListing /\ LoadMore)

\* The part under way stays in its ranges.
RequestsTypeOK == (scene = "bridge" => TypeOK) /\ (scene = "listing" => ListingTypeOK)

\* pubsub.controller.ts, use-keys.ts: no request leaves a page waiting for ever: each
\* POST and DELETE of a subscription is answered, and the paging of a listing ends.
RequestsEnd == EveryRequestAnswered /\ PagingEnds
=============================================================================
