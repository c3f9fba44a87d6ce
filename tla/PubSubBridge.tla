----------------------------- MODULE PubSubBridge -----------------------------
(***************************************************************************)
(* Ref-counted Pub/Sub subscriptions: PubSubBridgeService of apps/api, which *)
(* forwards library Pub/Sub messages to the WebSocket gateway, and the       *)
(* SubscriptionManager card of the dashboard that drives it over REST.       *)
(*                                                                         *)
(* A tab has one request under way at most (its buttons are disabled while   *)
(* the mutation is pending); the requests of several tabs interleave at the  *)
(* awaits of addSubscription and removeSubscription.  The library's listener *)
(* registry is external: subscribe adds one listener, and the Unsubscribe it *)
(* returns removes that listener, idempotently.                             *)
(***************************************************************************)
EXTENDS Integers, FiniteSets, Sequences

CONSTANTS
  Channel,     \* channel names and glob patterns, the keys of the Map
  Tab,         \* open dashboard tabs
  Row,         \* the <<channel, pattern>> pairs that are asked for
  Shown,       \* those of them a tab shows as rows; other clients of the API show none
  Defaults,    \* the rows onModuleInit subscribes, in order
  TakeTurns,   \* channels on which tabs wait for one another's answers
  Throwing,    \* channels whose library calls may throw after their effect
  MaxOpened,   \* bound: library listeners ever opened
  MaxRefs,     \* bound: a channel is not held more often
  MaxFaults    \* bound: library calls that throw

ASSUME BridgeAssumption ==
  /\ IsFiniteSet(Tab)
  /\ Row \subseteq Channel \X BOOLEAN /\ Shown \subseteq Row
  /\ Defaults \in Seq(Row)
  /\ Len(Defaults) \in 1..MaxOpened
  /\ \A i, j \in 1..Len(Defaults) : Defaults[i][1] = Defaults[j][1] => i = j
  /\ TakeTurns \subseteq Channel /\ Throwing \subseteq Channel
  /\ MaxOpened \in Nat /\ MaxRefs \in Nat /\ MaxFaults \in Nat

VARIABLES
  phase,    \* life of the Nest module
  subs,     \* the Map: the entry stored for each channel, or None
  opened,   \* entries made so far
  target,   \* the row an entry was opened for
  refs,     \* the ref count of an entry
  live,     \* the entries whose listener the library still serves
  closing,  \* the entries whose Unsubscribe onModuleDestroy awaits
  before,   \* history: entries made when onModuleDestroy was called
  strays,   \* history: listeners that no removal will stop, and the code lets be
  pc,       \* where each tab's request stands
  req,      \* the row that request is about
  held,     \* the entry a removal looked up before its await
  rows,     \* the ref count each tab shows per row
  faults    \* library calls that threw so far

vars == <<phase, subs, opened, target, refs, live, closing, before, strays,
          pc, req, held, rows, faults>>

-----------------------------------------------------------------------------
Entry == 1..MaxOpened
None  == 0

TypeOK ==
  /\ phase \in {"init", "up", "closing", "down"}
  /\ subs \in [Channel -> Entry \union {None}]
  /\ opened \in 0..MaxOpened
  /\ target \in [Entry -> Row]
  /\ refs \in [Entry -> Int]
  /\ live \subseteq 1..opened
  /\ closing \subseteq 1..opened
  /\ before \in 0..opened
  /\ strays \subseteq 1..opened
  /\ pc \in [Tab -> {"idle", "post", "delete", "subscribing", "unsubscribing"}]
  /\ req \in [Tab -> Row]
  /\ held \in [Tab -> Entry \union {None}]
  /\ rows \in [Tab -> [Shown -> Int]]
  /\ faults \in 0..MaxFaults
  /\ \A c \in Channel : subs[c] # None => subs[c] <= opened /\ target[subs[c]][1] = c

Init ==
  /\ phase = "init"
  /\ subs = [c \in Channel |-> None]
  /\ opened = 0
  /\ target = [e \in Entry |-> Defaults[1]]
  /\ refs = [e \in Entry |-> 0]
  /\ live = {}
  /\ closing = {} /\ before = 0 /\ strays = {}
  /\ pc = [t \in Tab |-> "idle"]
  /\ req = [t \in Tab |-> Defaults[1]]
  /\ held = [t \in Tab |-> None]
  /\ rows = [t \in Tab |-> [r \in Shown |-> 0]]
  /\ faults = 0

\* Is a request on channel c under way?
Pending(c) == \E t \in Tab : pc[t] # "idle" /\ req[t][1] = c

\* The library has resolved (p)subscribe: a listener, and its Map entry.
Open(r) ==
  /\ opened' = opened + 1
  /\ target' = [target EXCEPT ![opened + 1] = r]
  /\ refs' = [refs EXCEPT ![opened + 1] = 1]
  /\ live' = live \union {opened + 1}
  /\ subs' = [subs EXCEPT ![r[1]] = opened + 1]

\* A request ends, and with it what it held across its await.
Answer(t) ==
  /\ pc' = [pc EXCEPT ![t] = "idle"]
  /\ req' = [req EXCEPT ![t] = Defaults[1]]
  /\ held' = [held EXCEPT ![t] = None]

\* Mutant: an answer about a row the tab does not show adds that row.
BugNewRow(t, n, pattern) ==
  LET r == <<req[t][1], pattern>>
  IN  /\ Answer(t)
      /\ rows' = [rows EXCEPT ![t] = [q \in Shown \union {r} |-> IF q = r THEN n ELSE rows[t][q]]]

\* The answer {channel, refs, pattern} reaches the tab, which updates the row
\* of that channel and of the kind the answer names, if it shows one.
Reply(t, n, pattern) ==
  LET r == <<req[t][1], pattern>>
  IN  /\ Answer(t)
      /\ rows' = IF r \in Shown THEN [rows EXCEPT ![t][r] = n] ELSE rows

\* The bounds leave room for one more request that subscribes c.
Room(c) ==
  /\ opened + Cardinality({t \in Tab : pc[t] \in {"post", "subscribing"}}) < MaxOpened
  /\ subs[c] # None => refs[subs[c]] < MaxRefs

-----------------------------------------------------------------------------
\* onModuleInit: the default subscriptions, one after the other.
Boot ==
  /\ phase = "init"
  /\ Open(Defaults[opened + 1])
  /\ phase' = IF opened + 1 = Len(Defaults) THEN "up" ELSE "init"
  /\ UNCHANGED <<closing, before, strays, pc, req, held, rows, faults>>

\* A click on + or - of row r; the bridge serves it whether or not the module is
\* being destroyed.
Click(t, r, verb) ==
  /\ pc[t] = "idle"
  /\ phase # "init"
  /\ r[1] \in TakeTurns => ~Pending(r[1])
  /\ verb = "post" => Room(r[1])
  /\ pc' = [pc EXCEPT ![t] = verb]
  /\ req' = [req EXCEPT ![t] = r]
  /\ UNCHANGED <<phase, subs, opened, target, refs, live, closing, before, strays, held, rows, faults>>

\* addSubscription up to its await.
Join(t, e) ==
  /\ refs' = [refs EXCEPT ![e] = @ + 1]
  /\ Reply(t, refs[e] + 1, target[e][2])

CallSubscribe(t) ==
  /\ pc' = [pc EXCEPT ![t] = "subscribing"]
  /\ UNCHANGED <<refs, req, held, rows>>

\* Mutant: a new listener for every caller.
BugIgnoreExisting(t) ==
  /\ pc[t] = "post"
  /\ CallSubscribe(t)
  /\ UNCHANGED <<phase, subs, opened, target, live, closing, before, strays, faults>>

AddSubscription(t) ==
  LET existing == subs[req[t][1]]
  IN  /\ pc[t] = "post"
      /\ \/ existing # None /\ Join(t, existing)
         \/ existing = None /\ CallSubscribe(t)
      /\ UNCHANGED <<phase, subs, opened, target, live, closing, before, strays, faults>>

\* ... and after it.
Subscribed(t) ==
  /\ pc[t] = "subscribing"
  /\ Open(req[t])
  /\ Reply(t, 1, req[t][2])
  /\ UNCHANGED <<phase, closing, before, strays, faults>>

\* removeSubscription up to its await; a count that others still hold is the
\* answer, any other count takes the listener down.
Leave(t, e) ==
  /\ refs' = [refs EXCEPT ![e] = @ - 1]
  /\ \/ refs[e] > 1 /\ Reply(t, refs[e] - 1, target[e][2])
     \/ /\ refs[e] <= 1
        /\ pc' = [pc EXCEPT ![t] = "unsubscribing"]
        /\ held' = [held EXCEPT ![t] = e]
        /\ UNCHANGED <<req, rows>>

\* Mutant: the entry leaves the Map before its listener is gone.
BugDeleteFirst(t) ==
  LET existing == subs[req[t][1]]
  IN  /\ pc[t] = "delete"
      /\ existing # None
      /\ Leave(t, existing)
      /\ subs' = [subs EXCEPT ![req[t][1]] = IF refs[existing] > 1 THEN @ ELSE None]
      /\ UNCHANGED <<phase, opened, target, live, closing, before, strays, faults>>

RemoveSubscription(t) ==
  LET existing == subs[req[t][1]]
  IN  /\ pc[t] = "delete"
      /\ \/ existing # None /\ Leave(t, existing)
         \/ existing = None /\ Reply(t, 0, FALSE) /\ UNCHANGED refs
      /\ UNCHANGED <<phase, subs, opened, target, live, closing, before, strays, faults>>

\* Mutant: the entry stays in the Map.
BugNoDelete(t) ==
  /\ pc[t] = "unsubscribing"
  /\ live' = live \ {held[t]}
  /\ Reply(t, 0, target[held[t]][2])
  /\ UNCHANGED <<phase, subs, opened, target, refs, closing, before, strays, faults>>

\* ... and after it: subs.delete(channel), whatever entry is stored by now.
Unsubscribed(t) ==
  /\ pc[t] = "unsubscribing"
  /\ live' = live \ {held[t]}
  /\ subs' = [subs EXCEPT ![req[t][1]] = None]
  /\ Reply(t, 0, target[held[t]][2])
  /\ UNCHANGED <<phase, opened, target, refs, closing, before, strays, faults>>

\* Mutant: an error that is never answered.
BugSilentError(t) ==
  /\ pc' = [pc EXCEPT ![t] = "lost"]
  /\ UNCHANGED <<req, held, rows>>

\* The error answer: a toast, no row changes.
Throw(t) == Answer(t) /\ UNCHANGED rows

\* The library has added its listener before it throws: nothing refers to it.
Stray(t) ==
  /\ opened' = opened + 1
  /\ target' = [target EXCEPT ![opened + 1] = req[t]]
  /\ live' = live \union {opened + 1}
  /\ strays' = strays \union {opened + 1}

SubscribeThrows(t) ==
  /\ pc[t] = "subscribing"
  /\ faults < MaxFaults
  /\ faults' = faults + 1
  /\ Throw(t)
  /\ \/ UNCHANGED <<opened, target, live, strays>>
     \/ req[t][1] \in Throwing /\ Stray(t)
  /\ UNCHANGED <<phase, subs, refs, closing, before>>

\* The listener may be gone already; the entry stays, with its lowered count.
UnsubscribeThrows(t) ==
  /\ pc[t] = "unsubscribing"
  /\ req[t][1] \in Throwing
  /\ faults < MaxFaults
  /\ faults' = faults + 1
  /\ live' \in {live, live \ {held[t]}}
  /\ Throw(t)
  /\ UNCHANGED <<phase, subs, opened, target, refs, closing, before, strays>>

-----------------------------------------------------------------------------
Stored == {subs[c] : c \in Channel} \ {None}

\* Mutant: entries that nobody holds are not unsubscribed.
BugHeldOnly ==
  /\ phase = "up"
  /\ phase' = "closing"
  /\ closing' = {e \in Stored : refs[e] > 0}
  /\ before' = opened
  /\ UNCHANGED <<subs, opened, target, refs, live, strays, pc, req, held, rows, faults>>

\* onModuleDestroy: every stored Unsubscribe is called, whoever has a request under way.
Destroy ==
  /\ phase = "up"
  /\ phase' = "closing"
  /\ closing' = Stored
  /\ before' = opened
  /\ UNCHANGED <<subs, opened, target, refs, live, strays, pc, req, held, rows, faults>>

\* Each settles in its own time, and requests are served in between.
Settle(e) ==
  /\ e \in closing
  /\ closing' = closing \ {e}
  /\ \/ live' = live \ {e} /\ UNCHANGED strays
     \/ target[e][1] \in Throwing /\ strays' = strays \union {e} /\ UNCHANGED live
  /\ UNCHANGED <<phase, subs, opened, target, refs, before, pc, req, held, rows, faults>>

\* All have settled, whichever of them rejected: the Map is cleared, with the entries
\* that were added meanwhile.
Destroyed ==
  /\ phase = "closing" /\ closing = {}
  /\ phase' = "down"
  /\ subs' = [c \in Channel |-> None]
  /\ strays' = strays \union (Stored \intersect live)
  /\ UNCHANGED <<opened, target, refs, live, closing, before, pc, req, held, rows, faults>>

Serve(t) ==
  \/ AddSubscription(t) \/ Subscribed(t) \/ SubscribeThrows(t)
  \/ RemoveSubscription(t) \/ Unsubscribed(t) \/ UnsubscribeThrows(t)

Next ==
  \/ Boot \/ Destroy \/ Destroyed
  \/ \E e \in Entry : Settle(e)
  \/ \E t \in Tab : Serve(t)
  \/ \E t \in Tab, r \in Row, verb \in {"post", "delete"} : Click(t, r, verb)

Spec == Init /\ [][Next]_vars

\* Requests are served and library calls settle; tabs need not click, and the
\* module need not be destroyed.
Fairness ==
  /\ WF_vars(Boot)
  /\ WF_vars(Destroyed)
  /\ \A e \in Entry : WF_vars(Settle(e))
  /\ \A t \in Tab : WF_vars(Serve(t))

FairSpec == Spec /\ Fairness

-----------------------------------------------------------------------------
(* Properties *)

\* Channels whose callers take turns, and whose library calls do what they answer.
Orderly == TakeTurns \ Throwing

Listeners(c) == {e \in live : target[e][1] = c}

Agree(c) ==
  IF subs[c] = None THEN Listeners(c) = {}
                    ELSE Listeners(c) = {subs[c]} /\ refs[subs[c]] > 0

\* phase-08 P8-4, "The ref count is the app's mirror of the library's internal
\* ref-counting": until a shutdown, where callers take turns and the library's calls
\* do what they answer, a channel with a count has one listener between requests,
\* and a channel without an entry has none.
CountsAgree ==
  phase = "up" => \A c \in Orderly : ~Pending(c) => Agree(c)

\* The same agreement asked of every channel, whatever its callers do.
CountsAlwaysAgree ==
  phase = "up" => \A c \in Channel : ~Pending(c) => Agree(c)

\* removeSubscription: even when an Unsubscribe rejects, a listener that still
\* delivers is the stored one, so that a repeated DELETE can stop it; but for those
\* that a subscribe left which threw, or that a shutdown cleared or could not stop.
NoOrphanListener ==
  \A e \in live : target[e][1] \in TakeTurns => subs[target[e][1]] = e \/ e \in strays

\* onModuleDestroy, "All entries are attempted even if one rejects": of the listeners
\* there were when it was called, it leaves those whose own call rejected, whatever
\* was added and removed while it waited.
ShutdownStops ==
  [][phase = "closing" /\ phase' = "down" =>
       \A e \in live' : target[e][1] \in TakeTurns => e \in strays \/ e > before]_vars

\* pubsub.bridge.service.ts:103, "Tears down every active subscription on module
\* shutdown": also those added while it waits.
ShutdownTearsDown == [][phase = "closing" /\ phase' = "down" => live' \subseteq strays]_vars

\* pubsub.controller.ts: every POST and DELETE is answered, by a count or by an
\* error, and the tab's buttons come back.
EveryRequestAnswered == \A t \in Tab : pc[t] # "idle" ~> pc[t] = "idle"

\* SubscriptionManager.tsx:32, refs is "The last ref-count the server reported for
\* this channel": until a shutdown, a served request leaves the row it was clicked on
\* at the server's count.
RowShowsCount ==
  [][\A t \in Tab :
       /\ pc[t] # "idle" /\ pc'[t] = "idle"
       /\ phase' = "up" /\ faults' = faults /\ req[t] \in Shown
       => rows'[t][req[t]] = IF subs'[req[t][1]] = None THEN 0 ELSE refs'[subs'[req[t][1]]]]_vars

-----------------------------------------------------------------------------
(* Refinement *)

Stage == [init |-> "open", up |-> "open", closing |-> "closing", down |-> "closed"]

Holders == [c \in Orderly |-> IF subs[c] = None THEN 0 ELSE refs[subs[c]]]

\* The channels whose listener a shutdown has still to stop.
Due == {c \in Orderly : Listeners(c) \intersect closing # {}}

Counted == INSTANCE RefCounted
  WITH Channel <- Orderly, stage <- Stage[phase], holders <- Holders, due <- Due,
       listeners <- [c \in Orderly |-> Cardinality(Listeners(c))]

\* On a channel where tabs take turns and the library's calls do what they answer, the
\* Map and the library's listeners behave as one ref-counted subscription, and a
\* shutdown stops what it found and loses what came after.
CountedSpec == Counted!Spec
=============================================================================
