------------------------- MODULE PubSubBridge_proofs --------------------------
(***************************************************************************)
(* Theorems about PubSubBridge, for any number of tabs, channels and        *)
(* defaults, whichever of them take turns and whichever calls throw.        *)
(***************************************************************************)
EXTENDS PubSubBridge, FiniteSetTheorems, TLAPS

-----------------------------------------------------------------------------
(* The inductive invariant *)

\* While the module starts, the entries are the first defaults, and nobody asks.
Starting ==
  phase = "init" =>
    /\ opened < Len(Defaults)
    /\ \A e \in 1..opened : target[e] = Defaults[e]
    /\ \A t \in Tab : pc[t] = "idle"

\* The requests that may still open a listener.
Openers == {t \in Tab : pc[t] \in {"post", "subscribing"}}
Places == opened + Cardinality(Openers) <= MaxOpened

\* Where callers take turns, one request is under way.
OneAtATime ==
  \A t \in Tab : pc[t] # "idle" /\ req[t][1] \in TakeTurns =>
    \A u \in Tab : pc[u] # "idle" /\ req[u][1] = req[t][1] => u = t

\* What a caller learnt before its await still holds after it, if callers take turns,
\* but for the entry a shutdown has cleared.
Opening ==
  \A t \in Tab : pc[t] = "subscribing" /\ req[t][1] \in TakeTurns => subs[req[t][1]] = None
Holding ==
  \A t \in Tab : pc[t] = "unsubscribing" =>
    /\ held[t] \in 1..opened
    /\ target[held[t]][1] = req[t][1]
    /\ req[t][1] \in TakeTurns => subs[req[t][1]] \in {held[t], None}

\* An entry has its listener, and a count unless it is being taken down.
Served ==
  phase \in {"init", "up"} =>
    \A c \in Orderly : subs[c] # None =>
      /\ subs[c] \in live
      /\ \/ refs[subs[c]] > 0
         \/ \E t \in Tab : pc[t] = "unsubscribing" /\ req[t][1] = c

\* Until the Map is cleared, only a call that threw leaves a stray.
StrayNamed == \A e \in strays : target[e][1] \in Throwing \/ phase = "down"

\* While a shutdown waits, it waits for every listener it found and may still stop.
Closable ==
  /\ phase # "closing" => closing = {}
  /\ phase = "closing" =>
       \A e \in live : target[e][1] \in TakeTurns => e \in strays \/ e \in closing \/ e > before

IInv ==
  /\ TypeOK /\ Starting /\ Places /\ OneAtATime /\ Opening /\ Holding
  /\ NoOrphanListener /\ Served /\ StrayNamed /\ Closable

-----------------------------------------------------------------------------
(* The initial states *)

\* Nothing is open and nobody asks.
LEMMA InitInv == Init => IInv
<1> USE BridgeAssumption
<1> SUFFICES ASSUME Init PROVE IInv
  OBVIOUS
<1>1. TypeOK
  BY DEF Init, TypeOK, Entry, None
<1>2. Starting
  BY DEF Init, Starting
<1>3. Places
  <2>1. Openers = {}
    BY DEF Init, Openers
  <2> QED BY <2>1, FS_EmptySet DEF Init, Places
<1>4. OneAtATime /\ Opening /\ Holding /\ NoOrphanListener
  BY DEF Init, OneAtATime, Opening, Holding, NoOrphanListener
<1>5. Served
  BY DEF Init, Served, Orderly
<1>6. StrayNamed /\ Closable
  BY DEF Init, StrayNamed, Closable
<1> QED BY <1>1, <1>2, <1>3, <1>4, <1>5, <1>6 DEF IInv

-----------------------------------------------------------------------------
(* The places of the requests that may open a listener *)

\* Tabs are finite, so the requests that may open a listener can be counted.
LEMMA OpenersFinite == IsFiniteSet(Openers) /\ Cardinality(Openers) \in Nat
  BY BridgeAssumption, FS_Subset, FS_CardinalityType DEF Openers

\* A request that is not new takes no new place.
LEMMA PlacesKept ==
  ASSUME TypeOK, Places, opened' = opened, Openers' \subseteq Openers
  PROVE  Places'
<1>1. IsFiniteSet(Openers)' /\ Cardinality(Openers') <= Cardinality(Openers)
  BY OpenersFinite, FS_Subset
<1>2. Cardinality(Openers') \in Nat
  BY <1>1, FS_CardinalityType
<1> QED BY <1>1, <1>2, OpenersFinite, BridgeAssumption DEF Places, TypeOK

-----------------------------------------------------------------------------
(* What the steps have in common *)

\* A row is a channel and a kind.
LEMMA RowChannel ==
  ASSUME NEW r \in Row
  PROVE  r[1] \in Channel /\ r[2] \in BOOLEAN
  BY BridgeAssumption

\* The requests of the other tabs stay where they are.
Others(t) == \A u \in Tab \ {t} : pc'[u] = pc[u] /\ req'[u] = req[u] /\ held'[u] = held[u]

TabsTyped ==
  /\ pc \in [Tab -> {"idle", "post", "delete", "subscribing", "unsubscribing"}]
  /\ req \in [Tab -> Row]
  /\ held \in [Tab -> Entry \union {None}]

\* The channels onModuleInit subscribes are rows too.
LEMMA DefaultRow == \A i \in 1..Len(Defaults) : Defaults[i] \in Row
  BY BridgeAssumption

\* A request that ends leaves its tab idle.
LEMMA AnswerEnds ==
  ASSUME TypeOK, NEW t \in Tab, Answer(t)
  PROVE  TabsTyped' /\ Others(t) /\ pc'[t] = "idle"
<1>1. Defaults[1] \in Row
  BY DefaultRow, BridgeAssumption
<1> QED BY <1>1 DEF TypeOK, Answer, TabsTyped, Others

\* So does one that is answered, whatever row of the tab changes.
LEMMA ReplyEnds ==
  ASSUME TypeOK, NEW t \in Tab, NEW n \in Int, NEW pattern, Reply(t, n, pattern)
  PROVE  Answer(t) /\ rows' \in [Tab -> [Shown -> Int]]
<1>1. Answer(t)
  BY DEF Reply
<1> DEFINE r == <<req[t][1], pattern>>
<1>2. CASE r \notin Shown
  BY <1>2 DEF Reply, TypeOK
<1>3. CASE r \in Shown
  <2>1. rows' = [rows EXCEPT ![t] = [rows[t] EXCEPT ![r] = n]]
    BY <1>3 DEF Reply
  <2>2. [rows[t] EXCEPT ![r] = n] \in [Shown -> Int]
    BY DEF TypeOK
  <2> QED BY <1>1, <2>1, <2>2 DEF TypeOK
<1> QED BY <1>1, <1>2, <1>3

\* The entry of a channel, if it has one.
LEMMA StoredEntry ==
  ASSUME TypeOK, NEW c \in Channel, subs[c] # None
  PROVE  subs[c] \in 1..opened /\ subs[c] \in Entry /\ target[subs[c]][1] = c
  BY BridgeAssumption DEF TypeOK, Entry, None

\* A new listener takes the next number.
LEMMA OpenAdds ==
  ASSUME TypeOK, NEW r \in Row, opened < MaxOpened, Open(r)
  PROVE  /\ opened' = opened + 1 /\ opened' \in Entry /\ opened \in Nat
         /\ target' \in [Entry -> Row] /\ target'[opened'] = r
         /\ \A e \in 1..opened : target'[e] = target[e] /\ refs'[e] = refs[e]
         /\ refs' \in [Entry -> Int] /\ refs'[opened'] = 1
         /\ live' = live \union {opened'} /\ live' \subseteq 1..opened'
         /\ subs' \in [Channel -> Entry \union {None}]
         /\ subs'[r[1]] = opened' /\ opened' # None
         /\ \A c \in Channel \ {r[1]} : subs'[c] = subs[c]
         /\ \A c \in Channel : subs'[c] # None => subs'[c] <= opened' /\ target'[subs'[c]][1] = c
<1> USE BridgeAssumption, RowChannel DEF TypeOK, Open, Entry, None
<1>1. opened' = opened + 1 /\ opened' \in Entry /\ opened \in Nat /\ opened' # None
  OBVIOUS
<1>2. target' \in [Entry -> Row] /\ target'[opened'] = r
  BY <1>1
<1>3. \A e \in 1..opened : target'[e] = target[e] /\ refs'[e] = refs[e]
  BY <1>1
<1>4. refs' \in [Entry -> Int] /\ refs'[opened'] = 1
  BY <1>1
<1>5. live' = live \union {opened'} /\ live' \subseteq 1..opened'
  BY <1>1
<1>6. subs' \in [Channel -> Entry \union {None}] /\ subs'[r[1]] = opened'
  BY <1>1
<1>7. \A c \in Channel \ {r[1]} : subs'[c] = subs[c]
  BY <1>1
<1>8. \A c \in Channel : subs'[c] # None => subs'[c] <= opened' /\ target'[subs'[c]][1] = c
  <2> SUFFICES ASSUME NEW c \in Channel, subs'[c] # None
               PROVE  subs'[c] <= opened' /\ target'[subs'[c]][1] = c
    OBVIOUS
  <2>1. CASE c = r[1]
    BY <2>1, <1>1, <1>2, <1>6
  <2>2. CASE c # r[1]
    <3>1. subs'[c] = subs[c] /\ subs[c] \in 1..opened /\ target[subs[c]][1] = c
      BY <2>2, <1>7, StoredEntry
    <3> QED BY <3>1, <1>1, <1>3
  <2> QED BY <2>1, <2>2
<1> HIDE DEF TypeOK, Open, Entry, None
<1> QED BY <1>1, <1>2, <1>3, <1>4, <1>5, <1>6, <1>7, <1>8

\* A step that opens no listener leaves the shutdown what it was.
LEMMA ShutdownKept ==
  ASSUME IInv, UNCHANGED <<phase, target, closing, before, strays>>, live' \subseteq live
  PROVE  StrayNamed' /\ Closable'
<1>1. StrayNamed'
  BY DEF IInv, StrayNamed
<1>2. Closable'
  BY DEF IInv, Closable
<1> QED BY <1>1, <1>2

\* A listener opened while the shutdown waits is newer than those it found.
LEMMA ShutdownOpens ==
  ASSUME IInv, NEW r \in Row, opened < MaxOpened, Open(r), UNCHANGED <<closing, before, strays>>,
         phase' = phase \/ (phase = "init" /\ phase' = "up")
  PROVE  StrayNamed' /\ Closable'
<1>1. /\ TypeOK /\ StrayNamed /\ Closable
      /\ strays \subseteq 1..opened /\ live \subseteq 1..opened /\ before \in 0..opened
  BY DEF IInv, TypeOK
<1>2. /\ opened' = opened + 1 /\ opened \in Nat /\ live' = live \union {opened'}
      /\ \A e \in 1..opened : target'[e] = target[e]
  BY <1>1, OpenAdds
<1>3. StrayNamed'
  BY <1>1, <1>2 DEF StrayNamed
<1>4. Closable'
  <2>1. phase' # "closing" => closing' = {}
    BY <1>1 DEF Closable
  <2> SUFFICES ASSUME phase' = "closing", NEW e \in live', target'[e][1] \in TakeTurns
               PROVE  e \in strays' \/ e \in closing' \/ e > before'
    BY <2>1 DEF Closable
  <2>2. CASE e = opened'
    BY <2>2, <1>1, <1>2
  <2>3. CASE e # opened'
    BY <2>3, <1>1, <1>2 DEF Closable
  <2> QED BY <2>2, <2>3
<1> QED BY <1>3, <1>4

\* The part of the invariant that only looks at the tabs.
LEMMA TurnsKept ==
  ASSUME IInv, NEW t \in Tab, Others(t),
         pc'[t] # "idle" => pc[t] # "idle" /\ req'[t] = req[t]
  PROVE  OneAtATime'
  BY DEF IInv, OneAtATime, Others
-----------------------------------------------------------------------------
(* One lemma per step *)

\* Default channels differ, so each opens where there is no entry.
LEMMA BootInv ==
  ASSUME IInv, Boot
  PROVE  IInv'
<1> USE BridgeAssumption
<1> DEFINE r == Defaults[opened + 1]
<1>1. /\ TypeOK /\ Starting /\ Places /\ NoOrphanListener /\ Served
      /\ phase = "init" /\ opened < Len(Defaults) /\ opened \in Nat
  BY DEF IInv, Boot, Starting, TypeOK
<1>2. r \in Row /\ r[1] \in Channel /\ opened < MaxOpened /\ Open(r)
  BY <1>1, DefaultRow, RowChannel DEF Boot
<1>3. /\ opened' = opened + 1 /\ opened' \in Entry
      /\ target' \in [Entry -> Row] /\ target'[opened'] = r
      /\ \A e \in 1..opened : target'[e] = target[e] /\ refs'[e] = refs[e]
      /\ refs' \in [Entry -> Int] /\ refs'[opened'] = 1
      /\ live' = live \union {opened'} /\ live' \subseteq 1..opened'
      /\ subs' \in [Channel -> Entry \union {None}]
      /\ subs'[r[1]] = opened'
      /\ \A c \in Channel \ {r[1]} : subs'[c] = subs[c]
      /\ \A c \in Channel : subs'[c] # None => subs'[c] <= opened' /\ target'[subs'[c]][1] = c
  BY <1>1, <1>2, OpenAdds
<1>4. /\ phase' \in {"init", "up"} /\ (phase' = "init" => opened' # Len(Defaults))
      /\ UNCHANGED <<closing, before, strays, pc, req, held, rows, faults>>
      /\ \A t \in Tab : pc[t] = "idle"
  BY <1>1, <1>3 DEF Boot, Starting
<1> HIDE DEF r
<1>5. TypeOK'
  BY <1>1, <1>3, <1>4 DEF TypeOK, Entry
<1>11. StrayNamed' /\ Closable'
  BY <1>1, <1>2, <1>4, ShutdownOpens
<1>6. Starting'
  <2>1. \A e \in 1..opened' : target'[e] = Defaults[e]
    BY <1>1, <1>3 DEF Starting, r
  <2> QED BY <2>1, <1>1, <1>3, <1>4 DEF Starting
<1>7. Places'
  <2>1. Openers' = {}
    BY <1>4 DEF Openers
  <2> QED BY <2>1, <1>3, FS_EmptySet DEF Places, Entry
<1>8. OneAtATime' /\ Opening' /\ Holding'
  BY <1>4 DEF OneAtATime, Opening, Holding
<1>9. NoOrphanListener'
  <2> SUFFICES ASSUME NEW e \in live', target'[e][1] \in TakeTurns
               PROVE  subs'[target'[e][1]] = e \/ e \in strays'
    BY DEF NoOrphanListener
  <2>1. CASE e = opened'
    BY <2>1, <1>3
  <2>2. CASE e # opened'
    <3>1. e \in live /\ e \in 1..opened /\ target'[e] = target[e] /\ target[e] = Defaults[e]
      BY <2>2, <1>1, <1>3 DEF TypeOK, Starting
    <3>2. subs[target[e][1]] = e \/ e \in strays'
      BY <3>1, <1>1, <1>4 DEF NoOrphanListener
    <3>3. target[e][1] # r[1]
      BY <3>1, <1>1 DEF r
    <3> QED BY <3>1, <3>2, <3>3, <1>3
  <2> QED BY <2>1, <2>2
<1>10. Served'
  <2> SUFFICES ASSUME NEW c \in Orderly, subs'[c] # None
               PROVE  subs'[c] \in live' /\ refs'[subs'[c]] > 0
    BY DEF Served
  <2>0. c \in Channel
    BY DEF Orderly
  <2>1. CASE c = r[1]
    BY <2>1, <1>3
  <2>2. CASE c # r[1]
    <3>1. subs'[c] = subs[c] /\ subs[c] \in 1..opened
      BY <2>0, <2>2, <1>1, <1>3, StoredEntry
    <3>2. subs[c] \in live /\ refs[subs[c]] > 0
      BY <3>1, <1>1, <1>4 DEF Served
    <3> QED BY <3>1, <3>2, <1>3
  <2> QED BY <2>1, <2>2
<1> QED BY <1>5, <1>6, <1>7, <1>8, <1>9, <1>10, <1>11 DEF IInv

\* A tab asks only with room for its listener, and in turn where callers take turns.
LEMMA ClickInv ==
  ASSUME IInv, NEW t \in Tab, NEW r \in Row, NEW verb \in {"post", "delete"}, Click(t, r, verb)
  PROVE  IInv'
<1> USE BridgeAssumption
<1>1. /\ TypeOK /\ Starting /\ Places /\ OneAtATime /\ Opening /\ Holding
      /\ NoOrphanListener /\ Served
  BY DEF IInv
<1>2. /\ pc[t] = "idle" /\ pc'[t] = verb /\ req'[t] = r /\ Others(t)
      /\ UNCHANGED <<phase, subs, opened, target, refs, live, closing, before, strays, held, rows, faults>>
      /\ phase # "init"
  BY <1>1 DEF Click, TypeOK, Others
<1>3. TypeOK'
  BY <1>1 DEF Click, TypeOK, Entry, None
<1>4. Starting' /\ NoOrphanListener'
  BY <1>2 , <1>1 DEF Starting, NoOrphanListener
<1>5. Places'
  <2>1. CASE verb = "delete"
    <3>1. Openers' \subseteq Openers
      BY <2>1, <1>2 DEF Openers, Others
    <3> QED BY <3>1, <1>1, <1>2, PlacesKept
  <2>2. CASE verb = "post"
    <3>1. Openers' = Openers \union {t} /\ t \notin Openers
      BY <2>2, <1>2 DEF Openers, Others
    <3>2. Cardinality(Openers') = Cardinality(Openers) + 1
      BY <3>1, OpenersFinite, FS_AddElement
    <3>3. opened + Cardinality(Openers) < MaxOpened
      BY <2>2 DEF Click, Room, Openers
    <3> QED BY <3>2, <3>3, <1>1, <1>2, OpenersFinite DEF Places, TypeOK
  <2> QED BY <2>1, <2>2
<1>6. OneAtATime'
  <2>1. r[1] \in TakeTurns => ~Pending(r[1])
    BY DEF Click
  <2> SUFFICES ASSUME NEW u \in Tab, NEW v \in Tab, pc'[u] # "idle", req'[u][1] \in TakeTurns,
                      pc'[v] # "idle", req'[v][1] = req'[u][1]
               PROVE  v = u
    <3>1. \A u \in Tab : pc'[u] # "idle" /\ req'[u][1] \in TakeTurns =>
            \A v \in Tab : pc'[v] # "idle" /\ req'[v][1] = req'[u][1] => v = u
      OBVIOUS
    <3> QED BY <3>1 DEF OneAtATime
  <2>2. CASE u = t \/ v = t
    BY <2>1, <2>2, <1>2 DEF Pending, Others
  <2>3. CASE u # t /\ v # t
    BY <2>3, <1>1, <1>2 DEF OneAtATime, Others
  <2> QED BY <2>2, <2>3
<1>7. Opening' /\ Holding'
  BY <1>1, <1>2 DEF Opening, Holding, Others
<1>8. Served'
  <2>1. \A u \in Tab : pc[u] = "unsubscribing" => pc'[u] = pc[u] /\ req'[u] = req[u]
    BY <1>2 DEF Others
  <2> QED BY <2>1, <1>1, <1>2 DEF Served
<1>9. StrayNamed' /\ Closable'
  BY <1>2, ShutdownKept
<1> QED BY <1>3, <1>4, <1>5, <1>6, <1>7, <1>8, <1>9 DEF IInv

\* A new listener, the request of tab t coming to its end: no other entry is touched.
LEMMA SubscribedInv ==
  ASSUME IInv, NEW t \in Tab, Subscribed(t)
  PROVE  IInv'
<1> USE BridgeAssumption
<1> DEFINE r == req[t]
<1>1. /\ TypeOK /\ Starting /\ Places /\ OneAtATime /\ Opening /\ Holding
      /\ NoOrphanListener /\ Served /\ opened \in Nat
      /\ pc[t] = "subscribing" /\ r \in Row /\ r[1] \in Channel
      /\ Open(r) /\ Reply(t, 1, r[2]) /\ UNCHANGED <<phase, closing, before, strays, faults>>
  BY RowChannel DEF IInv, TypeOK, Subscribed
<1>2. Answer(t) /\ rows' \in [Tab -> [Shown -> Int]]
  BY <1>1, ReplyEnds
<1>3. TabsTyped' /\ Others(t) /\ pc'[t] = "idle"
  BY <1>1, <1>2, AnswerEnds
<1>4. Openers' = Openers \ {t} /\ t \in Openers
  BY <1>1, <1>3 DEF Openers, Others
<1>5. Cardinality(Openers') = Cardinality(Openers) - 1 /\ Cardinality(Openers') \in Nat
  BY <1>4, OpenersFinite, FS_RemoveElement, FS_CardinalityType
<1>6. opened < MaxOpened
  BY <1>1, <1>5, OpenersFinite DEF Places
<1>7. /\ opened' = opened + 1 /\ opened' \in Entry
      /\ target' \in [Entry -> Row] /\ target'[opened'] = r
      /\ \A e \in 1..opened : target'[e] = target[e] /\ refs'[e] = refs[e]
      /\ refs' \in [Entry -> Int] /\ refs'[opened'] = 1
      /\ live' = live \union {opened'} /\ live' \subseteq 1..opened'
      /\ subs' \in [Channel -> Entry \union {None}]
      /\ subs'[r[1]] = opened'
      /\ \A c \in Channel \ {r[1]} : subs'[c] = subs[c]
      /\ \A c \in Channel : subs'[c] # None => subs'[c] <= opened' /\ target'[subs'[c]][1] = c
  BY <1>1, <1>6, OpenAdds
<1>16. StrayNamed' /\ Closable'
  BY <1>1, <1>6, ShutdownOpens
<1>8. TypeOK'
  <2>1. /\ opened' \in 0..MaxOpened /\ closing' \subseteq 1..opened'
        /\ before' \in 0..opened' /\ strays' \subseteq 1..opened'
    BY <1>1, <1>7 DEF TypeOK, Entry
  <2>2. phase' \in {"init", "up", "closing", "down"} /\ faults' \in 0..MaxFaults
    BY <1>1 DEF TypeOK
  <2> QED BY <2>1, <2>2, <1>2, <1>3, <1>7 DEF TypeOK, TabsTyped
<1>9. Starting' /\ OneAtATime'
  BY <1>1, <1>3, TurnsKept DEF Starting, IInv
<1>10. Places'
  BY <1>1, <1>5, <1>7, OpenersFinite DEF Places
<1>11. \A u \in Tab : pc'[u] # "idle" /\ req'[u][1] \in TakeTurns =>
         /\ u # t /\ req'[u] = req[u] /\ req[u][1] # r[1] /\ req[u][1] \in Channel
         /\ subs'[req[u][1]] = subs[req[u][1]]
  <2> SUFFICES ASSUME NEW u \in Tab, pc'[u] # "idle", req'[u][1] \in TakeTurns
               PROVE  /\ u # t /\ req'[u] = req[u] /\ req[u][1] # r[1] /\ req[u][1] \in Channel
                      /\ subs'[req[u][1]] = subs[req[u][1]]
    OBVIOUS
  <2>1. u # t /\ req'[u] = req[u] /\ pc'[u] = pc[u]
    BY <1>3 DEF Others
  <2>2. req[u][1] # r[1]
    BY <2>1, <1>1 DEF OneAtATime
  <2>3. req[u][1] \in Channel
    BY <1>1, RowChannel DEF TypeOK
  <2> QED BY <2>1, <2>2, <2>3, <1>7
<1>12. Opening'
  BY <1>1, <1>3, <1>11 DEF Opening, Others
<1>13. Holding'
  <2> SUFFICES ASSUME NEW u \in Tab, pc'[u] = "unsubscribing"
               PROVE  /\ held'[u] \in 1..opened' /\ target'[held'[u]][1] = req'[u][1]
                      /\ req'[u][1] \in TakeTurns => subs'[req'[u][1]] \in {held'[u], None}
    BY DEF Holding
  <2>1. u # t /\ pc[u] = "unsubscribing" /\ req'[u] = req[u] /\ held'[u] = held[u]
    BY <1>3 DEF Others
  <2> QED BY <2>1, <1>1, <1>7, <1>11 DEF Holding
<1>14. NoOrphanListener'
  <2> SUFFICES ASSUME NEW e \in live', target'[e][1] \in TakeTurns, e \notin strays
               PROVE  subs'[target'[e][1]] = e
    BY <1>1 DEF NoOrphanListener
  <2>1. CASE e = opened'
    BY <2>1, <1>7
  <2>2. CASE e # opened'
    <3>1. e \in live /\ e \in 1..opened /\ target'[e] = target[e]
      BY <2>2, <1>1, <1>7 DEF TypeOK
    <3>2. subs[target[e][1]] = e /\ e # None
      BY <3>1, <1>1 DEF NoOrphanListener, None
    <3>3. target[e][1] # r[1]
      BY <3>1, <3>2, <1>1 DEF Opening
    <3> QED BY <3>1, <3>2, <3>3, <1>7
  <2> QED BY <2>1, <2>2
<1>15. Served'
  <2> SUFFICES ASSUME phase \in {"init", "up"}, NEW c \in Orderly, subs'[c] # None
               PROVE  /\ subs'[c] \in live'
                      /\ \/ refs'[subs'[c]] > 0
                         \/ \E u \in Tab : pc'[u] = "unsubscribing" /\ req'[u][1] = c
    BY <1>1 DEF Served
  <2>0. c \in Channel
    BY DEF Orderly
  <2>1. CASE c = r[1]
    BY <2>1, <1>7
  <2>2. CASE c # r[1]
    <3>1. subs'[c] = subs[c] /\ subs[c] \in 1..opened
      BY <2>0, <2>2, <1>1, <1>7, StoredEntry
    <3>2. subs[c] \in live
      BY <3>1, <1>1 DEF Served
    <3>3. CASE refs[subs[c]] > 0
      BY <3>1, <3>2, <3>3, <1>7
    <3>4. CASE \E u \in Tab : pc[u] = "unsubscribing" /\ req[u][1] = c
      BY <3>1, <3>2, <3>4, <1>1, <1>3, <1>7 DEF Others
    <3> QED BY <3>1, <3>2, <3>3, <3>4, <1>1 DEF Served
  <2> QED BY <2>1, <2>2
<1> QED BY <1>8, <1>9, <1>10, <1>12, <1>13, <1>14, <1>15, <1>16 DEF IInv

\* A request that joins is alone on a channel that takes turns: nobody takes its entry down.
LEMMA AddSubscriptionInv ==
  ASSUME IInv, NEW t \in Tab, AddSubscription(t)
  PROVE  IInv'
<1> USE BridgeAssumption
<1> DEFINE c == req[t][1]
           e == subs[c]
<1>1. /\ TypeOK /\ Starting /\ Places /\ OneAtATime /\ Opening /\ Holding
      /\ NoOrphanListener /\ Served
      /\ pc[t] = "post" /\ c \in Channel
      /\ UNCHANGED <<phase, subs, opened, target, live, closing, before, strays, faults>>
  BY RowChannel DEF IInv, TypeOK, AddSubscription
<1>4. StrayNamed' /\ Closable'
  BY <1>1, ShutdownKept
<1>2. CASE e # None /\ Join(t, e)
  <2>1. e \in Entry /\ e \in 1..opened /\ target[e][1] = c /\ refs[e] \in Int
    BY <1>1, <1>2, StoredEntry DEF TypeOK
  <2>2. refs' = [refs EXCEPT ![e] = refs[e] + 1] /\ Reply(t, refs[e] + 1, target[e][2])
    BY <1>2 DEF Join
  <2>3. Answer(t) /\ rows' \in [Tab -> [Shown -> Int]]
    <3>1. refs[e] + 1 \in Int /\ Reply(t, refs[e] + 1, target[e][2])
      BY <2>1, <2>2
    <3>2. TypeOK
      BY <1>1
    <3> QED BY <3>1, <3>2, ReplyEnds
  <2>4. TabsTyped' /\ Others(t) /\ pc'[t] = "idle"
    BY <1>1, <2>3, AnswerEnds
  <2>5. refs' \in [Entry -> Int] /\ refs'[e] = refs[e] + 1
        /\ \A f \in Entry \ {e} : refs'[f] = refs[f]
    BY <2>1, <2>2, <1>1 DEF TypeOK
  <2> HIDE DEF e
  <2>6. TypeOK'
    BY <1>1, <2>3, <2>4, <2>5 DEF TypeOK, TabsTyped
  <2>7. Starting' /\ OneAtATime' /\ NoOrphanListener'
    BY <1>1, <2>4, TurnsKept DEF Starting, NoOrphanListener
  <2>8. Openers' \subseteq Openers
    BY <2>4 DEF Openers, Others
  <2>9. Opening' /\ Holding'
    BY <1>1, <2>4 DEF Opening, Holding, Others
  <2>10. Served'
    <3> SUFFICES ASSUME phase \in {"init", "up"}, NEW d \in Orderly, subs[d] # None
                 PROVE  /\ subs[d] \in live
                        /\ \/ refs'[subs[d]] > 0
                           \/ \E u \in Tab : pc'[u] = "unsubscribing" /\ req'[u][1] = d
      BY <1>1 DEF Served
    <3>1. d \in Channel /\ d \in TakeTurns /\ subs[d] \in Entry /\ target[subs[d]][1] = d
      BY <1>1, StoredEntry DEF Orderly
    <3>2. subs[d] \in live /\ (refs[subs[d]] > 0
            \/ \E u \in Tab : pc[u] = "unsubscribing" /\ req[u][1] = d)
      BY <1>1 DEF Served
    <3>3. CASE subs[d] = e
      <4>1. d = c
        BY <3>1, <3>3, <2>1
      <4>2. refs[e] > 0
        BY <4>1, <3>1, <3>2, <3>3, <1>1 DEF OneAtATime
      <4> QED BY <4>2, <3>2, <3>3, <2>1, <2>5
    <3>4. CASE subs[d] # e
      BY <3>1, <3>2, <3>4, <2>4, <2>5, <1>1 DEF Others
    <3> QED BY <3>3, <3>4
  <2> QED BY <2>6, <2>7, <2>8, <2>9, <2>10, <1>1, <1>4, PlacesKept DEF IInv
<1>3. CASE e = None /\ CallSubscribe(t)
  <2>1. pc' = [pc EXCEPT ![t] = "subscribing"] /\ UNCHANGED <<refs, req, held, rows>>
    BY <1>3 DEF CallSubscribe
  <2>2. Others(t) /\ pc'[t] = "subscribing"
    BY <2>1, <1>1 DEF Others, TypeOK
  <2>3. TypeOK'
    BY <1>1, <2>1 DEF TypeOK
  <2>4. Starting' /\ OneAtATime' /\ NoOrphanListener'
    BY <1>1, <2>1, <2>2, TurnsKept DEF Starting, NoOrphanListener
  <2>5. Openers' \subseteq Openers
    BY <1>1, <2>2 DEF Openers, Others
  <2>6. Opening' /\ Holding'
    BY <1>1, <1>3, <2>1, <2>2 DEF Opening, Holding, Others
  <2>7. Served'
    BY <1>1, <2>1, <2>2 DEF Served, Others
  <2> QED BY <2>3, <2>4, <2>5, <2>6, <2>7, <1>1, <1>4, PlacesKept DEF IInv
<1> QED BY <1>2, <1>3 DEF AddSubscription

\* A subscription that throws leaves nothing behind, or a stray listener.
LEMMA SubscribeThrowsInv ==
  ASSUME IInv, NEW t \in Tab, SubscribeThrows(t)
  PROVE  IInv'
<1> USE BridgeAssumption
<1>1. /\ TypeOK /\ Starting /\ Places /\ OneAtATime /\ Opening /\ Holding
      /\ NoOrphanListener /\ Served /\ StrayNamed /\ Closable
      /\ pc[t] = "subscribing" /\ req[t] \in Row /\ Answer(t) /\ faults' \in 0..MaxFaults
      /\ UNCHANGED <<phase, subs, refs, closing, before, rows>>
  BY DEF IInv, TypeOK, SubscribeThrows, Throw
<1>2. TabsTyped' /\ Others(t) /\ pc'[t] = "idle"
  BY <1>1, AnswerEnds
<1>3. Openers' = Openers \ {t} /\ t \in Openers
  BY <1>1, <1>2 DEF Openers, Others
<1>4. CASE UNCHANGED <<opened, target, live, strays>>
  <2>1. TypeOK'
    BY <1>1, <1>2, <1>4 DEF TypeOK, TabsTyped
  <2>2. Starting' /\ OneAtATime' /\ NoOrphanListener'
    BY <1>1, <1>2, <1>4, TurnsKept DEF Starting, NoOrphanListener
  <2>3. Opening' /\ Holding'
    <3>1. Opening'
      BY <1>1, <1>2 DEF Opening, Others
    <3>2. \A u \in Tab : pc'[u] = "unsubscribing" =>
            pc[u] = "unsubscribing" /\ req'[u] = req[u] /\ held'[u] = held[u]
      BY <1>2 DEF Others
    <3>3. Holding'
      BY <3>2, <1>1, <1>4 DEF Holding
    <3> QED BY <3>1, <3>3
  <2>4. Served'
    <3>1. \A u \in Tab : pc[u] = "unsubscribing" => pc'[u] = pc[u] /\ req'[u] = req[u]
      BY <1>1, <1>2 DEF Others
    <3> QED BY <3>1, <1>1, <1>4 DEF Served
  <2>5. StrayNamed' /\ Closable'
    BY <1>1, <1>4, ShutdownKept
  <2>6. Places'
    BY <1>1, <1>3, <1>4, PlacesKept
  <2> QED BY <2>1, <2>2, <2>3, <2>4, <2>5, <2>6 DEF IInv
<1>5. CASE req[t][1] \in Throwing /\ Stray(t)
  <2>1. Cardinality(Openers') = Cardinality(Openers) - 1 /\ Cardinality(Openers') \in Nat
    BY <1>3, OpenersFinite, FS_RemoveElement, FS_CardinalityType
  <2>2. opened < MaxOpened /\ opened \in Nat
    BY <1>1, <2>1, OpenersFinite DEF Places, TypeOK
  <2>3. /\ opened' = opened + 1 /\ live' = live \union {opened'} /\ strays' = strays \union {opened'}
        /\ target' \in [Entry -> Row] /\ target'[opened'] = req[t]
        /\ \A e \in 1..opened : target'[e] = target[e]
    <3>1. opened + 1 \in Entry /\ 1..opened \subseteq Entry \ {opened + 1}
      BY <2>2 DEF Entry
    <3>2. target \in [Entry -> Row] /\ req[t] \in Row
      BY <1>1 DEF TypeOK
    <3>3. /\ opened' = opened + 1 /\ target' = [target EXCEPT ![opened + 1] = req[t]]
          /\ live' = live \union {opened + 1} /\ strays' = strays \union {opened + 1}
      BY <1>5 DEF Stray
    <3> QED BY <3>1, <3>2, <3>3
  <2>4. TypeOK'
    <3>1. /\ opened' \in 0..MaxOpened /\ live' \subseteq 1..opened' /\ strays' \subseteq 1..opened'
          /\ closing' \subseteq 1..opened' /\ before' \in 0..opened'
      <4>1. /\ 1..opened \subseteq 1..opened' /\ 0..opened \subseteq 0..opened'
            /\ opened' \in 1..opened' /\ opened' \in 0..MaxOpened
        BY <2>2, <2>3
      <4>2. /\ live \subseteq 1..opened /\ strays \subseteq 1..opened
            /\ closing \subseteq 1..opened /\ before \in 0..opened
        BY <1>1 DEF TypeOK
      <4>3. UNCHANGED <<closing, before>>
        BY <1>1
      <4> QED BY <4>1, <4>2, <4>3, <2>3
    <3>2. \A c \in Channel : subs'[c] # None => subs'[c] <= opened' /\ target'[subs'[c]][1] = c
      <4> SUFFICES ASSUME NEW c \in Channel, subs[c] # None
                   PROVE  subs[c] <= opened' /\ target'[subs[c]][1] = c
        BY <1>1
      <4>1. subs[c] \in 1..opened /\ target[subs[c]][1] = c
        BY <1>1, StoredEntry
      <4> QED BY <4>1, <2>2, <2>3
    <3> QED BY <3>1, <3>2, <1>1, <1>2, <2>3 DEF TypeOK, TabsTyped
  <2>5. Starting' /\ OneAtATime'
    BY <1>1, <1>2, TurnsKept DEF Starting
  <2>6. NoOrphanListener'
    <3> SUFFICES ASSUME NEW e \in live', target'[e][1] \in TakeTurns, e \notin strays'
                 PROVE  subs[target'[e][1]] = e
      BY <1>1 DEF NoOrphanListener
    <3>1. e \in live /\ e \in 1..opened /\ e \notin strays
      BY <1>1, <2>3 DEF TypeOK
    <3> QED BY <3>1, <1>1, <2>3 DEF NoOrphanListener
  <2>7. Opening'
    BY <1>1, <1>2 DEF Opening, Others
  <2>8. Holding'
    <3> SUFFICES ASSUME NEW u \in Tab, pc'[u] = "unsubscribing"
                 PROVE  /\ held'[u] \in 1..opened' /\ target'[held'[u]][1] = req'[u][1]
                        /\ req'[u][1] \in TakeTurns => subs'[req'[u][1]] \in {held'[u], None}
      BY DEF Holding
    <3>1. u # t /\ pc[u] = "unsubscribing" /\ req'[u] = req[u] /\ held'[u] = held[u]
      BY <1>2 DEF Others
    <3>2. /\ held[u] \in 1..opened /\ target[held[u]][1] = req[u][1]
          /\ req[u][1] \in TakeTurns => subs[req[u][1]] \in {held[u], None}
      BY <3>1, <1>1 DEF Holding
    <3>3. held[u] \in 1..opened'
      BY <3>2, <2>2, <2>3
    <3> QED BY <3>1, <3>2, <3>3, <1>1, <2>3
  <2>9. Served'
    <3>1. \A u \in Tab : pc[u] = "unsubscribing" => pc'[u] = pc[u] /\ req'[u] = req[u]
      BY <1>1, <1>2 DEF Others
    <3>2. live \subseteq live'
      BY <2>3
    <3> QED BY <3>1, <3>2, <1>1 DEF Served
  <2>10. StrayNamed'
    <3> SUFFICES ASSUME NEW e \in strays' PROVE target'[e][1] \in Throwing \/ phase = "down"
      BY <1>1 DEF StrayNamed
    <3>1. CASE e = opened'
      BY <3>1, <1>5, <2>3
    <3>2. CASE e # opened'
      <4>1. e \in strays /\ e \in 1..opened
        BY <3>2, <1>1, <2>3 DEF TypeOK
      <4> QED BY <4>1, <1>1, <2>3 DEF StrayNamed
    <3> QED BY <3>1, <3>2
  <2>11. Closable'
    <3>1. phase' # "closing" => closing' = {}
      BY <1>1 DEF Closable
    <3> SUFFICES ASSUME phase = "closing", NEW e \in live', target'[e][1] \in TakeTurns
                 PROVE  e \in strays' \/ e \in closing' \/ e > before'
      BY <1>1, <3>1 DEF Closable
    <3>2. CASE e = opened'
      BY <3>2, <2>3
    <3>3. CASE e # opened'
      <4>1. e \in live /\ e \in 1..opened /\ target'[e] = target[e]
        BY <3>3, <1>1, <2>3 DEF TypeOK
      <4> QED BY <4>1, <1>1, <2>3 DEF Closable
    <3> QED BY <3>2, <3>3
  <2>12. Places'
    BY <1>1, <2>1, <2>2, <2>3, OpenersFinite DEF Places
  <2> QED BY <2>4, <2>5, <2>6, <2>7, <2>8, <2>9, <2>10, <2>11, <2>12 DEF IInv
<1> QED BY <1>4, <1>5 DEF SubscribeThrows

\* The last one to leave goes on to the await with the entry in hand.
LEMMA RemoveSubscriptionInv ==
  ASSUME IInv, NEW t \in Tab, RemoveSubscription(t)
  PROVE  IInv'
<1> USE BridgeAssumption
<1> DEFINE c == req[t][1]
           e == subs[c]
<1>1. /\ TypeOK /\ Starting /\ Places /\ OneAtATime /\ Opening /\ Holding
      /\ NoOrphanListener /\ Served
      /\ pc[t] = "delete" /\ c \in Channel
      /\ UNCHANGED <<phase, subs, opened, target, live, closing, before, strays, faults>>
  BY RowChannel DEF IInv, TypeOK, RemoveSubscription
<1>4. StrayNamed' /\ Closable'
  BY <1>1, ShutdownKept
<1>2. CASE e # None /\ Leave(t, e)
  <2>1. e \in Entry /\ e \in 1..opened /\ target[e][1] = c /\ refs[e] \in Int
    BY <1>1, <1>2, StoredEntry DEF TypeOK
  <2>2. refs' = [refs EXCEPT ![e] = refs[e] - 1]
    BY <1>2 DEF Leave
  <2>3. refs' \in [Entry -> Int] /\ refs'[e] = refs[e] - 1
        /\ \A f \in Entry \ {e} : refs'[f] = refs[f]
    BY <2>1, <2>2, <1>1 DEF TypeOK
  <2>4. \/ refs[e] > 1 /\ Reply(t, refs[e] - 1, target[e][2])
        \/ /\ refs[e] <= 1
           /\ pc' = [pc EXCEPT ![t] = "unsubscribing"] /\ held' = [held EXCEPT ![t] = e]
           /\ UNCHANGED <<req, rows>>
    BY <1>2 DEF Leave
  <2> HIDE DEF e
  <2>5. /\ TabsTyped' /\ Others(t) /\ rows' \in [Tab -> [Shown -> Int]]
        /\ \/ refs[e] > 1 /\ pc'[t] = "idle"
           \/ pc'[t] = "unsubscribing" /\ held'[t] = e /\ req'[t] = req[t]
    <3>1. CASE refs[e] > 1 /\ Reply(t, refs[e] - 1, target[e][2])
      <4>1. Answer(t) /\ rows' \in [Tab -> [Shown -> Int]]
        BY <1>1, <2>1, <3>1, ReplyEnds
      <4> QED BY <4>1, <3>1, <1>1, AnswerEnds
    <3>2. CASE /\ refs[e] <= 1
               /\ pc' = [pc EXCEPT ![t] = "unsubscribing"] /\ held' = [held EXCEPT ![t] = e]
               /\ UNCHANGED <<req, rows>>
      BY <3>2, <2>1, <1>1 DEF TypeOK, TabsTyped, Others
    <3> QED BY <2>4, <3>1, <3>2
  <2>6. TypeOK'
    BY <1>1, <2>3, <2>5 DEF TypeOK, TabsTyped
  <2>7. Starting' /\ OneAtATime' /\ NoOrphanListener'
    BY <1>1, <2>5, TurnsKept DEF Starting, NoOrphanListener
  <2>8. Openers' \subseteq Openers
    BY <1>1, <2>5 DEF Openers, Others
  <2>9. Opening'
    BY <1>1, <2>5 DEF Opening, Others
  <2>10. Holding'
    BY <1>1, <2>1, <2>5 DEF Holding, Others, e
  <2>11. Served'
    <3> SUFFICES ASSUME phase \in {"init", "up"}, NEW d \in Orderly, subs[d] # None
                 PROVE  /\ subs[d] \in live
                        /\ \/ refs'[subs[d]] > 0
                           \/ \E u \in Tab : pc'[u] = "unsubscribing" /\ req'[u][1] = d
      BY <1>1 DEF Served
    <3>1. d \in Channel /\ subs[d] \in Entry /\ target[subs[d]][1] = d
      BY <1>1, StoredEntry DEF Orderly
    <3>2. subs[d] \in live /\ (refs[subs[d]] > 0
            \/ \E u \in Tab : pc[u] = "unsubscribing" /\ req[u][1] = d)
      BY <1>1 DEF Served
    <3>3. CASE subs[d] = e
      <4>1. d = c
        BY <3>1, <3>3, <2>1
      <4> QED BY <4>1, <3>2, <3>3, <2>1, <2>3, <2>5
    <3>4. CASE subs[d] # e
      BY <3>1, <3>2, <3>4, <2>3, <2>5, <1>1 DEF Others
    <3> QED BY <3>3, <3>4
  <2> QED BY <2>6, <2>7, <2>8, <2>9, <2>10, <2>11, <1>1, <1>4, PlacesKept DEF IInv
<1>3. CASE e = None /\ Reply(t, 0, FALSE) /\ UNCHANGED refs
  <2>1. Answer(t) /\ rows' \in [Tab -> [Shown -> Int]]
    <3>1. Reply(t, 0, FALSE)
      BY <1>3, Zenon
    <3>2. 0 \in Int
      OBVIOUS
    <3> QED BY <3>1, <3>2, <1>1, ReplyEnds, Zenon
  <2>2. TabsTyped' /\ Others(t) /\ pc'[t] = "idle"
    BY <1>1, <2>1, AnswerEnds
  <2>3. TypeOK'
    BY <1>1, <1>3, <2>1, <2>2 DEF TypeOK, TabsTyped
  <2>4. Starting' /\ OneAtATime' /\ NoOrphanListener'
    BY <1>1, <2>2, TurnsKept DEF Starting, NoOrphanListener
  <2>5. Openers' \subseteq Openers
    BY <2>2 DEF Openers, Others
  <2>6. Opening' /\ Holding'
    BY <1>1, <2>2 DEF Opening, Holding, Others
  <2>7. Served'
    BY <1>1, <1>3, <2>2 DEF Served, Others
  <2> QED BY <2>3, <2>4, <2>5, <2>6, <2>7, <1>1, <1>4, PlacesKept DEF IInv
<1> QED BY <1>2, <1>3 DEF RemoveSubscription

\* Only the listener that goes was of this channel; entries of others keep theirs.
LEMMA UnsubscribedInv ==
  ASSUME IInv, NEW t \in Tab, Unsubscribed(t)
  PROVE  IInv'
<1> USE BridgeAssumption
<1> DEFINE c == req[t][1]
           e == held[t]
<1>1. /\ TypeOK /\ Starting /\ Places /\ OneAtATime /\ Opening /\ Holding
      /\ NoOrphanListener /\ Served
      /\ pc[t] = "unsubscribing" /\ c \in Channel
      /\ live' = live \ {e} /\ subs' = [subs EXCEPT ![c] = None] /\ Reply(t, 0, target[e][2])
      /\ UNCHANGED <<phase, opened, target, refs, closing, before, strays, faults>>
  BY RowChannel DEF IInv, TypeOK, Unsubscribed
<1>2. e \in 1..opened /\ target[e][1] = c /\ (c \in TakeTurns => subs[c] \in {e, None})
  BY <1>1 DEF Holding
<1>14. StrayNamed' /\ Closable'
  BY <1>1, ShutdownKept
<1>3. Answer(t) /\ rows' \in [Tab -> [Shown -> Int]]
  <2>1. 0 \in Int
    OBVIOUS
  <2> QED BY <2>1, <1>1, ReplyEnds
<1>4. TabsTyped' /\ Others(t) /\ pc'[t] = "idle"
  BY <1>1, <1>3, AnswerEnds
<1>5. /\ subs' \in [Channel -> Entry \union {None}] /\ subs'[c] = None
      /\ \A d \in Channel \ {c} : subs'[d] = subs[d]
  BY <1>1 DEF TypeOK
<1> HIDE DEF c, e
<1>6. TypeOK'
  <2>1. \A d \in Channel : subs'[d] # None => subs'[d] <= opened /\ target[subs'[d]][1] = d
    BY <1>1, <1>5 DEF TypeOK
  <2> QED BY <2>1, <1>1, <1>3, <1>4, <1>5 DEF TypeOK, TabsTyped
<1>7. Starting' /\ OneAtATime'
  BY <1>1, <1>4, TurnsKept DEF Starting
<1>8. Openers' \subseteq Openers
  BY <1>4 DEF Openers, Others
<1>9. \A u \in Tab : pc'[u] # "idle" /\ req'[u][1] \in TakeTurns =>
        /\ u # t /\ req'[u] = req[u] /\ subs'[req[u][1]] = subs[req[u][1]]
  <2> SUFFICES ASSUME NEW u \in Tab, pc'[u] # "idle", req'[u][1] \in TakeTurns
               PROVE  u # t /\ req'[u] = req[u] /\ subs'[req[u][1]] = subs[req[u][1]]
    OBVIOUS
  <2>1. u # t /\ pc[u] = pc'[u] /\ req'[u] = req[u]
    BY <1>4 DEF Others
  <2>2. req[u][1] # c
    BY <2>1, <1>1 DEF OneAtATime, c
  <2> QED BY <2>1, <2>2, <1>5
<1>10. Opening'
  <2> SUFFICES ASSUME NEW u \in Tab, pc'[u] = "subscribing", req'[u][1] \in TakeTurns
               PROVE  subs'[req'[u][1]] = None
    BY DEF Opening
  <2>1. u # t /\ req'[u] = req[u] /\ subs'[req[u][1]] = subs[req[u][1]]
    BY <1>9
  <2>2. pc[u] = "subscribing"
    BY <2>1, <1>4 DEF Others
  <2> QED BY <2>1, <2>2, <1>1 DEF Opening
<1>11. Holding'
  <2> SUFFICES ASSUME NEW u \in Tab, pc'[u] = "unsubscribing"
               PROVE  /\ held'[u] \in 1..opened
                      /\ target[held'[u]][1] = req'[u][1]
                      /\ req'[u][1] \in TakeTurns => subs'[req'[u][1]] \in {held'[u], None}
    BY <1>1 DEF Holding
  <2>1. u # t
    BY <1>4
  <2>2. pc[u] = "unsubscribing" /\ req'[u] = req[u] /\ held'[u] = held[u]
    BY <2>1, <1>4 DEF Others
  <2>3. ASSUME req'[u][1] \in TakeTurns
        PROVE  subs'[req[u][1]] = subs[req[u][1]]
    BY <2>3, <1>9
  <2> QED BY <2>2, <2>3, <1>1 DEF Holding
<1>12. NoOrphanListener'
  <2> SUFFICES ASSUME NEW f \in live', target[f][1] \in TakeTurns, f \notin strays
               PROVE  subs'[target[f][1]] = f
    BY <1>1 DEF NoOrphanListener
  <2>1. f \in live /\ f # e /\ subs[target[f][1]] = f
    BY <1>1 DEF NoOrphanListener
  <2>2. f # None /\ target[f][1] \in Channel
    BY <2>1, <1>1, RowChannel DEF TypeOK, Entry, None
  <2>3. target[f][1] # c
    BY <2>1, <2>2, <1>2
  <2> QED BY <2>1, <2>2, <2>3, <1>5
<1>13. Served'
  <2> SUFFICES ASSUME phase \in {"init", "up"}, NEW d \in Orderly, subs'[d] # None
               PROVE  /\ subs'[d] \in live'
                      /\ \/ refs[subs'[d]] > 0
                         \/ \E u \in Tab : pc'[u] = "unsubscribing" /\ req'[u][1] = d
    BY <1>1 DEF Served
  <2>1. d \in Channel /\ d # c /\ subs'[d] = subs[d]
    BY <1>5 DEF Orderly
  <2>2. subs[d] \in live /\ (refs[subs[d]] > 0
          \/ \E u \in Tab : pc[u] = "unsubscribing" /\ req[u][1] = d)
    BY <2>1, <1>1 DEF Served
  <2>3. subs[d] # e
    BY <2>1, <1>1, <1>2, StoredEntry
  <2>4. \A u \in Tab : pc[u] = "unsubscribing" /\ req[u][1] = d => pc'[u] = pc[u] /\ req'[u] = req[u]
    BY <2>1, <1>4 DEF Others, c
  <2> QED BY <2>1, <2>2, <2>3, <2>4, <1>1
<1> QED BY <1>1, <1>6, <1>7, <1>8, <1>10, <1>12, <1>13, <1>11, <1>14, PlacesKept DEF IInv

\* The channel is not an orderly one, and its entry stays stored.
LEMMA UnsubscribeThrowsInv ==
  ASSUME IInv, NEW t \in Tab, UnsubscribeThrows(t)
  PROVE  IInv'
<1> USE BridgeAssumption
<1> DEFINE c == req[t][1]
           e == held[t]
<1>1. /\ TypeOK /\ Starting /\ Places /\ OneAtATime /\ Opening /\ Holding
      /\ NoOrphanListener /\ Served
      /\ pc[t] = "unsubscribing" /\ c \in Throwing /\ Answer(t) /\ faults' \in 0..MaxFaults
      /\ live' \in {live, live \ {e}}
      /\ UNCHANGED <<phase, subs, opened, target, refs, closing, before, strays, rows>>
  BY DEF IInv, TypeOK, UnsubscribeThrows, Throw
<1>2. e \in 1..opened /\ target[e][1] = c
  BY <1>1 DEF Holding
<1>3. TabsTyped' /\ Others(t) /\ pc'[t] = "idle"
  BY <1>1, AnswerEnds
<1> HIDE DEF c, e
<1>4. TypeOK'
  BY <1>1, <1>3 DEF TypeOK, TabsTyped
<1>5. Starting' /\ OneAtATime' /\ NoOrphanListener'
  BY <1>1, <1>3, TurnsKept DEF Starting, NoOrphanListener
<1>6. Openers' \subseteq Openers
  BY <1>3 DEF Openers, Others
<1>7. Opening' /\ Holding'
  BY <1>1, <1>3 DEF Opening, Holding, Others
<1>8. Served'
  <2> SUFFICES ASSUME phase \in {"init", "up"}, NEW d \in Orderly, subs[d] # None
               PROVE  /\ subs[d] \in live'
                      /\ \/ refs[subs[d]] > 0
                         \/ \E u \in Tab : pc'[u] = "unsubscribing" /\ req'[u][1] = d
    BY <1>1 DEF Served
  <2>1. d \in Channel /\ d # c
    BY <1>1 DEF Orderly
  <2>2. subs[d] \in live /\ (refs[subs[d]] > 0
          \/ \E u \in Tab : pc[u] = "unsubscribing" /\ req[u][1] = d)
    BY <1>1 DEF Served
  <2>3. subs[d] # e
    BY <2>1, <1>1, <1>2, StoredEntry
  <2>4. \A u \in Tab : pc[u] = "unsubscribing" /\ req[u][1] = d => pc'[u] = pc[u] /\ req'[u] = req[u]
    BY <2>1, <1>3 DEF Others, c
  <2> QED BY <2>2, <2>3, <2>4, <1>1
<1>9. StrayNamed' /\ Closable'
  BY <1>1, ShutdownKept
<1> QED BY <1>1, <1>4, <1>5, <1>6, <1>7, <1>8, <1>9, PlacesKept DEF IInv

\* A shutdown snapshots the entries, and leaves them: every listener is stored or a stray.
LEMMA DestroyInv ==
  ASSUME IInv, Destroy
  PROVE  IInv'
<1> USE BridgeAssumption
<1>1. /\ TypeOK /\ Starting /\ Places /\ OneAtATime /\ Opening /\ Holding
      /\ NoOrphanListener /\ Served /\ StrayNamed /\ Closable
      /\ phase = "up" /\ phase' = "closing" /\ closing' = Stored /\ before' = opened
      /\ UNCHANGED <<subs, opened, target, refs, live, strays, pc, req, held, rows, faults>>
  BY DEF IInv, Destroy
<1>2. TypeOK'
  <2>1. closing' \subseteq 1..opened
    BY <1>1, StoredEntry DEF Stored
  <2>2. before' \in 0..opened
    BY <1>1 DEF TypeOK
  <2> QED BY <2>1, <2>2, <1>1 DEF TypeOK
<1>3. Starting' /\ NoOrphanListener' /\ Served' /\ StrayNamed'
  BY <1>1 DEF Starting, NoOrphanListener, Served, StrayNamed
<1>4. OneAtATime' /\ Opening' /\ Holding'
  BY <1>1 DEF OneAtATime, Opening, Holding
<1>5. Places'
  BY <1>1 DEF Places, Openers
<1>6. Closable'
  <2> SUFFICES ASSUME NEW e \in live, target[e][1] \in TakeTurns, e \notin strays
               PROVE  e \in closing'
    BY <1>1 DEF Closable
  <2>1. subs[target[e][1]] = e /\ target[e][1] \in Channel /\ e # None
    BY <1>1 DEF NoOrphanListener, TypeOK, None
  <2> QED BY <2>1, <1>1 DEF Stored
<1> QED BY <1>2, <1>3, <1>4, <1>5, <1>6 DEF IInv

\* An Unsubscribe the shutdown awaits: its listener goes, or is named a stray.
LEMMA SettleInv ==
  ASSUME IInv, NEW e \in Entry, Settle(e)
  PROVE  IInv'
<1> USE BridgeAssumption
<1>1. /\ TypeOK /\ Starting /\ Places /\ OneAtATime /\ Opening /\ Holding
      /\ NoOrphanListener /\ Served /\ StrayNamed /\ Closable
      /\ e \in closing /\ closing' = closing \ {e}
      /\ \/ live' = live \ {e} /\ strays' = strays
         \/ target[e][1] \in Throwing /\ strays' = strays \union {e} /\ live' = live
      /\ UNCHANGED <<phase, subs, opened, target, refs, before, pc, req, held, rows, faults>>
  BY DEF IInv, Settle
<1>2. phase = "closing"
  BY <1>1 DEF Closable
<1>3. TypeOK'
  <2>1. live' \subseteq 1..opened /\ closing' \subseteq 1..opened /\ strays' \subseteq 1..opened
    BY <1>1 DEF TypeOK
  <2> QED BY <2>1, <1>1 DEF TypeOK
<1>4. Starting' /\ Served' /\ OneAtATime' /\ Opening' /\ Holding'
  BY <1>1, <1>2 DEF Starting, Served, OneAtATime, Opening, Holding
<1>5. Places'
  BY <1>1 DEF Places, Openers
<1>6. NoOrphanListener' /\ StrayNamed'
  BY <1>1 DEF NoOrphanListener, StrayNamed
<1>7. Closable'
  BY <1>1, <1>2 DEF Closable
<1> QED BY <1>3, <1>4, <1>5, <1>6, <1>7 DEF IInv

\* The Map is cleared: the listeners of its entries are strays from now on.
LEMMA DestroyedInv ==
  ASSUME IInv, Destroyed
  PROVE  IInv'
<1> USE BridgeAssumption
<1>1. /\ TypeOK /\ Starting /\ Places /\ OneAtATime /\ Opening /\ Holding
      /\ NoOrphanListener /\ StrayNamed
      /\ phase = "closing" /\ closing = {} /\ phase' = "down"
      /\ subs' = [c \in Channel |-> None] /\ strays' = strays \union (Stored \intersect live)
      /\ UNCHANGED <<opened, target, refs, live, closing, before, pc, req, held, rows, faults>>
  BY DEF IInv, Destroyed
<1>2. TypeOK'
  <2>1. strays' \subseteq 1..opened
    BY <1>1 DEF TypeOK
  <2> QED BY <2>1, <1>1 DEF TypeOK
<1>3. Starting' /\ Served' /\ OneAtATime' /\ StrayNamed' /\ Closable'
  BY <1>1 DEF Starting, Served, OneAtATime, StrayNamed, Closable
<1>4. NoOrphanListener'
  <2> SUFFICES ASSUME NEW e \in live, target[e][1] \in TakeTurns, e \notin strays
               PROVE  e \in Stored
    BY <1>1 DEF NoOrphanListener
  <2>1. subs[target[e][1]] = e /\ target[e][1] \in Channel /\ e # None
    BY <1>1 DEF NoOrphanListener, TypeOK, None
  <2> QED BY <2>1 DEF Stored
<1>5. \A t \in Tab : subs'[req[t][1]] = None
  BY <1>1, RowChannel DEF TypeOK
<1>6. Opening' /\ Holding'
  BY <1>1, <1>5 DEF Opening, Holding
<1>7. Places'
  BY <1>1 DEF Places, Openers
<1> QED BY <1>2, <1>3, <1>4, <1>6, <1>7 DEF IInv

\* Every part of the invariant looks at the variables only.
LEMMA StutterInv ==
  ASSUME IInv, UNCHANGED vars
  PROVE  IInv'
<1>1. /\ UNCHANGED <<phase, subs, opened, target, refs, live, closing, before, strays>>
      /\ UNCHANGED <<pc, req, held, rows, faults>>
  BY DEF vars
<1>2. TypeOK' /\ Starting' /\ Places'
  BY <1>1 DEF IInv, TypeOK, Starting, Places, Openers
<1>3. OneAtATime' /\ Opening' /\ Holding'
  BY <1>1 DEF IInv, OneAtATime, Opening, Holding
<1>4. NoOrphanListener' /\ Served' /\ StrayNamed' /\ Closable'
  BY <1>1 DEF IInv, NoOrphanListener, Served, StrayNamed, Closable
<1> QED BY <1>2, <1>3, <1>4 DEF IInv

-----------------------------------------------------------------------------
(* Theorems *)

\* One lemma for each action.
LEMMA InvNext == IInv /\ [Next]_vars => IInv'
<1> SUFFICES ASSUME IInv, [Next]_vars PROVE IInv'
  OBVIOUS
<1>1. CASE Boot \/ Destroy \/ Destroyed
  BY <1>1, BootInv, DestroyInv, DestroyedInv
<1>5. CASE \E e \in Entry : Settle(e)
  BY <1>5, SettleInv
<1>2. CASE \E t \in Tab : Serve(t)
  <2>1. PICK t \in Tab : Serve(t)
    BY <1>2
  <2> QED BY <2>1, AddSubscriptionInv, SubscribedInv, SubscribeThrowsInv,
             RemoveSubscriptionInv, UnsubscribedInv, UnsubscribeThrowsInv DEF Serve
<1>3. CASE \E t \in Tab, r \in Row, verb \in {"post", "delete"} : Click(t, r, verb)
  <2>1. PICK t \in Tab, r \in Row, verb \in {"post", "delete"} : Click(t, r, verb)
    BY <1>3
  <2> QED BY <2>1, ClickInv
<1>4. CASE UNCHANGED vars
  BY <1>4, StutterInv
<1> QED BY <1>1, <1>2, <1>3, <1>4, <1>5 DEF Next

\* PubSubBridgeService, SubscriptionManager: the Map, its entries, the requests and
\* the rows of every tab stay in their ranges, whatever overlaps and whatever throws.
THEOREM TypeCorrect == Spec => []TypeOK
<1>1. IInv => TypeOK
  BY DEF IInv
<1> QED BY InitInv, InvNext, <1>1, PTL DEF Spec

\* removeSubscription: on a channel whose callers take turns, a listener that still
\* delivers is the stored one, even when an Unsubscribe rejects and while a shutdown
\* waits; but for the strays, which NoOrphanListener names.
THEOREM NoOrphanHolds == Spec => []NoOrphanListener
<1>1. IInv => NoOrphanListener
  BY DEF IInv
<1> QED BY InitInv, InvNext, <1>1, PTL DEF Spec

\* onModuleDestroy: whoever adds and removes while it waits, and whichever Unsubscribe
\* rejects, it leaves no listener it found, where callers take turns, but the ones
\* whose own call threw.
THEOREM ShutdownStopsHolds == Spec => ShutdownStops
<1>1. IInv /\ [Next]_vars =>
        [phase = "closing" /\ phase' = "down" =>
           \A e \in live' : target[e][1] \in TakeTurns => e \in strays \/ e > before]_vars
  <2> SUFFICES ASSUME IInv, Next, phase = "closing", phase' = "down",
                      NEW e \in live', target[e][1] \in TakeTurns
               PROVE  e \in strays \/ e > before
    OBVIOUS
  <2>1. Destroyed
    <3>1. phase' # phase
      OBVIOUS
    <3> QED BY <3>1 DEF Next, Boot, Destroy, Settle, Serve, AddSubscription, Subscribed,
               SubscribeThrows, RemoveSubscription, Unsubscribed, UnsubscribeThrows, Click
  <2>2. live' = live /\ closing = {}
    BY <2>1 DEF Destroyed
  <2> QED BY <2>2 DEF IInv, Closable
<1> QED BY InitInv, InvNext, <1>1, PTL DEF Spec, ShutdownStops

\* addSubscription, removeSubscription: until a shutdown, where callers take turns and
\* the library's calls do what they answer, the ref count mirrors the library: a counted
\* channel has its one listener, and a channel without an entry has none.
THEOREM CountsAgreeHolds == Spec => []CountsAgree
<1>1. IInv => CountsAgree
  <2> SUFFICES ASSUME IInv, phase = "up", NEW c \in Orderly, ~Pending(c)
               PROVE  Agree(c)
    BY DEF CountsAgree
  <2>1. /\ TypeOK /\ NoOrphanListener /\ Served /\ StrayNamed
        /\ c \in Channel /\ c \in TakeTurns /\ c \notin Throwing
    BY BridgeAssumption DEF IInv, Orderly
  <2>2. \A e \in Listeners(c) : e = subs[c] /\ e # None
    BY <2>1 DEF NoOrphanListener, StrayNamed, Listeners, TypeOK, None
  <2>3. CASE subs[c] = None
    BY <2>2, <2>3 DEF Agree
  <2>4. CASE subs[c] # None
    <3>1. subs[c] \in live /\ target[subs[c]][1] = c /\ refs[subs[c]] > 0
      BY <2>1, <2>4, StoredEntry DEF Served, Pending
    <3> QED BY <3>1, <2>2, <2>4 DEF Agree, Listeners
  <2> QED BY <2>3, <2>4
<1> QED BY InitInv, InvNext, <1>1, PTL DEF Spec
-----------------------------------------------------------------------------
(***************************************************************************)
(* Refinement.  On an orderly channel the only listener, until a shutdown   *)
(* has forgotten some, is that of the entry in the Map; and the count is 0  *)
(* only while the last caller's Unsubscribe is awaited.                     *)
(***************************************************************************)
Leaving(c) == \E t \in Tab : pc[t] = "unsubscribing" /\ req[t][1] = c

Mirror(c) ==
  subs[c] # None => refs[subs[c]] >= 0 /\ (refs[subs[c]] = 0 <=> Leaving(c))

MirrorInv == \A c \in Orderly : Mirror(c)

Counts == [c \in Orderly |-> Cardinality(Listeners(c))]

\* Listeners can be counted, and on an orderly channel they are the stored one.
LEMMA ListenersFinite ==
  ASSUME IInv, NEW c
  PROVE  IsFiniteSet(Listeners(c)) /\ Cardinality(Listeners(c)) \in Nat
<1>1. live \subseteq 1..opened /\ opened \in 0..MaxOpened
  BY DEF IInv, TypeOK
<1>2. Listeners(c) \subseteq 1..opened
  BY <1>1 DEF Listeners
<1>3. opened \in Int
  BY <1>1, BridgeAssumption
<1>4. IsFiniteSet(1..opened)
  BY <1>3, FS_Interval
<1> QED BY <1>2, <1>4, FS_Subset, FS_CardinalityType

LEMMA OneListener ==
  ASSUME IInv, NEW c \in Orderly, phase # "down", NEW e \in Listeners(c)
  PROVE  e = subs[c] /\ e # None
<1>1. e \in live /\ target[e][1] = c /\ c \in TakeTurns /\ c \notin Throwing
  BY DEF Listeners, Orderly
<1>2. e \notin strays
  BY <1>1 DEF IInv, StrayNamed
<1>3. e # None
  BY <1>1, BridgeAssumption DEF IInv, TypeOK, None
<1> QED BY <1>1, <1>2, <1>3 DEF IInv, NoOrphanListener

\* The step leaves channel d alone.
Kept(d) ==
  /\ subs'[d] = subs[d]
  /\ Listeners(d)' = Listeners(d)
  /\ subs[d] # None => refs'[subs[d]] = refs[subs[d]]
  /\ Leaving(d)' <=> Leaving(d)

LEMMA KeptMirror ==
  ASSUME NEW d \in Orderly, Mirror(d), Kept(d)
  PROVE  Mirror(d)'
BY DEF Mirror, Kept

\* A step that leaves every orderly channel alone is a stutter.
LEMMA NoneMoves ==
  ASSUME \A d \in Orderly : Kept(d), UNCHANGED <<phase, closing>>
  PROVE  UNCHANGED Counted!vars
<1>1. Holders' = Holders
  BY DEF Kept, Holders
<1>2. [c \in Orderly |-> Cardinality(Listeners(c))]' = [c \in Orderly |-> Cardinality(Listeners(c))]
  BY DEF Kept
<1>3. Due' = Due
  BY DEF Kept, Due
<1>4. Stage[phase]' = Stage[phase]
  BY DEF Stage
<1> QED BY <1>1, <1>2, <1>3, <1>4 DEF Counted!vars

\* A step that leaves all orderly channels but k alone moves k only.
LEMMA OneMoves ==
  ASSUME NEW k \in Orderly, \A d \in Orderly \ {k} : Kept(d)
  PROVE  /\ Holders' = [Holders EXCEPT ![k] = Holders'[k]]
         /\ Counts' = [Counts EXCEPT ![k] = Counts'[k]]
<1>1. \A d \in Orderly \ {k} : Holders'[d] = Holders[d] /\ Counts'[d] = Counts[d]
  BY DEF Kept, Holders, Counts
<1>2. /\ Holders = [d \in Orderly |-> Holders[d]] /\ Holders' = [d \in Orderly |-> Holders'[d]]
      /\ Counts = [d \in Orderly |-> Counts[d]] /\ Counts' = [d \in Orderly |-> Counts'[d]]
  BY DEF Holders, Counts
<1> QED BY <1>1, <1>2

\* A listener opens on a channel that has none, or none but forgotten ones.
LEMMA OpenMirror ==
  ASSUME IInv, MirrorInv, NEW r \in Row, opened < MaxOpened, Open(r), UNCHANGED closing,
         phase' = phase \/ (phase = "init" /\ phase' = "up"),
         r[1] \in Orderly => subs[r[1]] = None /\ ~Leaving(r[1])',
         \A d \in Orderly \ {r[1]} : Leaving(d)' <=> Leaving(d)
  PROVE  MirrorInv' /\ [Counted!Next]_(Counted!vars)
<1> USE BridgeAssumption
<1> DEFINE k == r[1]
<1>0. TypeOK
  BY DEF IInv
<1>1. /\ opened' = opened + 1 /\ opened' \in Entry /\ opened \in Nat
      /\ target'[opened'] = r
      /\ \A e \in 1..opened : target'[e] = target[e] /\ refs'[e] = refs[e]
      /\ refs'[opened'] = 1
      /\ live' = live \union {opened'}
      /\ subs'[k] = opened' /\ opened' # None
      /\ \A c \in Channel \ {k} : subs'[c] = subs[c]
  BY <1>0, OpenAdds
<1>2. \A e \in live : e \in 1..opened /\ target'[e] = target[e]
  BY <1>0, <1>1 DEF TypeOK
<1>3. ASSUME NEW d \in Orderly, d # k PROVE Kept(d) /\ Mirror(d)'
  <2>1. d \in Channel /\ subs'[d] = subs[d]
    BY <1>1, <1>3 DEF Orderly
  <2>2. Listeners(d)' = Listeners(d)
    BY <1>1, <1>2, <1>3 DEF Listeners
  <2>3. subs[d] # None => refs'[subs[d]] = refs[subs[d]]
    BY <1>0, <1>1, <2>1, StoredEntry
  <2>4. Kept(d)
    BY <2>1, <2>2, <2>3, <1>3 DEF Kept
  <2> QED BY <2>4 DEF Kept, Mirror, MirrorInv
<1>4. Stage[phase]' = Stage[phase]
  BY DEF Stage
<1>5. opened' \notin closing /\ opened' \notin live
  BY <1>0, <1>1 DEF TypeOK
<1>6. \A d \in Orderly : Listeners(d)' \intersect closing' = Listeners(d) \intersect closing
  BY <1>1, <1>2, <1>5 DEF Listeners
<1>7. Due' = Due
  BY <1>6 DEF Due
<1>8. CASE k \notin Orderly
  <2>0. \A d \in Orderly : Kept(d)
    BY <1>3, <1>8
  <2>1. \A d \in Orderly : Holders'[d] = Holders[d] /\ Counts'[d] = Counts[d]
    BY <2>0 DEF Kept, Holders, Counts
  <2>2. UNCHANGED Counted!vars
    BY <2>1, <1>4, <1>7 DEF Counted!vars, Counts, Holders
  <2> QED BY <2>2, <1>3, <1>8 DEF MirrorInv
<1>9. CASE k \in Orderly
  <2>1. subs[k] = None
    BY <1>9
  <2>2. Listeners(k)' = Listeners(k) \union {opened'} /\ opened' \notin Listeners(k)
    BY <1>1, <1>2, <1>5 DEF Listeners
  <2>3. Mirror(k)'
    BY <1>1, <1>9 DEF Mirror
  <2>4. Holders[k] = 0 /\ Holders'[k] = 1
    BY <2>1, <1>1, <1>9 DEF Holders
  <2>5. Counts'[k] = Counts[k] + 1
    BY <2>2, <1>9, ListenersFinite, FS_AddElement DEF Counts
  <2>6. Stage[phase] # "closed" => Counts[k] = 0
    <3>1. Stage[phase] # "closed" => phase # "down"
      BY DEF Stage
    <3>2. phase # "down" => Listeners(k) = {}
      BY <2>1, <1>9, OneListener
    <3> QED BY <3>1, <3>2, <1>9, FS_EmptySet DEF Counts
  <2>7. Counted!First(k)
    BY <2>4, <2>5, <2>6, <1>3, <1>4, <1>7, <1>9, OneMoves DEF Counted!First, Counts
  <2>8. Counted!Next
    BY <2>7, <1>9 DEF Counted!Next
  <2> QED BY <2>3, <2>8, <1>3 DEF MirrorInv
<1> QED BY <1>8, <1>9

\* onModuleInit: the default channels differ, so each is opened for the first time.
LEMMA BootMirror ==
  ASSUME IInv, MirrorInv, Boot
  PROVE  MirrorInv' /\ [Counted!Next]_(Counted!vars)
<1> USE BridgeAssumption
<1>1. /\ TypeOK /\ opened \in Nat /\ opened < Len(Defaults) /\ phase = "init"
      /\ \A e \in 1..opened : target[e] = Defaults[e]
      /\ \A t \in Tab : pc[t] = "idle"
      /\ Open(Defaults[opened + 1]) /\ phase' \in {"init", "up"} /\ UNCHANGED <<closing, pc, req>>
  BY DEF IInv, Boot, Starting, TypeOK
<1>0. PICK r \in Row : r = Defaults[opened + 1]
  BY <1>1, DefaultRow
<1>2. r[1] \in Channel /\ opened < MaxOpened /\ Open(r)
  BY <1>0, <1>1, RowChannel
<1>3. subs[r[1]] = None
  <2> SUFFICES ASSUME subs[r[1]] # None PROVE FALSE
    OBVIOUS
  <2>1. subs[r[1]] \in 1..opened /\ target[subs[r[1]]][1] = r[1]
    BY <1>1, <1>2, StoredEntry
  <2>2. PICK e \in 1..opened : Defaults[e][1] = Defaults[opened + 1][1]
    BY <2>1, <1>0, <1>1
  <2>3. e \in 1..Len(Defaults) /\ opened + 1 \in 1..Len(Defaults) /\ e # opened + 1
    BY <1>1
  <2> QED BY <2>2, <2>3
<1>4. \A d : ~Leaving(d) /\ ~Leaving(d)'
  BY <1>1 DEF Leaving
<1> QED BY <1>1, <1>2, <1>3, <1>4, OpenMirror

\* addSubscription after its await, on a channel that still has no entry.
LEMMA SubscribedMirror ==
  ASSUME IInv, MirrorInv, NEW t \in Tab, Subscribed(t)
  PROVE  MirrorInv' /\ [Counted!Next]_(Counted!vars)
<1> USE BridgeAssumption
<1>0. PICK r \in Row : r = req[t]
  BY DEF IInv, TypeOK
<1>1. /\ TypeOK /\ Places /\ OneAtATime /\ Opening /\ opened \in Nat
      /\ pc[t] = "subscribing" /\ r = req[t] /\ r[1] \in Channel
      /\ Open(r) /\ Reply(t, 1, r[2]) /\ UNCHANGED <<phase, closing>>
  BY <1>0, RowChannel DEF IInv, TypeOK, Subscribed
<1>2. Others(t) /\ pc'[t] = "idle"
  <2>1. Answer(t)
    BY <1>1 DEF Reply
  <2> QED BY <1>1, <2>1, AnswerEnds
<1>3. Cardinality(Openers \ {t}) = Cardinality(Openers) - 1 /\ Cardinality(Openers \ {t}) \in Nat
  BY <1>1, OpenersFinite, FS_RemoveElement, FS_CardinalityType DEF Openers
<1>4. opened < MaxOpened
  BY <1>1, <1>3, OpenersFinite DEF Places
<1>5. ASSUME r[1] \in Orderly
      PROVE  subs[r[1]] = None /\ ~Leaving(r[1])'
  <2>1. r[1] \in TakeTurns /\ subs[r[1]] = None
    BY <1>1, <1>5 DEF Opening, Orderly
  <2>2. \A u \in Tab \ {t} : pc[u] # "idle" => req[u][1] # r[1]
    BY <1>1, <2>1 DEF OneAtATime
  <2>3. ~Leaving(r[1])'
    BY <1>2, <2>2 DEF Leaving, Others
  <2> QED BY <2>1, <2>3
<1>6. \A d \in Orderly : Leaving(d)' <=> Leaving(d)
  BY <1>1, <1>2 DEF Leaving, Others
<1> QED BY <1>1, <1>4, <1>5, <1>6, OpenMirror

\* Steps that touch neither the Map, nor a count, nor a listener.
LEMMA QuietMirror ==
  ASSUME MirrorInv, NEW t \in Tab, Others(t),
         UNCHANGED <<phase, subs, target, refs, live, closing>>,
         pc[t] # "unsubscribing", pc'[t] # "unsubscribing"
  PROVE  MirrorInv' /\ UNCHANGED Counted!vars
<1>1. \A d \in Orderly : Kept(d)
  BY DEF Kept, Listeners, Leaving, Others
<1> QED BY <1>1, NoneMoves, KeptMirror DEF MirrorInv

\* Where no listener comes or goes, what the shutdown has to stop stays.
LEMMA SameDue ==
  ASSUME UNCHANGED <<phase, target, live, closing>>
  PROVE  Due' = Due /\ Stage[phase]' = Stage[phase]
BY DEF Due, Listeners, Stage

\* What a step about channel k does to the others.
LEMMA OnlyChannel ==
  ASSUME IInv, NEW t \in Tab, Others(t), NEW k \in Channel, req[t][1] = k,
         pc'[t] = "unsubscribing" => req'[t][1] = k,
         \A c \in Channel \ {k} : subs'[c] = subs[c],
         \A e \in Entry : target[e][1] # k => refs'[e] = refs[e] /\ (e \in live' <=> e \in live),
         target' = target, live' \subseteq live
  PROVE  \A d \in Orderly \ {k} : Kept(d)
<1> SUFFICES ASSUME NEW d \in Orderly, d # k PROVE Kept(d)
  OBVIOUS
<1>1. TypeOK /\ d \in Channel /\ subs'[d] = subs[d] /\ live \subseteq Entry
  BY BridgeAssumption DEF IInv, Orderly, TypeOK, Entry
<1>2. Listeners(d)' = Listeners(d)
  BY <1>1 DEF Listeners
<1>3. subs[d] # None => refs'[subs[d]] = refs[subs[d]]
  BY <1>1, StoredEntry
<1>4. Leaving(d)' <=> Leaving(d)
  BY DEF Leaving, Others
<1> QED BY <1>1, <1>2, <1>3, <1>4 DEF Kept

\* addSubscription on a channel with an entry: another holder, the same listener.
LEMMA AddMirror ==
  ASSUME IInv, MirrorInv, NEW t \in Tab, AddSubscription(t)
  PROVE  MirrorInv' /\ [Counted!Next]_(Counted!vars)
<1> USE BridgeAssumption
<1>0. PICK k \in Channel : req[t][1] = k
  BY RowChannel DEF IInv, TypeOK
<1> DEFINE e == subs[k]
<1>1. /\ TypeOK /\ OneAtATime /\ pc[t] = "post" /\ req[t][1] = k
      /\ UNCHANGED <<phase, subs, target, live, closing>>
  BY <1>0 DEF IInv, AddSubscription
<1>2. CASE e = None /\ CallSubscribe(t)
  <2>1. Others(t) /\ pc'[t] = "subscribing" /\ refs' = refs
    BY <1>1, <1>2 DEF CallSubscribe, Others, TypeOK
  <2> QED BY <1>1, <2>1, QuietMirror
<1>3. CASE e # None /\ Join(t, e)
  <2>1. e \in Entry /\ target[e][1] = k /\ refs[e] \in Int
    BY <1>1, <1>3, StoredEntry DEF TypeOK
  <2>2. refs' = [refs EXCEPT ![e] = refs[e] + 1] /\ Reply(t, refs[e] + 1, target[e][2])
    BY <1>3 DEF Join
  <2>3. Others(t) /\ pc'[t] = "idle"
    BY <1>1, <2>1, <2>2, ReplyEnds, AnswerEnds
  <2>4. refs'[e] = refs[e] + 1 /\ \A f \in Entry \ {e} : refs'[f] = refs[f]
    BY <2>1, <2>2, <1>1 DEF TypeOK
  <2>5. \A d \in Orderly \ {k} : Kept(d)
    BY <1>1, <2>1, <2>3, <2>4, OnlyChannel
  <2>6. CASE k \notin Orderly
    BY <2>5, <2>6, <1>1, NoneMoves, KeptMirror DEF MirrorInv
  <2>7. CASE k \in Orderly
    <3>0. \A u \in Tab \ {t} : pc[u] # "idle" => req[u][1] # k
      BY <1>1, <2>7 DEF OneAtATime, Orderly
    <3>1. ~Leaving(k) /\ ~Leaving(k)'
      <4>1. ~Leaving(k)
        BY <1>1, <3>0 DEF Leaving
      <4>2. ~Leaving(k)'
        BY <2>3, <3>0 DEF Leaving, Others
      <4> QED BY <4>1, <4>2
    <3>2. Mirror(k) /\ refs[e] > 0
      BY <1>3, <2>1, <2>7, <3>1 DEF MirrorInv, Mirror
    <3>3. Listeners(k)' = Listeners(k)
      BY <1>1 DEF Listeners
    <3>4. Mirror(k)'
      BY <1>1, <1>3, <2>1, <2>4, <3>1, <3>2, <3>3 DEF Mirror
    <3>5. Holders[k] > 0 /\ Holders'[k] = Holders[k] + 1
      BY <1>1, <1>3, <2>4, <2>7, <3>2 DEF Holders
    <3>6. Counts' = Counts
      BY <2>5, <2>7, <3>3 DEF Counts, Kept
    <3>9. Due' = Due /\ Stage[phase]' = Stage[phase]
      BY <1>1, SameDue
    <3>7. Counted!Join(k)
      BY <2>5, <2>7, <3>5, <3>6, <3>9, OneMoves DEF Counted!Join, Counts
    <3>8. Counted!Next
      BY <3>7, <2>7 DEF Counted!Next
    <3> QED BY <3>4, <3>8, <2>5, <1>1, KeptMirror DEF MirrorInv
  <2> QED BY <2>6, <2>7
<1> QED BY <1>0, <1>2, <1>3 DEF AddSubscription
\* removeSubscription up to its await: a holder leaves, the listener stays for now.
LEMMA RemoveMirror ==
  ASSUME IInv, MirrorInv, NEW t \in Tab, RemoveSubscription(t)
  PROVE  MirrorInv' /\ [Counted!Next]_(Counted!vars)
<1> USE BridgeAssumption
<1>0. PICK k \in Channel : req[t][1] = k
  BY RowChannel DEF IInv, TypeOK
<1> DEFINE e == subs[k]
<1>1. /\ TypeOK /\ OneAtATime /\ pc[t] = "delete" /\ req[t][1] = k
      /\ UNCHANGED <<phase, subs, target, live, closing>>
  BY <1>0 DEF IInv, RemoveSubscription
<1>2. CASE e = None /\ Reply(t, 0, FALSE) /\ UNCHANGED refs
  <2>1. Answer(t)
    BY <1>2 DEF Reply
  <2>2. Others(t) /\ pc'[t] = "idle" /\ refs' = refs
    BY <1>1, <1>2, <2>1, AnswerEnds
  <2> QED BY <1>1, <2>2, QuietMirror
<1>3. CASE e # None /\ Leave(t, e)
  <2>1. e \in Entry /\ target[e][1] = k /\ refs[e] \in Int
    BY <1>1, <1>3, StoredEntry DEF TypeOK
  <2>2. refs' = [refs EXCEPT ![e] = refs[e] - 1]
    BY <1>3 DEF Leave
  <2>3. /\ Others(t)
        /\ \/ refs[e] > 1 /\ pc'[t] = "idle"
           \/ refs[e] <= 1 /\ pc'[t] = "unsubscribing" /\ req'[t] = req[t]
    <3>1. CASE refs[e] > 1 /\ Reply(t, refs[e] - 1, target[e][2])
      <4>1. Answer(t)
        BY <3>1 DEF Reply
      <4> QED BY <4>1, <3>1, <1>1, AnswerEnds
    <3>2. CASE /\ refs[e] <= 1
               /\ pc' = [pc EXCEPT ![t] = "unsubscribing"] /\ held' = [held EXCEPT ![t] = e]
               /\ UNCHANGED <<req, rows>>
      BY <3>2, <1>1 DEF TypeOK, Others
    <3> QED BY <1>3, <3>1, <3>2 DEF Leave
  <2>4. refs'[e] = refs[e] - 1 /\ \A f \in Entry \ {e} : refs'[f] = refs[f]
    BY <2>1, <2>2, <1>1 DEF TypeOK
  <2>5. \A d \in Orderly \ {k} : Kept(d)
    BY <1>1, <2>1, <2>3, <2>4, OnlyChannel
  <2>6. CASE k \notin Orderly
    BY <2>5, <2>6, <1>1, NoneMoves, KeptMirror DEF MirrorInv
  <2>7. CASE k \in Orderly
    <3>0. \A u \in Tab \ {t} : pc[u] # "idle" => req[u][1] # k
      BY <1>1, <2>7 DEF OneAtATime, Orderly
    <3>1. ~Leaving(k)
      BY <1>1, <3>0 DEF Leaving
    <3>2. Leaving(k)' <=> refs[e] <= 1
      BY <1>1, <2>1, <2>3, <3>0 DEF Leaving, Others
    <3>3. Mirror(k) /\ refs[e] > 0
      BY <1>3, <2>1, <2>7, <3>1 DEF MirrorInv, Mirror
    <3>4. Listeners(k)' = Listeners(k)
      BY <1>1 DEF Listeners
    <3>5. Mirror(k)'
      BY <1>1, <1>3, <2>1, <2>4, <3>2, <3>3, <3>4 DEF Mirror
    <3>6. Holders[k] > 0 /\ Holders'[k] = Holders[k] - 1
      BY <1>1, <1>3, <2>4, <2>7, <3>3 DEF Holders
    <3>7. Counts' = Counts
      BY <2>5, <2>7, <3>4 DEF Counts, Kept
    <3>10. Due' = Due /\ Stage[phase]' = Stage[phase]
      BY <1>1, SameDue
    <3>8. Counted!Leave(k)
      BY <2>5, <2>7, <3>6, <3>7, <3>10, OneMoves DEF Counted!Leave, Counts
    <3>9. Counted!Next
      BY <3>8, <2>7 DEF Counted!Next
    <3> QED BY <3>5, <3>9, <2>5, <1>1, KeptMirror DEF MirrorInv
  <2> QED BY <2>6, <2>7
<1> QED BY <1>0, <1>2, <1>3 DEF RemoveSubscription

\* removeSubscription after its await: the listener nobody holds is gone, unless the
\* shutdown has stopped it before.
LEMMA UnsubscribedMirror ==
  ASSUME IInv, MirrorInv, NEW t \in Tab, Unsubscribed(t)
  PROVE  MirrorInv' /\ [Counted!Next]_(Counted!vars)
<1> USE BridgeAssumption
<1>0. PICK k \in Channel : req[t][1] = k
  BY RowChannel DEF IInv, TypeOK
<1> DEFINE e == held[t]
<1>1. /\ TypeOK /\ Closable /\ pc[t] = "unsubscribing" /\ req[t][1] = k
      /\ live' = live \ {e} /\ subs' = [subs EXCEPT ![k] = None]
      /\ UNCHANGED <<phase, target, refs, closing>>
      /\ e \in Entry /\ target[e][1] = k /\ (k \in TakeTurns => subs[k] \in {e, None})
  <2>1. pc[t] = "unsubscribing"
    BY DEF Unsubscribed
  <2>2. e \in 1..opened /\ target[e][1] = k /\ (k \in TakeTurns => subs[k] \in {e, None})
    BY <1>0, <2>1 DEF IInv, Holding
  <2>3. e \in Entry
    BY <2>2 DEF IInv, TypeOK, Entry
  <2> QED BY <1>0, <2>1, <2>2, <2>3 DEF IInv, Unsubscribed
<1>2. Others(t) /\ pc'[t] = "idle"
  <2>1. Answer(t)
    BY DEF Unsubscribed, Reply
  <2> QED BY <1>1, <2>1, AnswerEnds
<1>3. subs'[k] = None /\ \A c \in Channel \ {k} : subs'[c] = subs[c]
  BY <1>1 DEF TypeOK
<1>4. \A d \in Orderly \ {k} : Kept(d)
  BY <1>1, <1>2, <1>3, OnlyChannel
<1>5. CASE k \notin Orderly
  BY <1>4, <1>5, <1>1, NoneMoves, KeptMirror DEF MirrorInv
<1>6. CASE k \in Orderly
  <2>1. Mirror(k)'
    BY <1>3 DEF Mirror
  <2>2. MirrorInv'
    BY <2>1, <1>4, KeptMirror DEF MirrorInv
  <2>3. Holders[k] = 0 /\ Holders' = Holders
    <3>1. subs[k] # None => refs[subs[k]] = 0
      BY <1>1, <1>6 DEF MirrorInv, Mirror, Leaving
    <3>2. Holders[k] = 0 /\ Holders'[k] = 0
      BY <1>3, <1>6, <3>1 DEF Holders
    <3> QED BY <3>2, <1>4, <1>6 DEF Holders, Kept
  <2>4. Stage[phase]' = Stage[phase]
    BY <1>1 DEF Stage
  <2>5. CASE e \notin live
    <3>1. live' = live
      BY <2>5, <1>1
    <3>2. Due' = Due /\ Counts' = Counts
      BY <3>1, <1>1 DEF Due, Counts, Listeners
    <3> QED BY <2>2, <2>3, <2>4, <3>2 DEF Counted!vars, Counts
  <2>6. CASE e \in live
    <3>1. Listeners(k)' = Listeners(k) \ {e} /\ e \in Listeners(k)
      BY <2>6, <1>1 DEF Listeners
    <3>2. Counts'[k] = Counts[k] - 1 /\ Counts[k] > 0
      <4>1. Cardinality(Listeners(k) \ {e}) = Cardinality(Listeners(k)) - 1
        BY <3>1, ListenersFinite, FS_RemoveElement
      <4>2. Cardinality(Listeners(k)) # 0 /\ Cardinality(Listeners(k)) \in Nat
        BY <3>1, ListenersFinite, FS_EmptySet
      <4>3. Counts[k] = Cardinality(Listeners(k)) /\ Counts'[k] = Cardinality(Listeners(k)')
        BY <1>6 DEF Counts
      <4> QED BY <3>1, <4>1, <4>2, <4>3
    <3>3. k \notin Due'
      <4>1. CASE phase = "closing"
        <5>1. \A f \in Listeners(k) : f = e
          BY <4>1, <1>6, <3>1, OneListener
        <5>2. Listeners(k)' = {}
          BY <3>1, <5>1
        <5> QED BY <5>2 DEF Due
      <4>2. CASE phase # "closing"
        BY <4>2, <1>1 DEF Closable, Due
      <4> QED BY <4>1, <4>2
    <3>4. Due' = Due \ {k}
      BY <3>3, <1>1, <1>4 DEF Due, Kept
    <3>5. Counted!Silence(k)
      BY <2>3, <2>4, <3>2, <3>4, <1>4, <1>6, OneMoves DEF Counted!Silence, Counts
    <3>6. Counted!Next
      BY <3>5, <1>6 DEF Counted!Next
    <3> QED BY <2>2, <3>6
  <2> QED BY <2>5, <2>6
<1> QED BY <1>5, <1>6

\* An Unsubscribe that throws is not one of an orderly channel.
LEMMA UnsubscribeThrowsMirror ==
  ASSUME IInv, MirrorInv, NEW t \in Tab, UnsubscribeThrows(t)
  PROVE  MirrorInv' /\ [Counted!Next]_(Counted!vars)
<1> USE BridgeAssumption
<1>0. PICK k \in Channel : req[t][1] = k
  BY RowChannel DEF IInv, TypeOK
<1>1. /\ TypeOK /\ req[t][1] = k /\ k \notin Orderly
      /\ live' \in {live, live \ {held[t]}} /\ target[held[t]][1] = k
      /\ UNCHANGED <<phase, subs, target, refs, closing>>
  BY <1>0 DEF IInv, UnsubscribeThrows, Holding, Orderly
<1>2. Others(t) /\ pc'[t] = "idle"
  BY <1>1, AnswerEnds DEF UnsubscribeThrows, Throw
<1>3. \A d \in Orderly \ {k} : Kept(d)
  BY <1>1, <1>2, OnlyChannel
<1> QED BY <1>1, <1>3, NoneMoves, KeptMirror DEF MirrorInv

\* Nor is a listener that a subscribe which threw has left.
LEMMA SubscribeThrowsMirror ==
  ASSUME IInv, MirrorInv, NEW t \in Tab, SubscribeThrows(t)
  PROVE  MirrorInv' /\ [Counted!Next]_(Counted!vars)
<1> USE BridgeAssumption
<1>1. /\ TypeOK /\ pc[t] = "subscribing" /\ UNCHANGED <<phase, subs, refs, closing>>
      /\ Others(t) /\ pc'[t] = "idle"
  BY AnswerEnds DEF IInv, SubscribeThrows, Throw
<1>2. CASE UNCHANGED <<target, live>>
  BY <1>1, <1>2, QuietMirror
<1>3. CASE req[t][1] \in Throwing /\ Stray(t)
  <2>1. /\ target' = [target EXCEPT ![opened + 1] = req[t]] /\ target \in [Entry -> Row]
        /\ live' = live \union {opened + 1} /\ live \subseteq 1..opened /\ opened \in Nat
    BY <1>1, <1>3 DEF Stray, TypeOK
  <2>2. opened + 1 \in Entry
    <3>1. t \in Openers
      BY <1>1 DEF Openers
    <3>2. Cardinality(Openers) # 0
      BY <3>1, OpenersFinite, FS_EmptySet
    <3> QED BY <3>2, <2>1, OpenersFinite DEF IInv, Places, Entry
  <2>3. \A e \in live : target'[e] = target[e]
    BY <2>1
  <2>4. target'[opened + 1] = req[t]
    BY <2>1, <2>2
  <2>5. \A d \in Orderly : Listeners(d)' = Listeners(d)
    BY <1>3, <2>1, <2>3, <2>4 DEF Listeners, Orderly
  <2>6. \A d \in Orderly : Leaving(d)' <=> Leaving(d)
    BY <1>1 DEF Leaving, Others
  <2>7. \A d \in Orderly : Kept(d)
    BY <1>1, <2>5, <2>6 DEF Kept
  <2> QED BY <2>7, <1>1, NoneMoves, KeptMirror DEF MirrorInv
<1> QED BY <1>2, <1>3 DEF SubscribeThrows

\* onModuleDestroy up to its await: the listeners of orderly channels are stored ones,
\* and every stored Unsubscribe is called.
LEMMA DestroyMirror ==
  ASSUME IInv, MirrorInv, Destroy
  PROVE  MirrorInv' /\ Counted!Next
<1>1. /\ closing' = Stored /\ phase = "up" /\ phase' = "closing"
      /\ UNCHANGED <<subs, target, refs, live, pc, req>>
  BY DEF Destroy
<1>2. \A d \in Orderly : Kept(d)
  BY <1>1 DEF Kept, Listeners, Leaving
<1>3. Holders' = Holders /\ Counts' = Counts
  BY <1>2 DEF Kept, Holders, Counts
<1>4. Due' = {c \in Orderly : Counts[c] > 0}
  <2> SUFFICES ASSUME NEW c \in Orderly
               PROVE  Listeners(c) \intersect Stored # {} <=> Counts[c] > 0
    BY <1>1 DEF Due, Listeners
  <2>1. Counts[c] > 0 <=> Listeners(c) # {}
    BY ListenersFinite, FS_EmptySet DEF Counts
  <2>2. \A e \in Listeners(c) : e \in Stored
    BY <1>1, OneListener, BridgeAssumption DEF Stored, Orderly
  <2> QED BY <2>1, <2>2
<1>5. Stage[phase] = "open" /\ Stage[phase]' = "closing"
  BY <1>1 DEF Stage
<1>6. Counted!Close
  BY <1>3, <1>4, <1>5 DEF Counted!Close, Counts
<1> QED BY <1>2, <1>6, KeptMirror DEF MirrorInv, Counted!Next

\* One of them settles: an orderly channel loses the listener that was due.
LEMMA SettleMirror ==
  ASSUME IInv, MirrorInv, NEW e \in Entry, Settle(e)
  PROVE  MirrorInv' /\ [Counted!Next]_(Counted!vars)
<1> USE BridgeAssumption
<1>0. PICK k \in Channel : target[e][1] = k
  BY RowChannel DEF IInv, TypeOK
<1>1. /\ e \in closing /\ closing' = closing \ {e} /\ phase = "closing"
      /\ \/ live' = live \ {e}
         \/ k \in Throwing /\ live' = live
      /\ UNCHANGED <<phase, subs, target, refs, pc, req>>
  BY <1>0 DEF Settle, IInv, Closable
<1>2. Holders' = Holders /\ MirrorInv' /\ Stage[phase]' = Stage[phase]
  <2>1. \A d : Leaving(d)' <=> Leaving(d)
    BY <1>1 DEF Leaving
  <2>2. MirrorInv'
    BY <2>1, <1>1 DEF MirrorInv, Mirror
  <2> QED BY <2>2, <1>1 DEF Holders, Stage
<1>3. \A d \in Orderly : d # k \/ e \notin live => e \notin Listeners(d)
  BY <1>0 DEF Listeners
<1>4. \A d \in Orderly : e \notin Listeners(d) =>
        Listeners(d)' = Listeners(d) /\ Listeners(d)' \intersect closing' = Listeners(d) \intersect closing
  <2> SUFFICES ASSUME NEW d \in Orderly, e \notin Listeners(d)
               PROVE  /\ Listeners(d)' = Listeners(d)
                      /\ Listeners(d)' \intersect closing' = Listeners(d) \intersect closing
    OBVIOUS
  <2>1. Listeners(d)' = Listeners(d)
    BY <1>1 DEF Listeners
  <2> QED BY <2>1, <1>1
<1>5. CASE k \in Orderly /\ e \in live
  <2>1. e \in Listeners(k) /\ \A f \in Listeners(k) : f = e
    <3>1. e \in Listeners(k)
      BY <1>0, <1>5 DEF Listeners
    <3> QED BY <3>1, <1>1, <1>5, OneListener
  <2>2. Listeners(k) = {e} /\ Listeners(k)' = {}
    <3>1. live' = live \ {e}
      BY <1>1, <1>5 DEF Orderly
    <3>2. Listeners(k)' = Listeners(k) \ {e}
      BY <3>1, <1>1 DEF Listeners
    <3> QED BY <2>1, <3>2
  <2>3. Counts[k] = 1 /\ Counts'[k] = 0
    BY <2>2, <1>5, FS_EmptySet, FS_Singleton DEF Counts
  <2>4. \A d \in Orderly \ {k} : Counts'[d] = Counts[d]
    BY <1>3, <1>4 DEF Counts
  <2>5. Counts' = [Counts EXCEPT ![k] = Counts[k] - 1]
    <3>1. Counts = [d \in Orderly |-> Counts[d]] /\ Counts' = [d \in Orderly |-> Counts'[d]]
      BY DEF Counts
    <3> QED BY <3>1, <2>3, <2>4
  <2>6. k \in Due /\ Due' = Due \ {k}
    BY <1>1, <1>3, <1>4, <1>5, <2>2 DEF Due
  <2>7. Counted!Stop(k)
    BY <1>2, <2>5, <2>6 DEF Counted!Stop, Counts
  <2> QED BY <1>2, <1>5, <2>7 DEF Counted!Next
<1>6. CASE k \notin Orderly \/ e \notin live
  <2>1. \A d \in Orderly : e \notin Listeners(d)
    BY <1>3, <1>6
  <2>2. Counts' = Counts /\ Due' = Due
    BY <2>1, <1>4 DEF Counts, Due
  <2> QED BY <1>2, <2>2 DEF Counted!vars, Counts
<1> QED BY <1>5, <1>6

\* The Map is cleared: every holder is forgotten, and the listeners opened meanwhile stay.
LEMMA DestroyedMirror ==
  ASSUME IInv, MirrorInv, Destroyed
  PROVE  MirrorInv' /\ Counted!Next
<1> USE BridgeAssumption
<1>1. /\ phase = "closing" /\ phase' = "down" /\ closing = {} /\ closing' = {}
      /\ subs' = [c \in Channel |-> None] /\ UNCHANGED <<target, live>>
  BY DEF Destroyed
<1>2. \A d \in Orderly : subs'[d] = None
  BY <1>1 DEF Orderly
<1>3. MirrorInv'
  BY <1>2 DEF MirrorInv, Mirror
<1>4. Holders' = [c \in Orderly |-> 0]
  BY <1>2 DEF Holders
<1>5. Counts' = Counts /\ Due = {} /\ Due' = {}
  BY <1>1 DEF Counts, Listeners, Due
<1>6. Stage[phase] = "closing" /\ Stage[phase]' = "closed"
  BY <1>1 DEF Stage
<1>7. Counted!Forget
  BY <1>4, <1>5, <1>6 DEF Counted!Forget, Counts
<1> QED BY <1>3, <1>7 DEF Counted!Next

\* Every step of the bridge is a step of the ref-counted subscriptions, or a stutter.
LEMMA CountedSimulated ==
  IInv /\ MirrorInv /\ [Next]_vars => MirrorInv' /\ [Counted!Next]_(Counted!vars)
<1> SUFFICES ASSUME IInv, MirrorInv, [Next]_vars
             PROVE  MirrorInv' /\ [Counted!Next]_(Counted!vars)
  OBVIOUS
<1>1. CASE Boot \/ Destroy \/ Destroyed
  BY <1>1, BootMirror, DestroyMirror, DestroyedMirror
<1>2. CASE \E t \in Tab : Serve(t)
  BY <1>2, AddMirror, SubscribedMirror, SubscribeThrowsMirror, RemoveMirror, UnsubscribedMirror,
     UnsubscribeThrowsMirror DEF Serve
<1>3. CASE \E t \in Tab, r \in Row, verb \in {"post", "delete"} : Click(t, r, verb)
  <2>1. PICK t \in Tab, r \in Row, verb \in {"post", "delete"} : Click(t, r, verb)
    BY <1>3
  <2>2. /\ Others(t) /\ pc[t] = "idle" /\ pc'[t] = verb
        /\ UNCHANGED <<phase, subs, target, refs, live, closing>>
    BY <2>1 DEF IInv, TypeOK, Click, Others
  <2> QED BY <2>2, QuietMirror
<1>4. CASE UNCHANGED vars
  <2>1. /\ UNCHANGED <<phase, subs, target, refs, live, closing, pc, req>>
        /\ \A d \in Orderly : Kept(d)
    BY <1>4 DEF vars, Kept, Listeners, Leaving
  <2> QED BY <2>1, NoneMoves, KeptMirror DEF MirrorInv
<1>5. CASE \E e \in Entry : Settle(e)
  BY <1>5, SettleMirror
<1> QED BY <1>1, <1>2, <1>3, <1>4, <1>5 DEF Next

\* The safety part of CountedSpec: on every channel whose tabs take turns and whose
\* library calls do what they answer, the Map and the library's listeners go through
\* the steps of one ref-counted subscription, from boot on; a shutdown, whoever has a
\* request under way, stops each listener it found and forgets the later ones.
THEOREM CountedOnce == Spec => Counted!Init /\ [][Counted!Next]_(Counted!vars)
<1>1. Init => MirrorInv /\ Counted!Init
  <2> SUFFICES ASSUME Init PROVE MirrorInv /\ Counted!Init
    OBVIOUS
  <2>1. \A c \in Orderly : subs[c] = None /\ Listeners(c) = {}
    BY BridgeAssumption DEF Init, Orderly, Listeners
  <2>2. MirrorInv
    BY <2>1 DEF MirrorInv, Mirror
  <2>3. Holders = [c \in Orderly |-> 0] /\ Counts = [c \in Orderly |-> 0] /\ Due = {}
    BY <2>1, FS_EmptySet DEF Holders, Counts, Due
  <2>4. Stage[phase] = "open"
    BY DEF Init, Stage
  <2> QED BY <2>2, <2>3, <2>4 DEF Counted!Init, Counts
<1> QED BY <1>1, InitInv, InvNext, CountedSimulated, PTL DEF Spec
=============================================================================
