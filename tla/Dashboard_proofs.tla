--------------------------- MODULE Dashboard_proofs ----------------------------
(***************************************************************************)
(* Theorems about the parts of the dashboard that MCDashboard puts side by   *)
(* side: for any TTLs, capacities, subscriptions and databases.              *)
(***************************************************************************)
EXTENDS MCDashboard, DataLemmas

-----------------------------------------------------------------------------
(* The key drawer *)

\* Steps add up, and more changes make room for more of them.
LEMMA StepsAddUp ==
  ASSUME NEW a \in Nat, NEW b \in Nat, a <= b
  PROVE  a * Step <= b * Step /\ (a + 1) * Step = a * Step + Step /\ a * Step \in Nat
BY DrawerAssumption

\* What a reading tells of the key: it was taken at a change, when the key had at most
\* the steps of that many changes, and without a later one the key has run down since.
Known(i) ==
  \/ i = Nothing
  \/ /\ i \in Inspection /\ i.rev <= rev /\ i.ttl <= MaxTtl + i.rev * Step
     /\ i.rev = rev /\ i.ttl > 0 => ttl <= i.ttl

Readings ==
  /\ ttl <= MaxTtl + rev * Step
  /\ Known(seen) /\ Known(load.got)
  /\ IsFiniteSet(calls) /\ \A c \in calls : Known(c.basis) /\ c.made <= rev

\* Unless a refetch was missed: a settled inspection, but one that is marked where
\* nobody sees it, is as new as the newest acknowledged change; so is one on its way.
Settled ==
  ~excused =>
    /\ load = NoLoad /\ (Watched \/ (seen # Nothing /\ ~stale)) => seen.rev >= done
    /\ load.at = "answered" => load.got.rev >= done

DrawerInv == DrawerTypeOK /\ Readings /\ Settled

\* TTLs and readings are numbers.
LEMMA TtlFacts ==
  /\ \A i \in Inspection \union {Nothing} : i.ttl \in Int /\ i.rev \in Int
  /\ \A i \in Inspection : i.ttl \in Ttls /\ i.rev \in 0..MaxRev
  /\ Nothing.ttl = -2 /\ Nothing.rev = -1 /\ Nothing \notin Inspection
  /\ Ttls \subseteq Int /\ Absent = -2 /\ Forever = -1
<1>1. MaxRev * Step \in Nat
  BY DrawerAssumption
<1>2. Ttls \subseteq Int
  BY <1>1, DrawerAssumption DEF Ttls, Absent, Forever
<1>3. Nothing.ttl = -2 /\ Nothing.rev = -1
  BY DEF Nothing, Absent
<1>4. \A i \in Inspection : i.ttl \in Ttls /\ i.rev \in 0..MaxRev
  BY DEF Inspection
<1>5. \A n \in 0..MaxRev : n \in Int
  OBVIOUS
<1>6. Nothing \notin Inspection
  BY <1>3, <1>4, DrawerAssumption
<1>7. \A i \in Inspection \union {Nothing} : i.ttl \in Int /\ i.rev \in Int
  <2>1. ASSUME NEW i \in Inspection PROVE i.ttl \in Int /\ i.rev \in Int
    BY <1>2, <1>4, <1>5
  <2>2. Nothing.ttl \in Int /\ Nothing.rev \in Int
    BY <1>3
  <2> QED BY <2>1, <2>2
<1> QED BY <1>2, <1>3, <1>4, <1>6, <1>7 DEF Absent, Forever

\* A reading stays true while time goes by, and while nobody changes the key.
LEMMA KnownLater ==
  ASSUME DrawerTypeOK, NEW i, Known(i),
         ttl' \in Int, rev' \in Int,
         rev' > rev \/ (rev' = rev /\ ttl' <= ttl)
  PROVE  Known(i)'
<1>1. ttl \in Int /\ rev \in Int
  BY TtlFacts, DrawerAssumption DEF DrawerTypeOK
<1> QED BY <1>1, TtlFacts, DrawerAssumption DEF Known

\* A part of the calls, with another drawer for some of them.
LEMMA CallsKept ==
  ASSUME DrawerTypeOK, Readings, NEW T \in SUBSET calls, NEW f \in [T -> Call],
         \A c \in T : f[c].basis = c.basis /\ f[c].made = c.made
  PROVE  /\ {f[c] : c \in T} \subseteq Call /\ IsFiniteSet({f[c] : c \in T})
         /\ Cardinality({f[c] : c \in T}) <= MaxCalls
         /\ \A d \in {f[c] : c \in T} : Known(d.basis) /\ d.made <= rev
<1> DEFINE C == {f[c] : c \in T}
<1>1. IsFiniteSet(T) /\ Cardinality(T) <= Cardinality(calls)
  BY FS_Subset DEF Readings
<1>2. IsFiniteSet(C) /\ Cardinality(C) <= Cardinality(T)
  <2>1. f \in Surjection(T, C)
    BY DEF Surjection
  <2> QED BY <1>1, <2>1, FS_Surjection
<1>3. Cardinality(calls) \in Nat /\ Cardinality(T) \in Nat /\ Cardinality(C) \in Nat
  BY <1>1, <1>2, FS_CardinalityType DEF Readings
<1>4. Cardinality(calls) <= MaxCalls /\ MaxCalls \in Nat
  BY DrawerAssumption DEF DrawerTypeOK
<1>5. ASSUME NEW d \in C PROVE Known(d.basis) /\ d.made <= rev
  BY DEF Readings
<1> QED BY <1>1, <1>2, <1>3, <1>4, <1>5

LEMMA DrawerInitInv == DrawerInit => DrawerInv
<1> SUFFICES ASSUME DrawerInit PROVE DrawerInv
  OBVIOUS
<1>1. /\ ttl \in {Absent, Forever} \union 1..MaxTtl /\ rev = 0 /\ done = 0
      /\ row = FALSE /\ drawer = FALSE /\ stale = FALSE /\ excused = FALSE
      /\ seen = Nothing /\ load = NoLoad /\ calls = {}
  BY DEF DrawerInit
<1>2. MaxRev * Step \in Nat /\ 0 * Step = 0 /\ MaxTtl \in Nat /\ MaxRev \in Nat /\ MaxCalls \in Nat
  BY DrawerAssumption
<1>3. ttl \in Ttls /\ ttl <= MaxTtl + rev * Step
  BY <1>1, <1>2, TtlFacts DEF Ttls
<1>4. IsFiniteSet(calls) /\ Cardinality(calls) = 0 /\ calls \subseteq Call
  BY <1>1, FS_EmptySet
<1>5. load \in Loads /\ load.got = Nothing /\ load.at = "none"
  BY <1>1 DEF Loads, NoLoad
<1>6. DrawerTypeOK
  <2>1. {row, drawer, stale, excused} \subseteq BOOLEAN
    BY <1>1
  <2> QED BY <1>1, <1>2, <1>3, <1>4, <1>5, <2>1 DEF DrawerTypeOK
<1>7. Readings
  BY <1>1, <1>3, <1>4, <1>5 DEF Readings, Known
<1>8. Settled
  BY <1>1, <1>5 DEF Settled, Watched
<1> QED BY <1>6, <1>7, <1>8 DEF DrawerInv

\* A fetch is asked for, or not.
LEMMA AskType ==
  /\ Asked \in Loads /\ Asked.at = "asked" /\ Asked.got = Nothing /\ Asked # NoLoad
  /\ NoLoad \in Loads /\ NoLoad.at = "none" /\ NoLoad.got = Nothing
BY DEF Asked, NoLoad, Loads

\* The row or the drawer comes or goes, the inspection ages or is asked for.
LEMMA WatchInv ==
  ASSUME DrawerInv, UNCHANGED <<redis, seen, done>>, row' \in BOOLEAN, drawer' \in BOOLEAN,
         stale' \in BOOLEAN, calls' \subseteq Call, IsFiniteSet(calls'),
         Cardinality(calls') <= MaxCalls,
         \A c \in calls' : Known(c.basis) /\ c.made <= rev,
         \/ Ask
         \/ UNCHANGED <<load, excused>> /\ (stale => stale') /\ (Watched' => Watched)
         \/ /\ UNCHANGED <<load, excused, stale>>
            /\ ~(load = NoLoad /\ (seen = Nothing \/ stale))
  PROVE  DrawerInv'
<1>1. load' \in Loads /\ excused' \in BOOLEAN /\ (load' = load \/ load' = Asked)
  BY AskType DEF Ask, DrawerInv, DrawerTypeOK
<1>2. DrawerTypeOK'
  BY <1>1 DEF DrawerInv, DrawerTypeOK, redis
<1>3. \A i : Known(i)' <=> Known(i)
  BY DEF Known, redis
<1>4. Known(load'.got)
  BY <1>1, AskType DEF DrawerInv, Readings, Known
<1>5. Readings'
  BY <1>3, <1>4 DEF DrawerInv, Readings, redis
<1>6. Settled'
  BY AskType DEF DrawerInv, Settled, Ask, Watched
<1> QED BY <1>2, <1>5, <1>6 DEF DrawerInv

\* One more call is clicked.
LEMMA ClickInv ==
  ASSUME DrawerInv, NEW act \in {"persist", "expire", "delete"}, NEW basis,
         basis \in Inspection \union {Nothing}, Known(basis), Click(act, basis)
  PROVE  DrawerInv'
<1> DEFINE new == [act |-> act, basis |-> basis, applied |-> FALSE, made |-> 0, mine |-> TRUE]
<1>1. /\ calls' = calls \union {new} /\ Cardinality(calls) < MaxCalls
      /\ UNCHANGED <<redis, row, drawer, seen, stale, load, excused, done>>
  BY DEF Click, query
<1>2. new \in Call /\ new.basis = basis /\ new.made = 0
  BY DrawerAssumption DEF Call
<1>3. rev \in Nat /\ IsFiniteSet(calls) /\ Cardinality(calls) \in Nat /\ MaxCalls \in Nat
  BY FS_CardinalityType, DrawerAssumption DEF DrawerInv, DrawerTypeOK, Readings
<1> HIDE DEF new
<1>4. IsFiniteSet(calls') /\ Cardinality(calls') <= MaxCalls
  BY <1>1, <1>3, FS_AddElement
<1>5. calls' \subseteq Call /\ \A c \in calls' : Known(c.basis) /\ c.made <= rev
  BY <1>1, <1>2, <1>3 DEF DrawerInv, DrawerTypeOK, Readings
<1>6. row' \in BOOLEAN /\ drawer' \in BOOLEAN /\ stale' \in BOOLEAN /\ (Watched' => Watched)
  BY <1>1 DEF DrawerInv, DrawerTypeOK, Watched
<1> QED BY <1>1, <1>4, <1>5, <1>6, WatchInv

LEMMA CloseDrawerInv == DrawerInv /\ CloseDrawer => DrawerInv'
<1> SUFFICES ASSUME DrawerInv, CloseDrawer PROVE DrawerInv'
  OBVIOUS
<1> DEFINE f == [c \in calls |-> [c EXCEPT !.mine = FALSE]]
<1>1. /\ calls' = {f[c] : c \in calls} /\ drawer' = FALSE
      /\ UNCHANGED <<redis, row, seen, stale, load, excused, done>>
  BY DEF CloseDrawer, query
<1>2. \A c \in Call : /\ [c EXCEPT !.mine = FALSE] \in Call
                      /\ [c EXCEPT !.mine = FALSE].basis = c.basis
                      /\ [c EXCEPT !.mine = FALSE].made = c.made
  BY DEF Call
<1>3. calls \subseteq Call /\ row' \in BOOLEAN /\ stale' \in BOOLEAN
  BY <1>1 DEF DrawerInv, DrawerTypeOK
<1>4. f \in [calls -> Call] /\ \A c \in calls : f[c].basis = c.basis /\ f[c].made = c.made
  BY <1>2, <1>3
<1> HIDE DEF f
<1>5. /\ calls' \subseteq Call /\ IsFiniteSet(calls') /\ Cardinality(calls') <= MaxCalls
      /\ \A c \in calls' : Known(c.basis) /\ c.made <= rev
  BY <1>1, <1>4, CallsKept DEF DrawerInv
<1>6. drawer' \in BOOLEAN /\ (Watched' => Watched)
  BY <1>1 DEF Watched
<1> QED BY <1>1, <1>3, <1>5, <1>6, WatchInv

\* Every other step of the inspection's watchers.
LEMMA WatchersInv ==
  ASSUME DrawerInv,
         RowEnters \/ RowLeaves \/ OpenDrawer \/ Refresh \/ AgeInspection
           \/ ClickPersist \/ ClickDelete \/ ClickExtend
  PROVE  DrawerInv'
<1>t. /\ calls \subseteq Call /\ IsFiniteSet(calls) /\ Cardinality(calls) <= MaxCalls
      /\ \A c \in calls : Known(c.basis) /\ c.made <= rev
      /\ row \in BOOLEAN /\ drawer \in BOOLEAN /\ stale \in BOOLEAN
      /\ seen \in Inspection \union {Nothing} /\ Known(seen)
  BY DEF DrawerInv, DrawerTypeOK, Readings
<1>1. CASE RowEnters \/ OpenDrawer
  <2>1. /\ UNCHANGED <<redis, seen, stale, calls, done>> /\ Observe
        /\ row' \in BOOLEAN /\ drawer' \in BOOLEAN
    BY <1>1, <1>t DEF RowEnters, OpenDrawer
  <2> QED BY <1>t, <2>1, WatchInv DEF Observe
<1>2. CASE RowLeaves
  <2>1. /\ UNCHANGED <<redis, drawer, seen, stale, load, excused, calls, done>> /\ row' = FALSE
    BY <1>2 DEF RowLeaves, query
  <2>2. row' \in BOOLEAN /\ (Watched' => Watched)
    BY <2>1 DEF Watched
  <2> QED BY <1>t, <2>1, <2>2, WatchInv
<1>3. CASE Refresh
  BY <1>3, <1>t, WatchInv DEF Refresh
<1>4. CASE AgeInspection
  <2>1. UNCHANGED <<redis, row, drawer, seen, load, excused, calls, done>> /\ stale' = TRUE
    BY <1>4 DEF AgeInspection
  <2>2. stale' \in BOOLEAN /\ (Watched' => Watched)
    BY <2>1 DEF Watched
  <2> QED BY <1>t, <2>1, <2>2, WatchInv
<1>5. CASE ClickPersist \/ ClickDelete
  <2>1. Known(Nothing)
    BY DEF Known
  <2> QED BY <1>5, <2>1, ClickInv DEF ClickPersist, ClickDelete
<1>6. CASE ClickExtend
  BY <1>6, <1>t, ClickInv DEF ClickExtend
<1> QED BY <1>1, <1>2, <1>3, <1>4, <1>5, <1>6

\* The inspection is read, shown or lost.
LEMMA LoadInv ==
  ASSUME DrawerInv, ServeInspection \/ ShowInspection \/ LoseInspection
  PROVE  DrawerInv'
<1>t. /\ ttl \in Ttls /\ rev \in 0..MaxRev /\ done \in 0..rev /\ MaxRev \in Nat
      /\ ttl <= MaxTtl + rev * Step /\ load \in Loads
      /\ Known(load.got) /\ Known(seen)
  BY DrawerAssumption DEF DrawerInv, DrawerTypeOK, Readings
<1>1. CASE ServeInspection
  <2>1. PICK t \in {ttl, Absent} : load' = [at |-> "answered", got |-> [ttl |-> t, rev |-> rev]]
    BY <1>1 DEF ServeInspection
  <2>2. UNCHANGED <<redis, row, drawer, seen, stale, excused, calls, done>>
    BY <1>1 DEF ServeInspection
  <2> DEFINE i == [ttl |-> t, rev |-> rev]
  <2>3. i \in Inspection /\ i.ttl = t /\ i.rev = rev
    BY <1>t, <2>1 DEF Inspection, Ttls
  <2>4. Known(i)
    <3>1. MaxTtl + rev * Step \in Nat /\ rev \in Int /\ ttl \in Int
      BY <1>t, TtlFacts, StepsAddUp, DrawerAssumption
    <3>2. t <= MaxTtl + rev * Step
      BY <1>t, <2>1, <3>1, TtlFacts
    <3>3. t > 0 => ttl <= t
      BY <2>1, <3>1, TtlFacts
    <3> HIDE DEF i
    <3> QED BY <2>3, <3>1, <3>2, <3>3 DEF Known
  <2>5. load' \in Loads /\ load'.at = "answered" /\ load'.got = i
    BY <2>1, <2>3 DEF Loads
  <2> HIDE DEF i
  <2>6. DrawerTypeOK'
    BY <2>2, <2>5 DEF DrawerInv, DrawerTypeOK, redis
  <2>7. \A x : Known(x)' <=> Known(x)
    BY <2>2 DEF Known, redis
  <2>8. Readings'
    BY <2>2, <2>4, <2>5, <2>7 DEF DrawerInv, Readings, redis
  <2>9. Settled'
    <3>1. i.rev >= done
      BY <1>t, <2>3
    <3> QED BY <2>2, <2>5, <3>1, AskType DEF Settled
  <2> QED BY <2>6, <2>8, <2>9 DEF DrawerInv
<1>2. CASE ShowInspection
  <2>1. /\ load.at = "answered" /\ seen' = load.got /\ stale' = FALSE /\ load' = NoLoad
        /\ UNCHANGED <<redis, row, drawer, excused, calls, done>>
    BY <1>2 DEF ShowInspection
  <2>2. load' \in Loads /\ load'.got = Nothing /\ load'.at = "none" /\ stale' \in BOOLEAN
    BY <2>1, AskType
  <2>3. seen' \in Inspection \union {Nothing}
    BY <1>t, <2>1 DEF Loads
  <2>4. DrawerTypeOK'
    BY <2>1, <2>2, <2>3 DEF DrawerInv, DrawerTypeOK, redis
  <2>5. \A x : Known(x)' <=> Known(x)
    BY <2>1 DEF Known, redis
  <2>6. Readings'
    <3>1. Known(Nothing)
      BY DEF Known
    <3> QED BY <1>t, <2>1, <2>2, <2>5, <3>1 DEF DrawerInv, Readings, redis
  <2>7. Settled'
    BY <2>1, <2>2 DEF DrawerInv, Settled
  <2> QED BY <2>4, <2>6, <2>7 DEF DrawerInv
<1>3. CASE LoseInspection
  <2>1. /\ load' = NoLoad /\ excused' = TRUE
        /\ UNCHANGED <<redis, row, drawer, seen, stale, calls, done>>
    BY <1>3 DEF LoseInspection
  <2>2. load' \in Loads /\ load'.got = Nothing /\ excused' \in BOOLEAN
    BY <2>1, AskType
  <2>3. DrawerTypeOK'
    BY <2>1, <2>2 DEF DrawerInv, DrawerTypeOK, redis
  <2>4. \A x : Known(x)' <=> Known(x)
    BY <2>1 DEF Known, redis
  <2>5. Readings'
    BY <2>1, <2>2, <2>4 DEF DrawerInv, Readings, Known, redis
  <2>6. Settled'
    BY <2>1 DEF Settled
  <2> QED BY <2>3, <2>5, <2>6 DEF DrawerInv
<1> QED BY <1>1, <1>2, <1>3

\* A client changes the key, or a second goes by: the readings stay true.
LEMMA RedisInv ==
  ASSUME DrawerInv, UNCHANGED <<row, drawer, query, done>>,
         ttl' \in Ttls, rev' \in 0..MaxRev, ttl' <= MaxTtl + rev' * Step,
         rev' > rev \/ (rev' = rev /\ ttl' <= ttl),
         calls' \subseteq Call, IsFiniteSet(calls'), Cardinality(calls') <= MaxCalls,
         \A c \in calls' : Known(c.basis) /\ c.made <= rev'
  PROVE  DrawerInv'
<1>1. UNCHANGED <<row, drawer, seen, stale, load, excused, done>>
  BY DEF query
<1>2. rev \in Nat /\ rev' \in Nat /\ done \in 0..rev /\ done \in 0..rev'
  BY DrawerAssumption DEF DrawerInv, DrawerTypeOK
<1>3. DrawerTypeOK'
  BY <1>1, <1>2 DEF DrawerInv, DrawerTypeOK
<1>4. \A i : Known(i) => Known(i)'
  BY <1>2, KnownLater, TtlFacts DEF DrawerInv
<1>5. Readings'
  BY <1>1, <1>4 DEF DrawerInv, Readings
<1>6. Settled'
  BY <1>1 DEF DrawerInv, Settled, Watched
<1> QED BY <1>3, <1>5, <1>6 DEF DrawerInv

\* EXPIRE gives at most one step more than some reading had.
LEMMA EffectType ==
  ASSUME DrawerInv, NEW c \in calls, rev < MaxRev
  PROVE  /\ Effect(c) \in Ttls /\ Effect(c) <= MaxTtl + (rev + 1) * Step
         /\ rev + 1 \in 0..MaxRev
<1>1. /\ c.basis \in Inspection \union {Nothing} /\ Known(c.basis)
      /\ rev \in Nat /\ MaxRev \in Nat /\ MaxTtl \in Nat /\ Step \in Nat \ {0}
  <2>1. c \in Call /\ Known(c.basis) /\ rev \in 0..MaxRev
    BY DEF DrawerInv, DrawerTypeOK, Readings
  <2> QED BY <2>1, DrawerAssumption DEF Call
<1>2. /\ rev * Step \in Nat /\ (rev + 1) * Step = rev * Step + Step
      /\ (rev + 1) * Step <= MaxRev * Step /\ MaxRev * Step \in Nat
  BY <1>1, StepsAddUp
<1>3. Extended(c.basis) \in 1..(MaxTtl + (rev + 1) * Step)
  <2>1. CASE c.basis.ttl > 0
    <3>1. c.basis # Nothing
      BY <2>1, TtlFacts
    <3>2. /\ c.basis.ttl \in Int /\ c.basis.rev \in Nat /\ c.basis.rev <= rev
          /\ c.basis.ttl <= MaxTtl + c.basis.rev * Step
      BY <1>1, <3>1, TtlFacts DEF Known
    <3>3. c.basis.rev * Step \in Nat /\ c.basis.rev * Step <= rev * Step
      BY <1>1, <3>2, StepsAddUp
    <3>4. Extended(c.basis) = c.basis.ttl + Step
      BY <2>1 DEF Extended
    <3> HIDE DEF Extended
    <3> QED BY <1>1, <1>2, <2>1, <3>2, <3>3, <3>4
  <2>2. CASE ~(c.basis.ttl > 0)
    <3>1. Extended(c.basis) = Step
      BY <2>2 DEF Extended
    <3> QED BY <1>1, <1>2, <3>1
  <2> QED BY <2>1, <2>2
<1>4. 1..(MaxTtl + (rev + 1) * Step) \subseteq Ttls
  BY <1>1, <1>2 DEF Ttls
<1>5. MaxTtl + (rev + 1) * Step \in Nat
  BY <1>1, <1>2
<1>6. Effect(c) \in {Absent, Forever, Extended(c.basis)}
  BY DEF Effect
<1> QED BY <1>1, <1>3, <1>4, <1>5, <1>6 DEF Ttls, Absent, Forever

LEMMA ApplyInv ==
  ASSUME DrawerInv, NEW c \in calls, Apply(c)
  PROVE  DrawerInv'
<1> DEFINE d == [c EXCEPT !.applied = TRUE, !.made = rev']
<1>1. /\ rev < MaxRev /\ ttl' = Effect(c) /\ rev' = rev + 1
      /\ calls' = (calls \ {c}) \union {d}
      /\ UNCHANGED <<row, drawer, query, done>>
  BY DEF Apply
<1>2. /\ ttl' \in Ttls /\ rev' \in 0..MaxRev /\ ttl' <= MaxTtl + rev' * Step
      /\ rev \in Nat /\ rev' > rev
  BY <1>1, EffectType DEF DrawerInv, DrawerTypeOK
<1>3. /\ calls \subseteq Call /\ IsFiniteSet(calls) /\ Cardinality(calls) <= MaxCalls
      /\ \A x \in calls : Known(x.basis) /\ x.made <= rev
  BY DEF DrawerInv, DrawerTypeOK, Readings
<1>4. d \in Call /\ d.basis = c.basis /\ d.made = rev'
  <2>1. c \in Call
    BY <1>3
  <2> QED BY <1>2, <2>1 DEF Call
<1> HIDE DEF d
<1>5. IsFiniteSet(calls') /\ Cardinality(calls') <= MaxCalls
  <2>1. /\ IsFiniteSet(calls \ {c}) /\ Cardinality(calls \ {c}) = Cardinality(calls) - 1
        /\ Cardinality(calls) \in Nat
    BY <1>3, FS_RemoveElement, FS_CardinalityType
  <2>2. /\ IsFiniteSet((calls \ {c}) \union {d})
        /\ Cardinality((calls \ {c}) \union {d}) <= Cardinality(calls \ {c}) + 1
    BY <2>1, FS_AddElement
  <2>3. Cardinality((calls \ {c}) \union {d}) \in Nat /\ MaxCalls \in Nat
    BY <2>2, FS_CardinalityType, DrawerAssumption
  <2> QED BY <1>1, <1>3, <2>1, <2>2, <2>3
<1>6. ASSUME NEW x \in calls' PROVE x \in Call /\ Known(x.basis) /\ x.made <= rev'
  <2>1. CASE x \in calls
    <3>1. x \in Call /\ Known(x.basis) /\ x.made <= rev /\ x.made \in Int
      <4>1. x \in Call
        BY <1>3, <2>1
      <4>2. x.made \in 0..MaxRev
        BY <4>1 DEF Call
      <4> QED BY <1>3, <2>1, <4>1, <4>2, DrawerAssumption
    <3> QED BY <1>2, <3>1, DrawerAssumption
  <2>2. CASE x = d
    BY <1>2, <1>3, <1>4, <2>2, DrawerAssumption
  <2> QED BY <1>1, <2>1, <2>2
<1> QED BY <1>1, <1>2, <1>5, <1>6, RedisInv

LEMMA TimeInv == DrawerInv /\ (Second \/ OthersSet) => DrawerInv'
<1> SUFFICES ASSUME DrawerInv, Second \/ OthersSet PROVE DrawerInv'
  OBVIOUS
<1>1. UNCHANGED <<row, drawer, query, done, calls>>
  BY DEF Second, OthersSet
<1>2. /\ ttl \in Ttls /\ rev \in 0..MaxRev /\ ttl <= MaxTtl + rev * Step
      /\ calls \subseteq Call /\ IsFiniteSet(calls) /\ Cardinality(calls) <= MaxCalls
      /\ \A x \in calls : Known(x.basis) /\ x.made <= rev
  BY DEF DrawerInv, DrawerTypeOK, Readings
<1>3. /\ rev \in Nat /\ MaxRev \in Nat /\ MaxTtl \in Nat /\ ttl \in Int
      /\ rev * Step \in Nat /\ (rev + 1) * Step = rev * Step + Step /\ Step \in Nat
      /\ MaxRev * Step \in Nat
  BY <1>2, TtlFacts, StepsAddUp, DrawerAssumption
<1>4. CASE Second
  <2>1. ttl > 0 /\ rev' = rev /\ ttl' = IF ttl > 1 THEN ttl - 1 ELSE Absent
    BY <1>4 DEF Second
  <2>2. ttl' \in Ttls /\ ttl' <= ttl
    BY <1>2, <1>3, <2>1 DEF Ttls, Absent, Forever
  <2>3. ttl' \in Int
    BY <2>2, TtlFacts
  <2>4. ttl' <= MaxTtl + rev' * Step
    <3>1. PICK n \in Nat : n = MaxTtl + rev * Step
      BY <1>3
    <3>2. ttl' <= n
      BY <1>2, <1>3, <2>2, <2>3, <3>1
    <3> QED BY <2>1, <3>1, <3>2
  <2> QED BY <1>1, <1>2, <2>1, <2>2, <2>4, RedisInv
<1>5. CASE OthersSet
  <2>1. rev < MaxRev /\ ttl' \in {Absent, Forever} \union 1..MaxTtl /\ rev' = rev + 1
    BY <1>5 DEF OthersSet
  <2>2. /\ ttl' \in Ttls /\ rev' \in 0..MaxRev /\ rev' > rev
        /\ ttl' <= MaxTtl + rev' * Step
    BY <1>3, <2>1 DEF Ttls, Absent, Forever
  <2>3. \A x \in calls' : Known(x.basis) /\ x.made <= rev'
    <3>1. \A x \in calls : x.made \in Int
      BY <1>2, DrawerAssumption DEF Call
    <3> QED BY <1>1, <1>2, <1>3, <2>1, <3>1
  <2> QED BY <1>1, <1>2, <2>2, <2>3, RedisInv
<1> QED BY <1>4, <1>5

\* The answer to a mutation: it marks the inspection, and has it fetched again if it can.
LEMMA AckCallInv ==
  ASSUME DrawerInv, NEW c \in calls, AckCall(c)
  PROVE  DrawerInv'
<1> DEFINE f == [d \in calls \ {c} |-> [d EXCEPT !.mine = @ /\ drawer']]
<1>1. /\ drawer' = (drawer /\ ~(c.act = "delete" /\ c.mine))
      /\ calls' = {f[d] : d \in calls \ {c}}
      /\ done' = IF c.made > done THEN c.made ELSE done
      /\ stale' = (seen # Nothing \/ load # NoLoad)
      /\ UNCHANGED <<redis, row, seen>>
      /\ \/ Refetched /\ Ask
         \/ ~Refetched /\ excused' = (excused \/ load # NoLoad) /\ UNCHANGED load
  BY DEF AckCall
<1>2. /\ row \in BOOLEAN /\ drawer \in BOOLEAN /\ excused \in BOOLEAN /\ load \in Loads
      /\ calls \subseteq Call /\ rev \in 0..MaxRev /\ MaxRev \in Nat
      /\ done \in 0..rev /\ seen \in Inspection \union {Nothing}
      /\ \A x \in calls : Known(x.basis) /\ x.made <= rev
  BY DrawerAssumption DEF DrawerInv, DrawerTypeOK, Readings
<1>3. drawer' \in BOOLEAN /\ stale' \in BOOLEAN /\ (drawer' => drawer)
  <2>1. drawer' \in BOOLEAN /\ (drawer' => drawer)
    BY <1>1, <1>2, Zenon
  <2>2. stale' \in BOOLEAN
    BY <1>1, Zenon
  <2> QED BY <2>1, <2>2
<1>4. \A x \in Call : /\ [x EXCEPT !.mine = @ /\ drawer'] \in Call
                      /\ [x EXCEPT !.mine = @ /\ drawer'].basis = x.basis
                      /\ [x EXCEPT !.mine = @ /\ drawer'].made = x.made
  <2>1. \A b \in BOOLEAN : (b /\ drawer') \in BOOLEAN
    BY <1>3, Zenon
  <2> QED BY <1>3, <2>1 DEF Call
<1>5. f \in [calls \ {c} -> Call] /\ \A x \in calls \ {c} : f[x].basis = x.basis /\ f[x].made = x.made
  BY <1>2, <1>4
<1>6. done' \in 0..rev
  <2>1. c.made \in 0..MaxRev /\ c.made <= rev
    BY <1>2 DEF Call
  <2> QED BY <1>1, <1>2, <2>1
<1> HIDE DEF f
<1>7. /\ calls' \subseteq Call /\ IsFiniteSet(calls') /\ Cardinality(calls') <= MaxCalls
      /\ \A x \in calls' : Known(x.basis) /\ x.made <= rev
  BY <1>1, <1>5, CallsKept DEF DrawerInv
<1>8. /\ load' \in Loads /\ excused' \in BOOLEAN /\ (load' = load \/ load' = Asked)
  <2>1. CASE Ask
    BY <2>1, AskType DEF Ask
  <2>2. CASE excused' = (excused \/ load # NoLoad) /\ UNCHANGED load
    <3>1. excused' \in BOOLEAN
      BY <1>2, <2>2, Zenon
    <3> QED BY <1>2, <2>2, <3>1
  <2> QED BY <1>1, <2>1, <2>2
<1>9. DrawerTypeOK'
  BY <1>1, <1>2, <1>3, <1>6, <1>7, <1>8 DEF DrawerInv, DrawerTypeOK, redis
<1>10. \A x : Known(x)' <=> Known(x)
  BY <1>1 DEF Known, redis
<1>11. Readings'
  <2>1. Known(load'.got)
    BY <1>8, AskType DEF DrawerInv, Readings, Known
  <2> QED BY <1>1, <1>7, <1>10, <2>1 DEF DrawerInv, Readings, redis
<1>12. Settled'
  <2>1. CASE Refetched /\ Ask
    BY <2>1, AskType DEF Settled, Ask
  <2>2. CASE ~Refetched /\ excused' = (excused \/ load # NoLoad) /\ UNCHANGED load
    <3>1. ~excused' => load = NoLoad /\ ~Watched /\ (stale' <=> seen # Nothing)
      BY <1>1, <2>2 DEF Refetched
    <3>2. ~excused' => ~Watched'
      BY <1>1, <1>3, <3>1 DEF Watched
    <3> QED BY <1>1, <2>2, <3>1, <3>2, AskType DEF Settled
  <2> QED BY <1>1, <2>1, <2>2
<1> QED BY <1>9, <1>11, <1>12 DEF DrawerInv

LEMMA FailCallInv ==
  ASSUME DrawerInv, NEW c \in calls, FailCall(c)
  PROVE  DrawerInv'
<1>1. calls' = calls \ {c} /\ UNCHANGED <<redis, row, drawer, seen, stale, load, excused, done>>
  BY DEF FailCall, query
<1>2. /\ calls \subseteq Call /\ IsFiniteSet(calls) /\ Cardinality(calls) <= MaxCalls
      /\ \A x \in calls : Known(x.basis) /\ x.made <= rev
      /\ row \in BOOLEAN /\ drawer \in BOOLEAN /\ stale \in BOOLEAN
  BY DEF DrawerInv, DrawerTypeOK, Readings
<1>3. IsFiniteSet(calls') /\ Cardinality(calls') <= MaxCalls
  <2>1. IsFiniteSet(calls') /\ Cardinality(calls') <= Cardinality(calls)
    BY <1>1, <1>2, FS_Subset
  <2>2. Cardinality(calls) \in Nat /\ Cardinality(calls') \in Nat /\ MaxCalls \in Nat
    BY <1>2, <2>1, FS_CardinalityType, DrawerAssumption
  <2> QED BY <1>2, <2>1, <2>2
<1>4. Watched' => Watched
  BY <1>1 DEF Watched
<1> QED BY <1>1, <1>2, <1>3, <1>4, WatchInv

LEMMA DrawerInvNext == DrawerInv /\ [DrawerNext]_drawerVars => DrawerInv'
<1> SUFFICES ASSUME DrawerInv, [DrawerNext]_drawerVars PROVE DrawerInv'
  OBVIOUS
<1>1. CASE \E c \in calls : Apply(c) \/ AckCall(c) \/ FailCall(c)
  BY <1>1, ApplyInv, AckCallInv, FailCallInv
<1>2. CASE UNCHANGED drawerVars
  BY <1>2 DEF drawerVars, DrawerInv, DrawerTypeOK, Readings, Known, Settled, Watched
<1> QED BY <1>1, <1>2, CloseDrawerInv, WatchersInv, LoadInv, TimeInv DEF DrawerNext

\* KeyDetailDrawer.tsx, TtlRing.tsx: the drawer's TTLs, its inspection, its calls and
\* what they were clicked on stay in their ranges.
THEOREM DrawerTypeCorrect == DrawerSpec => []DrawerTypeOK
<1>1. DrawerInv => DrawerTypeOK
  BY DEF DrawerInv
<1> QED BY DrawerInitInv, DrawerInvNext, <1>1, PTL DEF DrawerSpec

\* use-cache-mutations.ts: whoever shows a settled inspection shows the key as it was
\* after the newest acknowledged mutation, but for the escapes InspectionFresh names.
THEOREM InspectionFreshHolds == DrawerSpec => []InspectionFresh
<1>1. DrawerInv => InspectionFresh
  BY DEF DrawerInv, Settled, InspectionFresh
<1> QED BY DrawerInitInv, DrawerInvNext, <1>1, PTL DEF DrawerSpec

\* Extending the key lengthens its life, if nobody changed it since the reading.
LEMMA ExtendStep ==
  ASSUME DrawerInv, [DrawerNext]_drawerVars, NEW c \in calls,
         c.act = "expire", c.basis.ttl > 0, c.basis.rev = rev,
         ttl # Absent, rev' # rev, c \notin calls'
  PROVE  ttl' >= ttl + Step
<1>1. c.basis \in Inspection \union {Nothing} /\ Known(c.basis)
  BY DEF DrawerInv, DrawerTypeOK, Readings, Call
<1>2. c.basis \in Inspection /\ ttl <= c.basis.ttl
  BY <1>1, TtlFacts DEF Known
<1>3. Apply(c)
  <2>1. ~UNCHANGED rev
    OBVIOUS
  <2>2. \/ \E d \in calls : Apply(d)
        \/ OthersSet
    BY <2>1 DEF DrawerNext, drawerVars, RowEnters, RowLeaves, OpenDrawer, CloseDrawer, Refresh,
            AgeInspection, ServeInspection, ShowInspection, LoseInspection, ClickPersist,
            ClickDelete, ClickExtend, Click, AckCall, FailCall, Second, redis
  <2>3. ~OthersSet
    BY DEF OthersSet
  <2>4. \A d \in calls : Apply(d) => d = c
    BY DEF Apply
  <2> QED BY <2>2, <2>3, <2>4
<1>4. ttl' = c.basis.ttl + Step
  BY <1>3 DEF Apply, Effect, Extended
<1>5. ttl \in Int /\ c.basis.ttl \in Int /\ Step \in Int
  BY <1>2, TtlFacts, DrawerAssumption DEF DrawerInv, DrawerTypeOK
<1> QED BY <1>2, <1>4, <1>5

\* handleExtend: EXPIRE with what the drawer showed plus the step gives an expiring key
\* more time than it had, unless somebody changed the key since that reading.
THEOREM ExtendLengthensHolds == DrawerSpec => ExtendLengthens
<1> DEFINE Lengthens ==
      \A c \in calls : c.act = "expire" /\ c.basis.ttl > 0 /\ c.basis.rev = rev
        /\ ttl # Absent /\ rev' # rev /\ c \notin calls' => ttl' >= ttl + Step
<1>1. DrawerInv /\ [DrawerNext]_drawerVars => [Lengthens]_drawerVars
  BY ExtendStep
<1> QED BY DrawerInitInv, DrawerInvNext, <1>1, PTL DEF DrawerSpec, ExtendLengthens

-----------------------------------------------------------------------------
(* The two rings *)

\* While nobody has changed the key since the inspection, or it is gone, the countdown
\* is late by exactly what `behind' and `due' say, and never below what is left.
Counting ==
  /\ due = 1 => prop >= 0
  /\ prop >= 0 => remaining \in 0..prop
  /\ told /\ real # Gone =>
       /\ prop < 0 => real = prop
       /\ prop >= 0 => real >= 0 /\ remaining = real + behind + due

\* The answer on its way is as old as the key has run down since.
Travelling ==
  answer.told /\ real # Gone =>
    /\ answer.value < 0 => real = answer.value
    /\ answer.value >= 0 => real >= 0 /\ answer.value = real + answer.age

RingInv == RingTypeOK /\ Counting /\ Travelling

Answer == [value : Ttl, age : 0..LongestTtl, told : BOOLEAN, underway : BOOLEAN]

LEMMA RingFacts ==
  /\ Ttl \subseteq Int /\ Gone = -2 /\ Persisted = -1 /\ LongestTtl \in Nat
  /\ NoReply \in Answer /\ ~NoReply.told /\ ~NoReply.underway
  /\ \A n \in Ttl : n >= 0 => n \in 0..LongestTtl
  /\ 0..LongestTtl \subseteq Ttl
BY RingAssumption DEF Ttl, Gone, Persisted, NoReply, Answer

LEMMA RingInitInv == RingInit => RingInv
<1> SUFFICES ASSUME RingInit PROVE RingInv
  OBVIOUS
<1>1. answer \in Answer /\ ~answer.told /\ due = 0 /\ told = TRUE
  BY RingFacts DEF RingInit
<1>2. CASE DrawerRing
  <2>1. /\ place = "drawer" /\ real \in Ttl /\ prop = real /\ behind = 0 /\ remaining = prop
    BY <1>2 DEF DrawerRing
  <2>2. RingTypeOK
    BY <1>1, <2>1, RingFacts DEF RingTypeOK, Answer
  <2>3. Counting /\ Travelling
    BY <1>1, <2>1, RingFacts DEF Counting, Travelling
  <2> QED BY <2>2, <2>3 DEF RingInv
<1>3. CASE WallRing
  <2>1. /\ place = "wall" /\ remaining = IF prop > 0 THEN prop ELSE 0
        /\ \/ prop = Persisted /\ real \in {Persisted, Gone} /\ behind = 0
           \/ /\ prop = LongestTtl /\ real \in Ttl \ {Persisted}
              /\ behind = IF real = Gone THEN 0 ELSE prop - real
    BY <1>3 DEF WallRing
  <2>2. RingTypeOK
    BY <1>1, <2>1, RingFacts DEF RingTypeOK, Answer, Ttl
  <2>3. Counting /\ Travelling
    BY <1>1, <2>1, RingFacts DEF Counting, Travelling, Ttl
  <2> QED BY <2>2, <2>3 DEF RingInv
<1> QED BY <1>2, <1>3 DEF RingInit

\* What the types say, in numbers.
LEMMA RingTypes ==
  ASSUME RingInv
  PROVE  /\ real \in Int /\ prop \in Int /\ remaining \in Int /\ behind \in Nat /\ due \in {0, 1}
         /\ answer.value \in Int /\ answer.age \in Nat /\ answer.told \in BOOLEAN
         /\ answer \in Answer /\ answer.value \in Ttl /\ answer.age \in 0..LongestTtl
         /\ told \in BOOLEAN /\ real \in Ttl /\ prop \in Ttl /\ remaining \in Ttl
         /\ behind \in 0..LongestTtl /\ place \in {"drawer", "wall"}
         /\ Counting /\ Travelling
<1>1. /\ real \in Ttl /\ prop \in Ttl /\ remaining \in Ttl /\ answer \in Answer
      /\ due \in {0, 1} /\ behind \in 0..LongestTtl /\ told \in BOOLEAN
      /\ place \in {"drawer", "wall"} /\ Counting /\ Travelling
  BY DEF RingInv, RingTypeOK, Answer
<1>2. answer.value \in Ttl /\ answer.age \in 0..LongestTtl /\ answer.told \in BOOLEAN
  BY <1>1 DEF Answer
<1>3. \A n \in 0..LongestTtl : n \in Nat
  BY RingFacts
<1>4. \A n \in Ttl : n \in Int
  BY RingFacts
<1>5. real \in Int /\ prop \in Int /\ remaining \in Int /\ behind \in Nat
  BY <1>1, <1>3, <1>4
<1>6. answer.value \in Int /\ answer.age \in Nat
  BY <1>2, <1>3, <1>4
<1> QED BY <1>1, <1>2, <1>5, <1>6

LEMMA PassSecondInv == RingInv /\ PassSecond => RingInv'
<1> SUFFICES ASSUME RingInv, PassSecond PROVE RingInv'
  OBVIOUS
<1>1. /\ real' = IF real = 0 THEN Gone ELSE IF real > 0 THEN real - 1 ELSE real
      /\ due' = IF prop >= 0 THEN 1 ELSE 0
      /\ behind' = IF real > 0 /\ due = 1 /\ told THEN behind + 1 ELSE behind
      /\ UNCHANGED <<place, prop, remaining, told>>
  BY DEF PassSecond
<1>2. real' \in Ttl /\ due' \in {0, 1}
  BY <1>1, RingTypes, RingFacts DEF Ttl
<1>3. behind' \in 0..LongestTtl
  <2>1. ASSUME real > 0, due = 1, told PROVE behind + 1 <= LongestTtl
    <3>1. prop >= 0 /\ remaining = real + behind + 1
      BY <2>1, RingTypes, RingFacts DEF Counting
    <3>2. remaining \in 0..LongestTtl
      BY <3>1, RingTypes, RingFacts DEF Counting
    <3> QED BY <2>1, <3>1, <3>2, RingTypes, RingFacts
  <2> QED BY <1>1, <2>1, RingTypes, RingFacts
<1>4. /\ answer' \in Answer /\ answer'.value = answer.value /\ answer'.told = answer.told
      /\ answer'.age = IF real > 0 /\ answer.told THEN answer.age + 1 ELSE answer.age
  <2>1. CASE real > 0 /\ answer.told
    <3>1. answer' = [answer EXCEPT !.age = @ + 1]
      BY <2>1 DEF PassSecond
    <3>2. answer.age + 1 \in 0..LongestTtl
      <4>1. answer.value = real + answer.age /\ answer.value \in 0..LongestTtl
        BY <2>1, RingTypes, RingFacts DEF Travelling
      <4> QED BY <2>1, <4>1, RingTypes, RingFacts
    <3> QED BY <2>1, <3>1, <3>2, RingTypes DEF Answer
  <2>2. CASE ~(real > 0 /\ answer.told)
    <3>1. answer' = answer
      BY <2>2 DEF PassSecond
    <3> QED BY <2>2, <3>1, RingTypes
  <2> QED BY <2>1, <2>2
<1>5. RingTypeOK'
  BY <1>1, <1>2, <1>3, <1>4, RingTypes DEF RingTypeOK, Answer
<1>6. Counting'
  BY <1>1, RingTypes, RingFacts DEF Counting
<1>7. Travelling'
  BY <1>1, <1>4, RingTypes, RingFacts DEF Travelling
<1> QED BY <1>5, <1>6, <1>7 DEF RingInv

LEMMA RingTickInv == RingInv /\ RingTick => RingInv'
<1> SUFFICES ASSUME RingInv, RingTick PROVE RingInv'
  OBVIOUS
<1>1. /\ due = 1 /\ due' = 0 /\ remaining' = IF remaining > 0 THEN remaining - 1 ELSE 0
      /\ UNCHANGED <<place, real, answer, prop, behind, told>>
  BY DEF RingTick
<1>2. prop >= 0 /\ remaining \in 0..prop
  BY <1>1, RingTypes DEF Counting
<1>3. remaining' \in Ttl /\ remaining' \in 0..prop
  BY <1>1, <1>2, RingTypes, RingFacts
<1>4. RingTypeOK'
  BY <1>1, <1>3, RingTypes DEF RingTypeOK, Answer
<1>5. Counting' /\ Travelling'
  BY <1>1, <1>2, <1>3, RingTypes, RingFacts DEF Counting, Travelling
<1> QED BY <1>4, <1>5 DEF RingInv

LEMMA ChangeTtlInv ==
  ASSUME RingInv, NEW t \in Ttl, ChangeTtl(t)
  PROVE  RingInv'
<1>1. /\ real' = t /\ told' = FALSE /\ behind' = 0
      /\ answer' = [answer EXCEPT !.told = FALSE, !.age = 0]
      /\ UNCHANGED <<place, prop, remaining, due>>
  BY DEF ChangeTtl
<1>2. answer' \in Answer /\ ~answer'.told
  <2>1. answer' = [value |-> answer.value, age |-> 0, told |-> FALSE, underway |-> answer.underway]
    BY <1>1, RingTypes DEF Answer
  <2>2. 0 \in 0..LongestTtl /\ answer.underway \in BOOLEAN
    BY RingTypes, RingFacts DEF Answer
  <2> QED BY <2>1, <2>2, RingTypes DEF Answer
<1>3. RingTypeOK'
  BY <1>1, <1>2, RingTypes, RingFacts DEF RingTypeOK, Answer
<1>4. Counting' /\ Travelling'
  BY <1>1, <1>2, RingTypes DEF Counting, Travelling
<1> QED BY <1>3, <1>4 DEF RingInv

\* An inspection is read, arrives, or is shown again.
LEMMA RingAnswerInv == RingInv /\ (ReadTtl \/ ReceiveTtl \/ Reopen) => RingInv'
<1> SUFFICES ASSUME RingInv, ReadTtl \/ ReceiveTtl \/ Reopen PROVE RingInv'
  OBVIOUS
<1>1. CASE ReadTtl
  <2>1. /\ answer' = [value |-> real, age |-> 0, told |-> TRUE, underway |-> TRUE]
        /\ UNCHANGED <<place, real, prop, remaining, due, behind, told>>
    BY <1>1 DEF ReadTtl
  <2>2. answer' \in Answer /\ answer'.value = real /\ answer'.age = 0
    BY <2>1, RingTypes, RingFacts DEF Answer
  <2>3. RingTypeOK'
    BY <2>1, <2>2, RingTypes DEF RingTypeOK, Answer
  <2>4. Counting' /\ Travelling'
    BY <2>1, <2>2, RingTypes, RingFacts DEF Counting, Travelling, Ttl
  <2> QED BY <2>3, <2>4 DEF RingInv
<1>2. CASE ReceiveTtl
  <2>1. /\ answer' = NoReply /\ UNCHANGED <<place, real>>
        /\ \/ UNCHANGED <<prop, remaining, due, behind, told>>
           \/ /\ prop' = answer.value /\ remaining' = answer.value /\ due' = 0
              /\ behind' = answer.age /\ told' = answer.told
    BY <1>2 DEF ReceiveTtl, Resynced
  <2>2. RingTypeOK'
    BY <2>1, RingTypes, RingFacts DEF RingTypeOK, Answer
  <2>3. Counting' /\ Travelling'
    BY <2>1, RingTypes, RingFacts DEF Counting, Travelling
  <2> QED BY <2>2, <2>3 DEF RingInv
<1>3. CASE Reopen
  <2>1. /\ remaining' = prop /\ due' = 0
        /\ behind' = IF told /\ prop >= 0 /\ real >= 0 THEN prop - real ELSE behind
        /\ UNCHANGED <<place, real, answer, prop, told>>
    BY <1>3 DEF Reopen
  <2>2. ASSUME told, prop >= 0, real >= 0 PROVE prop - real \in 0..LongestTtl
    <3>1. remaining \in 0..prop /\ remaining = real + behind + due /\ prop \in 0..LongestTtl
      BY <2>2, RingTypes, RingFacts DEF Counting
    <3> QED BY <2>2, <3>1, RingTypes, RingFacts
  <2>3. RingTypeOK'
    BY <2>1, <2>2, RingTypes, RingFacts DEF RingTypeOK, Answer
  <2>4. Counting' /\ Travelling'
    BY <2>1, RingTypes, RingFacts DEF Counting, Travelling
  <2> QED BY <2>3, <2>4 DEF RingInv
<1> QED BY <1>1, <1>2, <1>3

LEMMA RingInvNext == RingInv /\ [RingNext]_ringVars => RingInv'
<1> SUFFICES ASSUME RingInv, [RingNext]_ringVars PROVE RingInv'
  OBVIOUS
<1>1. CASE UNCHANGED ringVars
  BY <1>1 DEF ringVars, RingInv, RingTypeOK, Counting, Travelling
<1> QED BY <1>1, PassSecondInv, RingTickInv, ChangeTtlInv, RingAnswerInv DEF RingNext

LEMMA RingShows == RingInv => RingKeepsTime
<1> SUFFICES ASSUME RingInv, told, real # Gone
             PROVE  /\ Label < 0 => Label = real
                    /\ real >= 0 => Label = real + behind + due
                    /\ IsExpiring => real = 0
  BY DEF RingKeepsTime
<1>1. CASE prop >= 0
  BY <1>1, RingTypes, RingFacts DEF Counting, Label, IsExpiring
<1>2. CASE prop < 0
  BY <1>2, RingTypes, RingFacts DEF Counting, Label, IsExpiring
<1> QED BY <1>1, <1>2, RingTypes

\* explorer/TtlRing.tsx, realtime/TtlRing.tsx: a ring is late by the travel of its answer
\* and its lost ticks, no more, and "expiring..." is said of a key in its last second.
THEOREM RingKeepsTimeHolds == RingSpec => []RingKeepsTime
BY RingInitInv, RingInvNext, RingShows, PTL DEF RingSpec

-----------------------------------------------------------------------------
(* The live socket, for entries of any kind *)

SocketOK(E) ==
  /\ {enabled, raf, frame} \subseteq BOOLEAN
  /\ pending \in Seq(E) /\ buffer \in Seq(E) /\ Len(buffer) <= Capacity
  /\ ~enabled => pending = <<>>
  /\ seq \in Nat

LEMMA StreamType ==
  ASSUME NEW E, SocketOK(E)
  PROVE  /\ Stream \in Seq(E) /\ Len(Stream) = Len(buffer) + Len(pending)
         /\ Len(buffer) \in Nat /\ Len(pending) \in Nat
         /\ \A i \in 1..Len(buffer) : Stream[i] = buffer[i]
         /\ \A i \in 1..Len(pending) : Stream[Len(buffer) + i] = pending[i]
         /\ pending = <<>> => Stream = buffer
<1>1. buffer \in Seq(E) /\ pending \in Seq(E)
  BY DEF SocketOK
<1>2. pending = <<>> => Stream = buffer
  BY <1>1 DEF Stream
<1> QED BY <1>1, <1>2 DEF Stream

LEMMA SocketStart == ASSUME NEW E, SocketInit PROVE SocketOK(E) /\ Stream = <<>>
<1>1. {enabled, raf, frame} \subseteq BOOLEAN /\ pending = <<>> /\ buffer = <<>> /\ seq = 0
  BY DEF SocketInit
<1>2. <<>> \in Seq(E) /\ Len(<<>>) = 0 /\ <<>> \o <<>> = <<>>
  OBVIOUS
<1> QED BY <1>1, <1>2, CapacityAssumption DEF SocketOK, Stream

\* An entry comes in: it is the newest.
LEMMA ReceiveStream ==
  ASSUME NEW E, SocketOK(E), NEW kind, NEW key, Receive(kind, key),
         [kind |-> kind, key |-> key, seq |-> seq] \in E
  PROVE  /\ SocketOK(E)' /\ seq' = seq + 1 /\ UNCHANGED <<enabled, buffer>>
         /\ Len(Stream') = Len(Stream) + 1
         /\ \A i \in 1..Len(Stream) : Stream'[i] = Stream[i]
         /\ Stream'[Len(Stream')] = [kind |-> kind, key |-> key, seq |-> seq]
<1> DEFINE e == [kind |-> kind, key |-> key, seq |-> seq]
<1>1. /\ pending' = Append(pending, e) /\ seq' = seq + 1 /\ raf' = TRUE /\ enabled
      /\ UNCHANGED <<enabled, buffer>> /\ e \in E
  BY DEF Receive
<1>2. pending \in Seq(E) /\ buffer \in Seq(E) /\ seq \in Nat
  BY DEF SocketOK
<1> HIDE DEF e
<1>3. /\ pending' \in Seq(E) /\ Len(pending') = Len(pending) + 1
      /\ pending'[Len(pending')] = e /\ \A i \in 1..Len(pending) : pending'[i] = pending[i]
  BY <1>1, <1>2
<1>4. /\ Len(buffer \o pending') = Len(buffer \o pending) + 1
      /\ \A i \in 1..Len(buffer \o pending) : (buffer \o pending')[i] = (buffer \o pending)[i]
      /\ (buffer \o pending')[Len(buffer \o pending')] = e
  BY <1>2, <1>3, ConcatGrows
<1>5. frame' \in BOOLEAN
  BY Zenon DEF Receive
<1>6. SocketOK(E)'
  BY <1>1, <1>2, <1>3, <1>5 DEF SocketOK
<1> QED BY <1>1, <1>4, <1>6 DEF Stream, e

\* A frame keeps the newest entries, in order.
LEMMA FlushStream ==
  ASSUME NEW E, SocketOK(E), Flush
  PROVE  /\ SocketOK(E)' /\ UNCHANGED <<enabled, seq>> /\ pending' = <<>> /\ Stream' = buffer'
         /\ \E d \in Nat : /\ Len(Stream) = Len(Stream') + d
                           /\ \A i \in 1..Len(Stream') : Stream'[i] = Stream[i + d]
<1>1. /\ buffer' = NewestPart(Stream, Capacity) /\ pending' = <<>> /\ raf' = FALSE
      /\ frame' = FALSE /\ UNCHANGED <<enabled, seq>>
  BY DEF Flush, Trim, NewestPart, Stream
<1>2. Stream \in Seq(E) /\ Capacity \in Nat \ {0}
  BY StreamType, CapacityAssumption
<1>3. /\ buffer' \in Seq(E) /\ Len(buffer') <= Capacity
      /\ \E d \in Nat : /\ Len(Stream) = Len(buffer') + d
                        /\ \A i \in 1..Len(buffer') : buffer'[i] = Stream[i + d]
  <2> DEFINE t == NewestPart(Stream, Capacity)
  <2>1. /\ t \in Seq(E) /\ Len(t) <= Capacity
        /\ \E d \in Nat : /\ Len(Stream) = Len(t) + d
                          /\ d > 0 => Len(t) = Capacity
                          /\ \A i \in 1..Len(t) : t[i] = Stream[i + d]
    BY <1>2, NewestPartKept
  <2> QED BY <1>1, <2>1
<1>4. Stream' = buffer'
  BY <1>1, <1>3 DEF Stream
<1>5. {enabled', raf', frame'} \subseteq BOOLEAN
  BY <1>1 DEF SocketOK
<1>6. SocketOK(E)'
  BY <1>1, <1>3, <1>5 DEF SocketOK
<1> QED BY <1>1, <1>3, <1>4, <1>6

\* Live goes on, with nothing pending yet, or off: then what is pending is lost.
LEMMA ToggleStream ==
  ASSUME NEW E, SocketOK(E), Enable \/ Disable
  PROVE  /\ SocketOK(E)' /\ UNCHANGED <<buffer, seq>> /\ Stream' = buffer
         /\ Enable => Stream' = Stream
<1>1. pending' = <<>> /\ raf' = FALSE /\ UNCHANGED <<buffer, seq>>
  BY DEF Enable, Disable, Connect
<1>2. enabled' \in BOOLEAN /\ frame' \in BOOLEAN
  <2>1. frame \in BOOLEAN
    BY DEF SocketOK
  <2> QED BY <2>1, Zenon DEF Enable, Disable, Connect
<1>3. SocketOK(E)'
  <2>1. {enabled', raf', frame'} \subseteq BOOLEAN
    BY <1>1, <1>2
  <2>2. pending' \in Seq(E) /\ buffer' \in Seq(E) /\ Len(buffer') <= Capacity /\ seq' \in Nat
    BY <1>1 DEF SocketOK
  <2> QED BY <1>1, <2>1, <2>2 DEF SocketOK
<1>4. buffer \in Seq(E) /\ Stream' = buffer
  BY <1>1 DEF SocketOK, Stream
<1>5. Enable => Stream' = Stream
  BY <1>4, StreamType DEF Enable, SocketOK
<1> QED BY <1>1, <1>3, <1>4, <1>5

-----------------------------------------------------------------------------
(* The badge *)

\* A lifecycle event, and what the newest of them in a list says.
IsState(e) == e.key \in Lifecycle
NewestSays(s, c) ==
  \A i \in 1..Len(s) :
    IsState(s[i]) /\ (\A j \in 1..Len(s) : j > i => ~IsState(s[j])) => s[i].key = c

\* An event is a connection's, or has no name.
Named(s) ==
  \A i \in 1..Len(s) : IF s[i].kind = "connection" THEN s[i].key \in Events ELSE s[i].key = "none"

StatusInv ==
  /\ StatusTypeOK /\ SocketOK(Entry)
  /\ probed /\ "ready" \in probe => conn = "ready"
  /\ polled => health # "none" /\ (health = "ready" => conn = "ready")
  /\ Named(Stream)
  /\ ~missed => NewestSays(Stream, conn)

\* What is left of a list when its oldest entries go.
LEMMA PartSays ==
  ASSUME NEW s, NEW t, NEW c, NEW d \in Nat, Len(s) = Len(t) + d, Len(t) \in Nat,
         \A i \in 1..Len(t) : t[i] = s[i + d]
  PROVE  (Named(s) => Named(t)) /\ (NewestSays(s, c) => NewestSays(t, c))
<1>1. \A i \in 1..Len(t) : i + d \in 1..Len(s)
  OBVIOUS
<1>2. ASSUME Named(s) PROVE Named(t)
  BY <1>1, <1>2 DEF Named
<1>3. ASSUME NewestSays(s, c) PROVE NewestSays(t, c)
  <2> SUFFICES ASSUME NEW i \in 1..Len(t), IsState(t[i]),
                      \A j \in 1..Len(t) : j > i => ~IsState(t[j])
               PROVE  t[i].key = c
    BY DEF NewestSays
  <2>1. ASSUME NEW j \in 1..Len(s), j > i + d PROVE ~IsState(s[j])
    <3>1. j - d \in 1..Len(t) /\ j - d > i /\ (j - d) + d = j
      BY <2>1
    <3> QED BY <3>1
  <2> QED BY <1>1, <1>3, <2>1 DEF NewestSays
<1> QED BY <1>2, <1>3

\* And when one more comes in: it is the newest if it is a lifecycle event.
LEMMA GrownSays ==
  ASSUME NEW s, NEW t, NEW c, Len(t) = Len(s) + 1, Len(s) \in Nat,
         \A i \in 1..Len(s) : t[i] = s[i]
  PROVE  /\ Named(s) /\ (IF t[Len(t)].kind = "connection" THEN t[Len(t)].key \in Events
                                                           ELSE t[Len(t)].key = "none") => Named(t)
         /\ IsState(t[Len(t)]) /\ t[Len(t)].key = c => NewestSays(t, c)
         /\ ~IsState(t[Len(t)]) /\ NewestSays(s, c) => NewestSays(t, c)
<1>1. \A i \in 1..Len(t) : i \in 1..Len(s) \/ i = Len(t)
  OBVIOUS
<1>2. Len(t) \in 1..Len(t) /\ \A i \in 1..Len(s) : i \in 1..Len(t) /\ Len(t) > i
  OBVIOUS
<1> QED BY <1>1, <1>2 DEF Named, NewestSays

LEMMA StatusInitInv == StatusInit => StatusInv /\ ~polled
<1> SUFFICES ASSUME StatusInit PROVE StatusInv /\ ~polled
  OBVIOUS
<1>1. /\ SocketInit /\ conn = "connect" /\ health = "none" /\ probe = {}
      /\ probed = FALSE /\ polled = FALSE /\ missed = FALSE
  BY DEF StatusInit
<1>2. SocketOK(Entry) /\ Stream = <<>>
  BY <1>1, SocketStart
<1>3. seq \in 0..MaxSeq
  BY <1>1, StatusAssumption DEF SocketInit
<1>4. StatusTypeOK
  <2>1. {enabled, raf, frame, probed, polled, missed} \subseteq BOOLEAN
    BY <1>1, <1>2 DEF SocketOK
  <2> QED BY <1>1, <1>2, <1>3, <2>1 DEF StatusTypeOK, SocketOK, Lifecycle
<1>5. Named(Stream) /\ NewestSays(Stream, conn)
  BY <1>2 DEF Named, NewestSays
<1> QED BY <1>1, <1>2, <1>4, <1>5 DEF StatusInv

\* An event that reaches the tab.
LEMMA EventInv ==
  ASSUME StatusInv, NEW kind \in {"connection", "message"}, NEW key \in Events \union {"none"},
         seq < MaxSeq, Receive(kind, key), kind = "connection" <=> key # "none"
  PROVE  /\ SocketOK(Entry)' /\ seq' \in 0..MaxSeq /\ Named(Stream)'
         /\ key \in Lifecycle => NewestSays(Stream, key)'
         /\ \A c : key \notin Lifecycle /\ NewestSays(Stream, c) => NewestSays(Stream', c)
<1> DEFINE e == [kind |-> kind, key |-> key, seq |-> seq]
<1>1. seq \in 0..MaxSeq /\ SocketOK(Entry) /\ Named(Stream)
  BY DEF StatusInv, StatusTypeOK
<1>2. e \in Entry /\ e.key = key /\ e.kind = kind
  BY <1>1 DEF Entry
<1>3. /\ SocketOK(Entry)' /\ seq' = seq + 1
      /\ Len(Stream') = Len(Stream) + 1
      /\ \A i \in 1..Len(Stream) : Stream'[i] = Stream[i]
      /\ Stream'[Len(Stream')] = e
  BY <1>1, <1>2, ReceiveStream
<1>4. Len(Stream) \in Nat
  BY <1>1, StreamType
<1>5. seq' \in 0..MaxSeq
  BY <1>1, <1>3, StatusAssumption
<1> HIDE DEF e
<1>6. IF e.kind = "connection" THEN e.key \in Events ELSE e.key = "none"
  BY <1>2
<1>7. Named(Stream')
  BY <1>1, <1>3, <1>4, <1>6, GrownSays
<1>8. key \in Lifecycle => NewestSays(Stream', key)
  BY <1>2, <1>3, <1>4, GrownSays DEF IsState
<1>9. ASSUME NEW c, key \notin Lifecycle, NewestSays(Stream, c) PROVE NewestSays(Stream', c)
  BY <1>2, <1>3, <1>4, <1>9, GrownSays DEF IsState
<1>10. Named(Stream)' /\ (key \in Lifecycle => NewestSays(Stream, key)')
  BY <1>7, <1>8 DEF Named, NewestSays
<1> QED BY <1>3, <1>5, <1>9, <1>10
LEMMA FollowsLifecycle == ASSUME NEW c \in Lifecycle PROVE Follows[c] \subseteq Lifecycle
<1>1. /\ Follows.connect = {"ready", "close"} /\ Follows.ready = {"close"}
      /\ Follows.close = {"reconnecting", "end"} /\ Follows.reconnecting = {"connect", "close"}
      /\ Follows.end = {}
  BY DEF Follows
<1>2. CASE c = "connect"
  BY <1>1, <1>2 DEF Lifecycle
<1>3. CASE c = "ready"
  BY <1>1, <1>3 DEF Lifecycle
<1>4. CASE c = "reconnecting"
  BY <1>1, <1>4 DEF Lifecycle
<1>5. CASE c = "close"
  BY <1>1, <1>5 DEF Lifecycle
<1>6. CASE c = "end"
  BY <1>1, <1>6 DEF Lifecycle
<1> QED BY <1>2, <1>3, <1>4, <1>5, <1>6 DEF Lifecycle

\* What a step owes to the types, once the socket's are kept.
LEMMA StatusTypes ==
  ASSUME StatusInv, SocketOK(Entry)', seq' \in 0..MaxSeq, conn' \in Lifecycle,
         health' \in {"none", "ready", "error"}, probe' \in SUBSET {"ready", "error"},
         {probed', polled', missed'} \subseteq BOOLEAN
  PROVE  StatusTypeOK'
<1>1. {enabled', raf', frame'} \subseteq BOOLEAN
  BY DEF SocketOK
<1> QED BY <1>1 DEF StatusTypeOK, SocketOK

LEMMA ConnectionChangesInv == StatusInv /\ ConnectionChanges => StatusInv'
<1> SUFFICES ASSUME StatusInv, ConnectionChanges PROVE StatusInv'
  OBVIOUS
<1>1. PICK event \in Follows[conn] : conn' = event /\ Emit(event)
  BY DEF ConnectionChanges
<1>2. /\ probed' = FALSE /\ polled' = FALSE /\ missed' = ~enabled /\ UNCHANGED health
      /\ conn \in Lifecycle /\ health \in {"none", "ready", "error"}
      /\ SocketOK(Entry) /\ seq \in 0..MaxSeq /\ Named(Stream)
  BY DEF ConnectionChanges, StatusInv, StatusTypeOK
<1>3. event \in Lifecycle
  BY <1>1, <1>2, FollowsLifecycle
<1>4. {probed', polled', missed'} \subseteq BOOLEAN /\ probe' \in SUBSET {"ready", "error"}
  <2>1. probed' \in BOOLEAN /\ polled' \in BOOLEAN /\ missed' \in BOOLEAN
    BY <1>2, Zenon
  <2>2. probe \in SUBSET {"ready", "error"} /\ Answers' \in SUBSET {"ready", "error"}
    BY DEF StatusInv, StatusTypeOK, Answers
  <2>3. probe' = IF probe = {} THEN {} ELSE probe \union Answers'
    BY DEF ConnectionChanges
  <2> QED BY <2>1, <2>2, <2>3
<1>5. CASE enabled
  <2>1. seq < MaxSeq /\ Receive("connection", event)
    BY <1>1, <1>5 DEF Emit
  <2>2. event \in Events \union {"none"} /\ event # "none"
    BY <1>3 DEF Events, Lifecycle
  <2>3. SocketOK(Entry)' /\ seq' \in 0..MaxSeq /\ Named(Stream)' /\ NewestSays(Stream, event)'
    BY <1>3, <2>1, <2>2, EventInv
  <2>4. NewestSays(Stream, conn)'
    BY <1>1, <2>3
  <2> QED BY <1>1, <1>2, <1>3, <1>4, <2>3, <2>4, StatusTypes DEF StatusInv
<1>6. CASE ~enabled
  <2>1. UNCHANGED socketVars /\ missed'
    BY <1>1, <1>2, <1>6 DEF Emit
  <2>2. SocketOK(Entry)' /\ seq' \in 0..MaxSeq /\ Named(Stream)'
    BY <1>2, <2>1 DEF socketVars, SocketOK, Named, Stream
  <2> QED BY <1>1, <1>2, <1>3, <1>4, <2>1, <2>2, StatusTypes DEF StatusInv
<1> QED BY <1>5, <1>6

\* An error, or an entry of another page.
LEMMA OtherEventInv == StatusInv /\ (ErrorReported \/ OtherEvent) => StatusInv'
<1> SUFFICES ASSUME StatusInv, ErrorReported \/ OtherEvent PROVE StatusInv'
  OBVIOUS
<1>1. /\ UNCHANGED <<conn, health, probe, probed, polled, missed>>
      /\ \/ UNCHANGED socketVars
         \/ \E kind \in {"connection", "message"}, key \in {"error", "none"} :
              /\ seq < MaxSeq /\ Receive(kind, key)
              /\ kind = "connection" <=> key # "none"
  BY DEF ErrorReported, OtherEvent, Emit
<1>2. StatusTypeOK /\ (~missed => NewestSays(Stream, conn))
  BY DEF StatusInv
<1>3. /\ conn' \in Lifecycle /\ health' \in {"none", "ready", "error"}
      /\ probe' \in SUBSET {"ready", "error"} /\ {probed', polled', missed'} \subseteq BOOLEAN
  BY <1>1, <1>2 DEF StatusTypeOK
<1>4. CASE UNCHANGED socketVars
  BY <1>1, <1>4 DEF socketVars, StatusInv, StatusTypeOK, SocketOK, Named, NewestSays, Stream
<1>5. ASSUME NEW kind \in {"connection", "message"}, NEW key \in {"error", "none"},
             seq < MaxSeq, Receive(kind, key), kind = "connection" <=> key # "none"
      PROVE  StatusInv'
  <2>1. key \in Events \union {"none"} /\ key \notin Lifecycle
    BY DEF Events, Lifecycle
  <2>2. /\ SocketOK(Entry)' /\ seq' \in 0..MaxSeq /\ Named(Stream)'
        /\ \A c : NewestSays(Stream, c) => NewestSays(Stream', c)
    BY <1>5, <2>1, EventInv
  <2>3. ~missed' => NewestSays(Stream, conn)'
    <3>1. ~missed' => NewestSays(Stream', conn)
      BY <1>1, <1>2, <2>2
    <3> QED BY <1>1, <3>1 DEF NewestSays
  <2>4. StatusTypeOK'
    BY <1>3, <2>2, StatusTypes
  <2> QED BY <1>1, <2>2, <2>3, <2>4 DEF StatusInv
<1> QED BY <1>1, <1>4, <1>5

\* A frame and the toggle.
LEMMA TabInv == StatusInv /\ (GoLive \/ StopLive \/ ShowFrame) => StatusInv'
<1> SUFFICES ASSUME StatusInv, GoLive \/ StopLive \/ ShowFrame PROVE StatusInv'
  OBVIOUS
<1>1. /\ SocketOK(Entry) /\ seq \in 0..MaxSeq /\ Named(Stream)
      /\ conn \in Lifecycle /\ health \in {"none", "ready", "error"}
      /\ {probed, polled, missed} \subseteq BOOLEAN /\ probe \in SUBSET {"ready", "error"}
      /\ probed /\ "ready" \in probe => conn = "ready"
      /\ polled => health # "none" /\ (health = "ready" => conn = "ready")
      /\ ~missed => NewestSays(Stream, conn)
  BY DEF StatusInv, StatusTypeOK
<1>2. /\ Stream \in Seq(Entry) /\ Len(Stream) = Len(buffer) + Len(pending)
      /\ Len(buffer) \in Nat /\ Len(pending) \in Nat
      /\ \A i \in 1..Len(buffer) : Stream[i] = buffer[i]
      /\ \A i \in 1..Len(pending) : Stream[Len(buffer) + i] = pending[i]
  BY <1>1, StreamType
<1>3. CASE GoLive
  <2>1. /\ SocketOK(Entry)' /\ UNCHANGED <<seq, conn, health, probe, probed, polled, missed>> /\ Stream' = Stream
    BY <1>1, <1>3, ToggleStream DEF GoLive
  <2>2. Named(Stream)' /\ (~missed' => NewestSays(Stream, conn)')
    BY <1>1, <2>1 DEF Named, NewestSays
  <2> QED BY <1>1, <2>1, <2>2, StatusTypes DEF StatusInv
<1>4. CASE ShowFrame
  <2>1. /\ SocketOK(Entry)' /\ UNCHANGED <<seq, conn, health, probe, probed, polled, missed>>
        /\ Stream' = buffer'
    BY <1>1, <1>4, FlushStream DEF ShowFrame
  <2>2. PICK d \in Nat : /\ Len(Stream) = Len(Stream') + d
                         /\ \A i \in 1..Len(Stream') : Stream'[i] = Stream[i + d]
    BY <1>1, <1>4, FlushStream DEF ShowFrame
  <2>3. Len(Stream') \in Nat
    BY <2>1 DEF SocketOK
  <2>4. Named(Stream') /\ \A c : NewestSays(Stream, c) => NewestSays(Stream', c)
    BY <1>1, <2>2, <2>3, PartSays
  <2>5. Named(Stream)' /\ (~missed' => NewestSays(Stream, conn)')
    BY <1>1, <2>1, <2>4 DEF Named, NewestSays
  <2> QED BY <1>1, <2>1, <2>5, StatusTypes DEF StatusInv
<1>5. CASE StopLive
  <2>1. /\ SocketOK(Entry)' /\ UNCHANGED <<seq, conn, health, probe, probed, polled>> /\ Stream' = buffer
        /\ missed' = (missed \/ \E i \in 1..Len(pending) : pending[i].key \in Lifecycle)
    BY <1>1, <1>5, ToggleStream DEF StopLive
  <2>2. Named(Stream')
    BY <1>1, <1>2, <2>1 DEF Named
  <2>3. ASSUME ~missed' PROVE NewestSays(Stream', conn)
    <3>1. ~missed /\ \A i \in 1..Len(pending) : ~IsState(pending[i])
      BY <2>1, <2>3 DEF IsState
    <3>2. \A j \in 1..Len(Stream) : j > Len(buffer) => ~IsState(Stream[j])
      <4> SUFFICES ASSUME NEW j \in 1..Len(Stream), j > Len(buffer) PROVE ~IsState(Stream[j])
        OBVIOUS
      <4>1. j - Len(buffer) \in 1..Len(pending) /\ Len(buffer) + (j - Len(buffer)) = j
        BY <1>2
      <4> QED BY <1>2, <3>1, <4>1
    <3>3. \A i \in 1..Len(buffer) : i \in 1..Len(Stream)
      BY <1>2
    <3>4. \A j \in 1..Len(Stream) : j \in 1..Len(buffer) \/ j > Len(buffer)
      BY <1>2
    <3>5. NewestSays(Stream, conn)
      BY <1>1, <3>1
    <3> QED BY <1>2, <2>1, <3>2, <3>3, <3>4, <3>5 DEF NewestSays
  <2>4. Named(Stream)' /\ (~missed' => NewestSays(Stream, conn)')
    BY <2>1, <2>2, <2>3 DEF Named, NewestSays
  <2>5. {probed', polled', missed'} \subseteq BOOLEAN
    <3>1. missed' \in BOOLEAN
      BY <2>1, Zenon
    <3> QED BY <1>1, <2>1, <3>1
  <2> QED BY <1>1, <2>1, <2>4, <2>5, StatusTypes DEF StatusInv
<1> QED BY <1>3, <1>4, <1>5

\* A poll, and its answer.
LEMMA PollInv == StatusInv /\ (PollHealth \/ HealthArrives) => StatusInv'
<1> SUFFICES ASSUME StatusInv, PollHealth \/ HealthArrives PROVE StatusInv'
  OBVIOUS
<1>1. UNCHANGED <<socketVars, conn, missed>>
  BY DEF PollHealth, HealthArrives
<1>2. /\ SocketOK(Entry) /\ seq \in 0..MaxSeq /\ conn \in Lifecycle
      /\ Named(Stream) /\ (~missed => NewestSays(Stream, conn))
  BY DEF StatusInv, StatusTypeOK
<1>3. /\ health \in {"none", "ready", "error"} /\ probe \in SUBSET {"ready", "error"}
      /\ {probed, polled, missed} \subseteq BOOLEAN
  BY DEF StatusInv, StatusTypeOK
<1>4. /\ SocketOK(Entry)' /\ seq' \in 0..MaxSeq /\ conn' \in Lifecycle
      /\ Named(Stream)' /\ (~missed' => NewestSays(Stream, conn)')
  BY <1>1, <1>2 DEF socketVars, SocketOK, Named, NewestSays, Stream
<1>5. CASE PollHealth
  <2>1. probe' = Answers /\ probed' = TRUE /\ UNCHANGED <<health, polled>>
    BY <1>5 DEF PollHealth
  <2>2. /\ health' \in {"none", "ready", "error"} /\ probe' \in SUBSET {"ready", "error"}
        /\ {probed', polled', missed'} \subseteq BOOLEAN
    BY <1>1, <1>3, <2>1 DEF Answers
  <2>3. /\ "ready" \in probe' => conn' = "ready"
        /\ polled' => health' # "none" /\ (health' = "ready" => conn' = "ready")
    BY <1>1, <2>1 DEF StatusInv, Answers
  <2>4. StatusTypeOK'
    BY <1>4, <2>2, StatusTypes
  <2> QED BY <1>4, <2>3, <2>4 DEF StatusInv
<1>6. CASE HealthArrives
  <2>1. health' \in probe /\ polled' = probed /\ probe' = {} /\ probed' = FALSE
    BY <1>6 DEF HealthArrives
  <2>2. /\ health' \in {"none", "ready", "error"} /\ probe' \in SUBSET {"ready", "error"}
        /\ {probed', polled', missed'} \subseteq BOOLEAN
    BY <1>1, <1>3, <2>1
  <2>3. polled' => health' # "none" /\ (health' = "ready" => conn' = "ready")
    BY <1>1, <1>3, <2>1 DEF StatusInv
  <2>4. StatusTypeOK'
    BY <1>4, <2>2, StatusTypes
  <2> QED BY <1>4, <2>1, <2>3, <2>4 DEF StatusInv
<1> QED BY <1>5, <1>6

LEMMA StatusInvNext == StatusInv /\ [StatusNext]_statusVars => StatusInv'
<1> SUFFICES ASSUME StatusInv, [StatusNext]_statusVars PROVE StatusInv'
  OBVIOUS
<1>1. CASE UNCHANGED statusVars
  BY <1>1 DEF statusVars, socketVars, StatusInv, StatusTypeOK, SocketOK, Named, NewestSays, Stream
<1> QED BY <1>1, ConnectionChangesInv, OtherEventInv, TabInv, PollInv DEF StatusNext

\* The newest event of the buffer is of a kind the badge knows.
LEMMA NewestEvent ==
  ASSUME StatusInv
  PROVE  \/ ConnectionEvents = {} /\ LastConnection = "none"
         \/ \E i \in 1..Len(buffer) :
              /\ buffer[i].kind = "connection" /\ LastConnection = buffer[i].key
              /\ \A j \in 1..Len(buffer) : j > i => buffer[j].kind # "connection"
<1>1. CASE ConnectionEvents = {}
  BY <1>1 DEF LastConnection
<1>2. CASE ConnectionEvents # {}
  <2>1. Len(buffer) \in Nat
    BY StreamType DEF StatusInv
  <2>2. ConnectionEvents \in SUBSET Nat /\ IsFiniteSet(ConnectionEvents)
    <3>1. IsFiniteSet(1..Len(buffer)) /\ ConnectionEvents \subseteq 1..Len(buffer)
      BY <2>1, FS_Interval DEF ConnectionEvents
    <3>2. IsFiniteSet(ConnectionEvents)
      BY <3>1, FS_Subset
    <3>3. 1..Len(buffer) \subseteq Nat
      BY <2>1
    <3> QED BY <3>1, <3>2, <3>3
  <2>3. \E m \in ConnectionEvents : \A n \in ConnectionEvents : n <= m
    BY <1>2, <2>2, Extremes
  <2> DEFINE i == Newest(ConnectionEvents)
  <2>4. i \in ConnectionEvents /\ \A j \in ConnectionEvents : j <= i
    BY <2>3 DEF Newest
  <2>5. LastConnection = buffer[i].key
    BY <1>2 DEF LastConnection
  <2> HIDE DEF i
  <2>6. i \in 1..Len(buffer) /\ buffer[i].kind = "connection"
    BY <2>4 DEF ConnectionEvents
  <2>7. \A j \in 1..Len(buffer) : j > i => buffer[j].kind # "connection"
    BY <2>1, <2>4, <2>6 DEF ConnectionEvents
  <2> QED BY <2>5, <2>6, <2>7
<1> QED BY <1>1, <1>2

LEMMA BadgeShows == StatusInv => BadgeTracks
<1> SUFFICES ASSUME StatusInv, pending = <<>>, polled, missed => LastConnection = "none"
             PROVE  Badge \in {StateOf[conn], "error"}
  BY DEF BadgeTracks
<1>1. /\ Stream = buffer /\ Named(buffer) /\ Len(buffer) \in Nat
      /\ health \in {"ready", "error"} /\ (health = "ready" => conn = "ready")
      /\ ~missed => NewestSays(buffer, conn)
  BY StreamType DEF StatusInv, StatusTypeOK
<1>2. CASE LastConnection = "none"
  <2>1. Badge = health /\ StateOf.ready = "ready"
    BY <1>1, <1>2 DEF Badge, StateOf
  <2> QED BY <1>1, <2>1
<1>3. CASE LastConnection # "none"
  <2>1. PICK i \in 1..Len(buffer) :
          /\ buffer[i].kind = "connection" /\ LastConnection = buffer[i].key
          /\ \A j \in 1..Len(buffer) : j > i => buffer[j].kind # "connection"
    BY <1>3, NewestEvent
  <2>2. LastConnection \in Events
    BY <1>1, <2>1 DEF Named
  <2>3. ASSUME LastConnection \in Lifecycle PROVE LastConnection = conn
    <3>1. \A j \in 1..Len(buffer) : j > i => ~IsState(buffer[j])
      BY <1>1, <2>1 DEF Named, IsState, Lifecycle
    <3>2. NewestSays(buffer, conn)
      BY <1>1, <1>3
    <3> QED BY <2>1, <2>3, <3>1, <3>2 DEF NewestSays, IsState
  <2>4. Badge = StateOf[LastConnection]
    BY <1>3 DEF Badge
  <2>5. StateOf.error = "error"
    BY DEF StateOf
  <2> QED BY <2>2, <2>3, <2>4, <2>5 DEF Events
<1> QED BY <1>2, <1>3

\* StatusChip.tsx, ConnectionView.tsx: whatever went through the buffer, and however
\* late a poll was answered, a badge whose frame has run and whose newest poll is of
\* this connection names the connection's state or an error, but for the escape that
\* BadgeTracks names.
THEOREM BadgeTracksHolds == StatusSpec => []BadgeTracks
BY StatusInitInv, StatusInvNext, BadgeShows, PTL DEF StatusSpec

-----------------------------------------------------------------------------
(* The expiry feed *)

\* Of list s, the own keys show entries of list t, in their order: all of t if at fills it.
Own(s) == {i \in DOMAIN s : s[i] \in OwnKey}
Fits(at, s, t) ==
  /\ at \in [Own(s) -> DOMAIN t]
  /\ \A i \in Own(s) : t[at[i]] = s[i]
  /\ \A i, j \in Own(s) : i < j => at[i] < at[j]
Fills(at, s, t) == \A n \in DOMAIN t : \E i \in Own(s) : at[i] = n

\* What is a part of a part is a part, and of a longer list too.
LEMMA PartOfPart ==
  ASSUME NEW s, NEW t, NEW s1, NEW t1, NEW at, Fits(at, s, t),
         DOMAIN t \subseteq DOMAIN t1, \A n \in DOMAIN t : t1[n] = t[n],
         NEW m \in [Own(s1) -> Own(s)],
         \A i \in Own(s1) : s1[i] = s[m[i]],
         \A i, j \in Own(s1) : i < j => m[i] < m[j]
  PROVE  \E at1 : /\ Fits(at1, s1, t1)
                  /\ Fills(at, s, t) /\ DOMAIN t1 = DOMAIN t
                       /\ (\A i \in Own(s) : \E j \in Own(s1) : m[j] = i) => Fills(at1, s1, t1)
<1>1. /\ at \in [Own(s) -> DOMAIN t]
      /\ \A i \in Own(s) : t[at[i]] = s[i]
      /\ \A i, j \in Own(s) : i < j => at[i] < at[j]
  BY DEF Fits
<1> DEFINE at1 == [i \in Own(s1) |-> at[m[i]]]
<1>2. at1 \in [Own(s1) -> DOMAIN t1] /\ \A i \in Own(s1) : at1[i] = at[m[i]]
  BY <1>1
<1> HIDE DEF at1
<1>3. \A i \in Own(s1) : t1[at1[i]] = s1[i]
  BY <1>1, <1>2
<1>4. \A i, j \in Own(s1) : i < j => at1[i] < at1[j]
  BY <1>1, <1>2
<1>5. Fits(at1, s1, t1)
  BY <1>2, <1>3, <1>4 DEF Fits
<1>6. ASSUME Fills(at, s, t), DOMAIN t1 = DOMAIN t, \A i \in Own(s) : \E j \in Own(s1) : m[j] = i
      PROVE  Fills(at1, s1, t1)
  <2> SUFFICES ASSUME NEW n \in DOMAIN t1 PROVE \E i \in Own(s1) : at1[i] = n
    BY DEF Fills
  <2>1. PICK i \in Own(s) : at[i] = n
    BY <1>6 DEF Fills
  <2>2. PICK j \in Own(s1) : m[j] = i
    BY <1>6
  <2> QED BY <1>2, <2>1, <2>2
<1> QED BY <1>5, <1>6

\* Both grow by the same own key.
LEMMA PartGrows ==
  ASSUME NEW K, NEW s \in Seq(K), NEW t \in Seq(K), NEW at, Fits(at, s, t),
         NEW k \in OwnKey \intersect K
  PROVE  \E at1 : /\ Fits(at1, Append(s, k), Append(t, k))
                  /\ Fills(at, s, t) => Fills(at1, Append(s, k), Append(t, k))
<1>1. /\ at \in [Own(s) -> DOMAIN t]
      /\ \A i \in Own(s) : t[at[i]] = s[i]
      /\ \A i, j \in Own(s) : i < j => at[i] < at[j]
  BY DEF Fits
<1> DEFINE s1 == Append(s, k)
           t1 == Append(t, k)
<1>2. /\ DOMAIN s = 1..Len(s) /\ DOMAIN t = 1..Len(t) /\ Len(s) \in Nat /\ Len(t) \in Nat
      /\ DOMAIN s1 = 1..Len(s) + 1 /\ DOMAIN t1 = 1..Len(t) + 1
      /\ s1[Len(s) + 1] = k /\ t1[Len(t) + 1] = k
      /\ \A i \in 1..Len(s) : s1[i] = s[i]
      /\ \A i \in 1..Len(t) : t1[i] = t[i]
  OBVIOUS
<1> HIDE DEF s1, t1
<1>3. Own(s1) = Own(s) \union {Len(s) + 1} /\ Own(s) \subseteq 1..Len(s)
  <2>1. \A i : i \in 1..Len(s) + 1 <=> i \in 1..Len(s) \/ i = Len(s) + 1
    BY <1>2
  <2> QED BY <1>2, <2>1 DEF Own
<1> DEFINE at1 == [i \in Own(s1) |-> IF i = Len(s) + 1 THEN Len(t) + 1 ELSE at[i]]
<1>4. /\ at1[Len(s) + 1] = Len(t) + 1 /\ at1 \in [Own(s1) -> DOMAIN t1]
      /\ \A i \in Own(s) : at1[i] = at[i] /\ at[i] \in 1..Len(t) /\ i \in 1..Len(s)
  <2>1. \A i \in Own(s) : at[i] \in 1..Len(t) /\ i \in 1..Len(s) /\ i # Len(s) + 1
    BY <1>1, <1>2, <1>3
  <2>2. 1..Len(t) \subseteq 1..Len(t) + 1 /\ Len(t) + 1 \in 1..Len(t) + 1
    BY <1>2
  <2> QED BY <1>2, <1>3, <2>1, <2>2
<1> HIDE DEF at1
<1>5. \A i \in Own(s1) : t1[at1[i]] = s1[i]
  BY <1>1, <1>2, <1>3, <1>4
<1>6. \A i, j \in Own(s1) : i < j => at1[i] < at1[j]
  <2> SUFFICES ASSUME NEW i \in Own(s1), NEW j \in Own(s1), i < j PROVE at1[i] < at1[j]
    OBVIOUS
  <2>1. i \in 1..Len(s) + 1 /\ j \in 1..Len(s) + 1 /\ i \in Own(s)
    BY <1>2, <1>3
  <2> QED BY <1>1, <1>2, <1>3, <1>4, <2>1
<1>7. ASSUME Fills(at, s, t), NEW n \in DOMAIN t1 PROVE \E i \in Own(s1) : at1[i] = n
  <2>1. n \in 1..Len(t) \/ n = Len(t) + 1
    BY <1>2
  <2> QED BY <1>1, <1>2, <1>3, <1>4, <1>7, <2>1 DEF Fills
<1> QED BY <1>4, <1>5, <1>6, <1>7 DEF Fits, Fills, s1, t1

\* The first part of the list; the other may have grown.
LEMMA PartShrinks ==
  ASSUME NEW s, NEW t, NEW s1, NEW t1, NEW at, Fits(at, s, t),
         DOMAIN s1 \subseteq DOMAIN s, \A i \in DOMAIN s1 : s1[i] = s[i],
         DOMAIN t \subseteq DOMAIN t1, \A n \in DOMAIN t : t1[n] = t[n]
  PROVE  \E at1 : Fits(at1, s1, t1)
<1> DEFINE m == [i \in Own(s1) |-> i]
<1>1. m \in [Own(s1) -> Own(s)] /\ \A i \in Own(s1) : m[i] = i /\ s1[i] = s[i]
  BY DEF Own
<1> HIDE DEF m
<1>2. (\A i \in Own(s1) : s1[i] = s[m[i]]) /\ (\A i, j \in Own(s1) : i < j => m[i] < m[j])
  BY <1>1
<1> QED BY <1>1, <1>2, PartOfPart

\* One entry goes: the other list still has a place for the rest.
LEMMA PartLoses ==
  ASSUME NEW K, NEW s \in Seq(K), NEW t \in Seq(K), NEW s1 \in Seq(K), NEW at, Fits(at, s, t),
         NEW d \in 1..Len(s), Len(s1) = Len(s) - 1,
         \A i \in 1..Len(s1) : s1[i] = IF i < d THEN s[i] ELSE s[i + 1]
  PROVE  \E at1 : /\ Fits(at1, s1, t)
                  /\ Fills(at, s, t) /\ s[d] \notin OwnKey => Fills(at1, s1, t)
<1>1. /\ DOMAIN s = 1..Len(s) /\ DOMAIN s1 = 1..Len(s1) /\ Len(s) \in Nat /\ Len(s1) \in Nat
      /\ Own(s1) \subseteq DOMAIN s1 /\ Own(s) \subseteq DOMAIN s /\ Len(t) \in Nat
  BY DEF Own
<1> DEFINE m == [i \in Own(s1) |-> IF i < d THEN i ELSE i + 1]
<1>2. ASSUME NEW i \in Own(s1)
      PROVE  /\ m[i] = (IF i < d THEN i ELSE i + 1)
             /\ m[i] \in Own(s) /\ s1[i] = s[m[i]] /\ i \in 1..Len(s1)
  <2>1. m[i] = (IF i < d THEN i ELSE i + 1)
    OBVIOUS
  <2> HIDE DEF m
  <2>2. i \in 1..Len(s1) /\ s1[i] \in OwnKey
    BY <1>1 DEF Own
  <2>3. m[i] \in 1..Len(s) /\ s1[i] = s[m[i]]
    BY <1>1, <2>1, <2>2
  <2> QED BY <1>1, <2>1, <2>2, <2>3 DEF Own
<1>3. m \in [Own(s1) -> Own(s)]
  BY <1>2
<1> HIDE DEF m
<1>4. \A i, j \in Own(s1) : i < j => m[i] < m[j]
  BY <1>1, <1>2
<1>5. ASSUME s[d] \notin OwnKey, NEW i \in Own(s) PROVE \E j \in Own(s1) : m[j] = i
  <2>1. i \in 1..Len(s) /\ i # d /\ s[i] \in OwnKey
    BY <1>1, <1>5 DEF Own
  <2> DEFINE j == IF i < d THEN i ELSE i - 1
  <2>2. j \in 1..Len(s1) /\ s1[j] = s[i] /\ (IF j < d THEN j ELSE j + 1) = i
    BY <1>1, <2>1
  <2> HIDE DEF j
  <2>3. j \in Own(s1)
    BY <1>1, <2>1, <2>2 DEF Own
  <2> QED BY <1>2, <2>2, <2>3
<1>6. \A i \in Own(s1) : s1[i] = s[m[i]]
  BY <1>2
<1>7. DOMAIN t \subseteq DOMAIN t /\ \A n \in DOMAIN t : t[n] = t[n]
  OBVIOUS
<1>8. PICK at1 : /\ Fits(at1, s1, t)
                 /\ Fills(at, s, t) /\ DOMAIN t = DOMAIN t
                      /\ (\A i \in Own(s) : \E j \in Own(s1) : m[j] = i) => Fills(at1, s1, t)
  BY <1>3, <1>4, <1>6, <1>7, PartOfPart
<1> QED BY <1>5, <1>8

-----------------------------------------------------------------------------
(* The life of the API *)

\* Which topology the library was handed, and whether there is a subscriber, at each stage.
Stages ==
  /\ stage \in {"validating", "building"} => options = NoBlock /\ sub = "none"
  /\ stage \notin {"validating", "building", "crashed"} => options = env.mode
  /\ stage = "connecting" => sub = "none"
  /\ stage = "initialising" =>
       /\ sub \in {"none", "opened", "subscribed", "attached"}
       /\ sub # "none" => env.mode # "cluster"
  /\ stage = "stopping" => sub = "quitting"
  /\ stage \in {"listening", "stopped", "crashed"} => sub \in {"none", "attached", "closed"}
  /\ LifeInOrder

Faithful ==
  /\ \A i \in DOMAIN forwarded : forwarded[i] \in OwnKey
  /\ \E at : Fits(at, Sent, owed) /\ (~lossy => Fills(at, Sent, owed))

LifeInv == LifeTypeOK /\ Stages /\ Faithful

LEMMA LifeShows == LifeInv => FeedFaithful
BY DEF LifeInv, Stages, Faithful, FeedFaithful, Fits, Fills, Own, OwnSent, Shows

LEMMA LifeInitInv == LifeInit => LifeInv
<1> SUFFICES ASSUME LifeInit PROVE LifeInv
  OBVIOUS
<1>1. /\ env \in Environment /\ stage = "validating" /\ options = NoBlock /\ sub = "none"
      /\ linked = TRUE /\ inFlight = <<>> /\ expiries = 0 /\ forwarded = <<>> /\ owed = <<>>
      /\ drops = 0 /\ lossy = FALSE
  BY DEF LifeInit
<1>2. LifeTypeOK
  <2>1. expiries \in 0..MaxExpired /\ drops \in 0..MaxDrops
    BY <1>1, LifecycleAssumption
  <2>2. {linked, lossy} \subseteq BOOLEAN
    BY <1>1
  <2> QED BY <1>1, <2>1, <2>2 DEF LifeTypeOK, Starting, Subscribed
<1>3. Stages
  BY <1>1 DEF Stages, LifeInOrder
<1>4. Faithful
  <2>1. Sent = <<>> /\ DOMAIN <<>> = {}
    BY <1>1 DEF Sent
  <2>2. Own(Sent) = {}
    BY <2>1 DEF Own
  <2>3. [i \in {} |-> i] \in [{} -> {}]
    OBVIOUS
  <2> QED BY <1>1, <2>1, <2>2, <2>3 DEF Faithful, Fits, Fills
<1> QED BY <1>2, <1>3, <1>4 DEF LifeInv

\* The steps of the process, and of its subscriber's life.
LEMMA StageInv ==
  ASSUME LifeInv, UNCHANGED <<env, feed>>,
         \/ ValidateEnv \/ BuildCacheOptions \/ ConnectLibrary
         \/ OpenSubscriber \/ SubscribeAck \/ SubscribeFails \/ AttachListener \/ Listen
         \/ Signal \/ QuitSettles
  PROVE  LifeInv'
<1>1. /\ env \in Environment /\ env.mode \in Mode
      /\ LifeTypeOK /\ Stages /\ Faithful
  BY DEF LifeInv, LifeTypeOK, Environment
<1>2. UNCHANGED <<env, linked, inFlight, expiries, forwarded, owed, drops, lossy>>
  BY DEF feed
<1>3. Faithful'
  <2>1. Sent' = Sent /\ owed' = owed /\ lossy' = lossy /\ forwarded' = forwarded
    BY <1>2 DEF Sent
  <2> QED BY <1>1, <2>1 DEF Faithful, Fits, Fills, Own
<1>4. NoBlock \notin Mode
  BY DEF NoBlock, Mode, Topology
<1>5. stage' \in Starting \union {"listening", "stopping", "stopped", "crashed"} /\ options' \in Mode \union {NoBlock}
      /\ sub' \in Subscribed \union {"none", "opened", "closed"}
  BY <1>1 DEF LifeTypeOK, Starting, Subscribed, ValidateEnv, BuildCacheOptions, ConnectLibrary,
       OpenSubscriber, SubscribeAck, SubscribeFails, AttachListener, Listen, Signal, QuitSettles
<1>6. LifeTypeOK'
  BY <1>1, <1>2, <1>5 DEF LifeTypeOK
<1>7. Stages'
  BY <1>1, <1>2, <1>4 DEF Stages, LifeInOrder, LifeTypeOK, Starting, Subscribed, ValidateEnv,
       BuildCacheOptions, Parses, ConnectLibrary, OpenSubscriber, SubscribeAck, SubscribeFails,
       AttachListener, Listen, Signal, QuitSettles
<1> QED BY <1>3, <1>6, <1>7 DEF LifeInv

\* The first entry of a queue joins the list before it, or is taken out.
LEMMA HeadGoes ==
  ASSUME NEW K, NEW f \in Seq(K), NEW g \in Seq(K), g # <<>>
  PROVE  /\ Append(f, Head(g)) \o Tail(g) = f \o g
         /\ Len(f \o Tail(g)) = Len(f \o g) - 1
         /\ Len(f) + 1 \in 1..Len(f \o g) /\ (f \o g)[Len(f) + 1] = Head(g) /\ Head(g) \in K
         /\ \A i \in 1..Len(f \o Tail(g)) :
              (f \o Tail(g))[i] = IF i < Len(f) + 1 THEN (f \o g)[i] ELSE (f \o g)[i + 1]
<1> DEFINE h == Tail(g)
           a == Append(f, Head(g))
<1>1. /\ Len(f) \in Nat /\ Len(g) \in Nat \ {0} /\ h \in Seq(K) /\ Len(h) = Len(g) - 1
      /\ \A i \in 1..Len(h) : h[i] = g[i + 1]
      /\ Head(g) = g[1] /\ Head(g) \in K
  OBVIOUS
<1>0. h \in Seq(K) /\ a \in Seq(K)
  OBVIOUS
<1>2. /\ a \in Seq(K) /\ Len(a) = Len(f) + 1 /\ a[Len(f) + 1] = g[1]
      /\ \A i \in 1..Len(f) : a[i] = f[i]
  BY <1>1
<1> HIDE DEF h, a
<1> DEFINE u == f \o g
           v == f \o h
           w == a \o h
<1>3. /\ u \in Seq(K) /\ Len(u) = Len(f) + Len(g)
      /\ \A i \in 1..Len(f) : u[i] = f[i]
      /\ \A i \in 1..Len(g) : u[Len(f) + i] = g[i]
  BY ConcatParts
<1>4. /\ v \in Seq(K) /\ Len(v) = Len(f) + Len(h)
      /\ \A i \in 1..Len(f) : v[i] = f[i]
      /\ \A i \in 1..Len(h) : v[Len(f) + i] = h[i]
  BY <1>0, ConcatParts
<1>5. /\ w \in Seq(K) /\ Len(w) = Len(a) + Len(h)
      /\ \A i \in 1..Len(a) : w[i] = a[i]
      /\ \A i \in 1..Len(h) : w[Len(a) + i] = h[i]
  BY <1>0, ConcatParts
<1> HIDE DEF u, v, w
<1>6. Len(w) = Len(u) /\ Len(v) = Len(u) - 1 /\ Len(f) + 1 \in 1..Len(u)
  BY <1>1, <1>2, <1>3, <1>4, <1>5
<1>7. u[Len(f) + 1] = g[1] /\ w[Len(f) + 1] = g[1]
  <2>1. 1 \in 1..Len(g) /\ Len(f) + 1 \in 1..Len(a)
    BY <1>1, <1>2
  <2> QED BY <1>2, <1>3, <1>5, <2>1
<1>8. ASSUME NEW i \in 1..Len(u), i > Len(f) + 1
      PROVE  \E j \in 1..Len(h) : /\ i = Len(f) + (j + 1) /\ i = Len(a) + j
                                  /\ i - 1 = Len(f) + j /\ j + 1 \in 1..Len(g)
  <2> DEFINE j == i - (Len(f) + 1)
  <2>1. /\ j \in 1..Len(h) /\ i = Len(f) + (j + 1) /\ i = Len(a) + j
        /\ i - 1 = Len(f) + j /\ j + 1 \in 1..Len(g)
    BY <1>1, <1>2, <1>3, <1>8
  <2> QED BY <2>1
<1>9. w = u
  <2>1. ASSUME NEW i \in 1..Len(u) PROVE w[i] = u[i]
    <3>1. CASE i <= Len(f)
      <4>1. i \in 1..Len(f) /\ i \in 1..Len(a)
        BY <1>1, <1>2, <3>1
      <4> QED BY <1>2, <1>3, <1>5, <4>1
    <3>2. CASE i = Len(f) + 1
      BY <1>7, <3>2
    <3>3. CASE i > Len(f) + 1
      <4>1. PICK j \in 1..Len(h) : /\ i = Len(f) + (j + 1) /\ i = Len(a) + j
                                   /\ i - 1 = Len(f) + j /\ j + 1 \in 1..Len(g)
        BY <1>8, <3>3
      <4>2. w[i] = h[j] /\ u[i] = g[j + 1]
        BY <1>3, <1>5, <4>1
      <4> QED BY <1>1, <4>1, <4>2
    <3> QED BY <1>1, <3>1, <3>2, <3>3
  <2> QED BY <1>3, <1>5, <1>6, <2>1
<1>10. ASSUME NEW i \in 1..Len(v) PROVE v[i] = IF i < Len(f) + 1 THEN u[i] ELSE u[i + 1]
  <2>1. CASE i <= Len(f)
    <3>1. i \in 1..Len(f) /\ i < Len(f) + 1
      BY <1>1, <2>1
    <3> QED BY <1>3, <1>4, <3>1
  <2>2. CASE i > Len(f)
    <3>0. i + 1 \in 1..Len(u) /\ i + 1 > Len(f) + 1 /\ ~(i < Len(f) + 1) /\ (i + 1) - 1 = i
      BY <1>1, <1>6, <2>2
    <3>1. PICK j \in 1..Len(h) : /\ i + 1 = Len(f) + (j + 1) /\ i + 1 = Len(a) + j
                                 /\ (i + 1) - 1 = Len(f) + j /\ j + 1 \in 1..Len(g)
      BY <1>8, <3>0
    <3>2. i = Len(f) + j
      BY <3>0, <3>1
    <3>3. v[i] = h[j] /\ u[i + 1] = g[j + 1]
      BY <1>3, <1>4, <3>1, <3>2
    <3> QED BY <1>1, <3>0, <3>1, <3>3
  <2> QED BY <1>1, <2>1, <2>2
<1> QED BY <1>1, <1>6, <1>7, <1>9, <1>10 DEF u, v, w, h, a

LEMMA SentType ==
  ASSUME LifeInv
  PROVE  /\ Sent \in Seq(OwnKey \union ForeignKey) /\ owed \in Seq(OwnKey \union ForeignKey)
         /\ forwarded \in Seq(OwnKey \union ForeignKey) /\ inFlight \in Seq(OwnKey \union ForeignKey)
         /\ {linked, lossy} \subseteq BOOLEAN /\ Faithful /\ Stages /\ LifeTypeOK
<1>1. /\ forwarded \in Seq(OwnKey \union ForeignKey) /\ inFlight \in Seq(OwnKey \union ForeignKey)
      /\ owed \in Seq(OwnKey) /\ {linked, lossy} \subseteq BOOLEAN
  BY DEF LifeInv, LifeTypeOK
<1>2. owed \in Seq(OwnKey \union ForeignKey)
  BY <1>1
<1> QED BY <1>1, <1>2 DEF Sent, LifeInv

LEMMA ExpireInv ==
  ASSUME LifeInv, NEW key \in OwnKey \union ForeignKey, NEW d \in Db, Expire(key, d)
  PROVE  LifeInv'
<1> DEFINE heard == sub \in Subscribed /\ d = env.db
           K == OwnKey \union ForeignKey
<1>1. /\ expiries < MaxExpired /\ expiries' = expiries + 1
      /\ inFlight' = IF heard /\ linked THEN Append(inFlight, key) ELSE inFlight
      /\ owed' = IF heard /\ key \in OwnKey THEN Append(owed, key) ELSE owed
      /\ lossy' = (lossy \/ (heard /\ ~linked))
      /\ UNCHANGED <<env, stage, options, sub, linked, forwarded, drops>>
  BY DEF Expire
<1> HIDE DEF heard, K
<1>2. /\ Sent \in Seq(K) /\ owed \in Seq(K) /\ forwarded \in Seq(K) /\ inFlight \in Seq(K)
      /\ owed \in Seq(OwnKey) /\ key \in K /\ LifeTypeOK /\ Stages /\ Faithful
      /\ Sent = forwarded \o inFlight
  BY SentType DEF K, LifeTypeOK, Sent
<1>3. LifeTypeOK'
  <2>1. inFlight' \in Seq(K) /\ owed' \in Seq(OwnKey)
    BY <1>1, <1>2
  <2>2. lossy' \in BOOLEAN
    BY <1>1, Zenon
  <2>3. expiries' \in 0..MaxExpired
    BY <1>1, <1>2, LifecycleAssumption DEF LifeTypeOK
  <2> QED BY <1>1, <1>2, <2>1, <2>2, <2>3 DEF LifeTypeOK, K
<1>4. Stages'
  BY <1>1, <1>2 DEF Stages, LifeInOrder
<1>5. PICK at : Fits(at, Sent, owed) /\ (~lossy => Fills(at, Sent, owed))
  BY <1>2 DEF Faithful
<1>6. \E at1 : Fits(at1, Sent', owed') /\ (~lossy' => Fills(at1, Sent', owed'))
  <2>1. forwarded \o Append(inFlight, key) = Append(Sent, key)
    BY <1>2
  <2>2. CASE heard /\ linked
    <3>1. Sent' = Append(Sent, key) /\ (lossy' <=> lossy)
      BY <1>1, <2>1, <2>2 DEF Sent
    <3>2. CASE key \in OwnKey
      <4>1. owed' = Append(owed, key)
        BY <1>1, <2>2, <3>2
      <4> QED BY <1>2, <1>5, <3>1, <3>2, <4>1, PartGrows
    <3>3. CASE key \notin OwnKey
      <4>1. owed' = owed /\ DOMAIN Sent' = 1..Len(Sent) + 1 /\ DOMAIN Sent = 1..Len(Sent)
            /\ Len(Sent) \in Nat /\ Sent'[Len(Sent) + 1] = key
            /\ \A i \in 1..Len(Sent) : Sent'[i] = Sent[i]
        BY <1>1, <1>2, <3>1, <3>3
      <4>2. \A i : i \in 1..Len(Sent) + 1 <=> i \in 1..Len(Sent) \/ i = Len(Sent) + 1
        BY <4>1
      <4>3. Own(Sent') = Own(Sent)
        BY <3>3, <4>1, <4>2 DEF Own
      <4>4. \A i \in Own(Sent) : Sent'[i] = Sent[i]
        BY <4>1 DEF Own
      <4>5. at \in [Own(Sent') -> DOMAIN owed'] /\ (~lossy' => Fills(at, Sent', owed'))
        BY <1>5, <3>1, <4>1, <4>3 DEF Fits, Fills
      <4>6. /\ \A i \in Own(Sent') : owed'[at[i]] = Sent'[i]
            /\ \A i, j \in Own(Sent') : i < j => at[i] < at[j]
        BY <1>5, <4>1, <4>3, <4>4 DEF Fits
      <4> QED BY <4>5, <4>6 DEF Fits
    <3> QED BY <3>2, <3>3
  <2>3. CASE ~(heard /\ linked)
    <3>1. Sent' = Sent
      BY <1>1, <2>3 DEF Sent
    <3>2. CASE owed' = owed /\ lossy' = lossy
      BY <1>5, <3>1, <3>2
    <3>3. CASE lossy'
      <4>1. owed' = owed \/ owed' = Append(owed, key)
        BY <1>1
      <4>2. DOMAIN owed \subseteq DOMAIN owed' /\ \A n \in DOMAIN owed : owed'[n] = owed[n]
        <5>1. /\ DOMAIN owed = 1..Len(owed) /\ Len(owed) \in Nat
              /\ DOMAIN Append(owed, key) = 1..Len(owed) + 1
              /\ \A n \in 1..Len(owed) : Append(owed, key)[n] = owed[n]
          BY <1>2
        <5> QED BY <4>1, <5>1
      <4>3. DOMAIN Sent \subseteq DOMAIN Sent /\ \A i \in DOMAIN Sent : Sent[i] = Sent[i]
        OBVIOUS
      <4>4. PICK at1 : Fits(at1, Sent, owed')
        BY <1>5, <4>2, <4>3, PartShrinks
      <4> QED BY <3>1, <3>3, <4>4
    <3>4. heard => lossy'
      BY <1>1, <2>3
    <3>5. ~heard => owed' = owed /\ (lossy' <=> lossy)
      BY <1>1
    <3> QED BY <1>5, <3>1, <3>3, <3>4, <3>5
  <2> QED BY <2>2, <2>3
<1>7. Faithful'
  BY <1>1, <1>2, <1>6 DEF Faithful, Fits, Fills, Own
<1> QED BY <1>3, <1>4, <1>7 DEF LifeInv

\* A notification is handled, or lost with the connection.
LEMMA DeliverInv == LifeInv /\ Deliver => LifeInv'
<1> SUFFICES ASSUME LifeInv, Deliver PROVE LifeInv'
  OBVIOUS
<1> DEFINE key == Head(inFlight)
           K == OwnKey \union ForeignKey
<1>1. /\ inFlight # <<>> /\ inFlight' = Tail(inFlight)
      /\ UNCHANGED <<env, stage, options, sub, linked, expiries, owed, drops>>
      /\ \/ lossy' = TRUE /\ forwarded' = forwarded
         \/ key \notin OwnKey /\ forwarded' = forwarded /\ lossy' = lossy
         \/ key \in OwnKey /\ forwarded' = Append(forwarded, key) /\ lossy' = lossy
  BY DEF Deliver, IsOwn
<1> HIDE DEF K
<1>2. /\ Sent \in Seq(K) /\ owed \in Seq(K) /\ forwarded \in Seq(K) /\ inFlight \in Seq(K)
      /\ LifeTypeOK /\ Stages /\ Faithful /\ Sent = forwarded \o inFlight
  BY SentType DEF K, Sent
<1>3. /\ Append(forwarded, key) \o Tail(inFlight) = Sent
      /\ Len(forwarded \o Tail(inFlight)) = Len(Sent) - 1
      /\ Len(forwarded) + 1 \in 1..Len(Sent) /\ Sent[Len(forwarded) + 1] = key /\ key \in K
      /\ \A i \in 1..Len(forwarded \o Tail(inFlight)) :
           (forwarded \o Tail(inFlight))[i] =
             IF i < Len(forwarded) + 1 THEN Sent[i] ELSE Sent[i + 1]
  BY <1>1, <1>2, HeadGoes
<1>4. Tail(inFlight) \in Seq(K)
  BY <1>1, <1>2
<1> HIDE DEF key
<1>5. LifeTypeOK'
  <2>0. Append(forwarded, key) \in Seq(K)
    BY <1>2, <1>3
  <2>1. inFlight' \in Seq(K) /\ forwarded' \in Seq(K)
    BY <1>1, <1>2, <1>4, <2>0
  <2>2. lossy' \in BOOLEAN
    BY <1>1, <1>2 DEF LifeTypeOK
  <2> QED BY <1>1, <1>2, <2>1, <2>2 DEF LifeTypeOK, K
<1>6. Stages'
  BY <1>1, <1>2 DEF Stages, LifeInOrder
<1>7. PICK at : Fits(at, Sent, owed) /\ (~lossy => Fills(at, Sent, owed))
  BY <1>2 DEF Faithful
<1>8. \A i \in DOMAIN forwarded' : forwarded'[i] \in OwnKey
  <2>1. CASE forwarded' = forwarded
    BY <1>2, <2>1 DEF Faithful
  <2>2. CASE key \in OwnKey /\ forwarded' = Append(forwarded, key)
    <3>1. \A i \in 1..Len(forwarded) : forwarded[i] \in OwnKey
      BY <1>2 DEF Faithful
    <3> QED BY <1>2, <2>2, <3>1
  <2> QED BY <1>1, <2>1, <2>2
<1>9. \E at1 : Fits(at1, Sent', owed') /\ (~lossy' => Fills(at1, Sent', owed'))
  <2>1. CASE key \in OwnKey /\ forwarded' = Append(forwarded, key) /\ lossy' = lossy
    <3>1. Sent' = Sent
      BY <1>1, <1>3, <2>1 DEF Sent
    <3> QED BY <1>1, <1>7, <2>1, <3>1
  <2>2. CASE forwarded' = forwarded /\ (lossy' = TRUE \/ (key \notin OwnKey /\ lossy' = lossy))
    <3>1. Sent' = forwarded \o Tail(inFlight)
      BY <1>1, <2>2 DEF Sent
    <3>2. Sent' \in Seq(K)
      BY <1>2, <1>4, <3>1
    <3>3. /\ Len(Sent') = Len(Sent) - 1
          /\ \A i \in 1..Len(Sent') : Sent'[i] = IF i < Len(forwarded) + 1 THEN Sent[i] ELSE Sent[i + 1]
      BY <1>3, <3>1
    <3>4. PICK at1 : /\ Fits(at1, Sent', owed)
                     /\ Fills(at, Sent, owed) /\ key \notin OwnKey => Fills(at1, Sent', owed)
      BY <1>2, <1>3, <1>7, <3>2, <3>3, PartLoses
    <3> QED BY <1>1, <1>7, <2>2, <3>4
  <2>3. \/ key \in OwnKey /\ forwarded' = Append(forwarded, key) /\ lossy' = lossy
        \/ forwarded' = forwarded /\ (lossy' = TRUE \/ (key \notin OwnKey /\ lossy' = lossy))
    BY <1>1, Zenon
  <2> QED BY <2>1, <2>2, <2>3, Zenon
<1>10. Faithful'
  BY <1>8, <1>9 DEF Faithful, Fits, Fills, Own
<1> QED BY <1>5, <1>6, <1>10 DEF LifeInv

LEMMA LinkInv == LifeInv /\ (DropLink \/ Relink) => LifeInv'
<1> SUFFICES ASSUME LifeInv, DropLink \/ Relink PROVE LifeInv'
  OBVIOUS
<1> DEFINE K == OwnKey \union ForeignKey
<1>1. /\ UNCHANGED <<env, stage, options, sub, expiries, forwarded, owed>>
      /\ linked' \in BOOLEAN
      /\ \/ UNCHANGED <<inFlight, drops, lossy>>
         \/ /\ inFlight' = <<>> /\ drops < MaxDrops /\ drops' = drops + 1
            /\ lossy' = (lossy \/ inFlight # <<>>)
  BY DEF DropLink, Relink
<1> HIDE DEF K
<1>2. /\ Sent \in Seq(K) /\ owed \in Seq(K) /\ forwarded \in Seq(K) /\ inFlight \in Seq(K)
      /\ LifeTypeOK /\ Stages /\ Faithful /\ Sent = forwarded \o inFlight
  BY SentType DEF K, Sent
<1>3. LifeTypeOK'
  <2>0. drops \in 0..MaxDrops /\ MaxDrops \in Nat
    BY <1>2, LifecycleAssumption DEF LifeTypeOK
  <2>a. <<>> \in Seq(K) /\ inFlight \in Seq(K)
    BY <1>2
  <2>b. drops < MaxDrops => drops + 1 \in 0..MaxDrops
    BY <2>0
  <2>1. inFlight' \in Seq(K) /\ drops' \in 0..MaxDrops
    BY <1>1, <2>0, <2>a, <2>b
  <2>2. lossy' \in BOOLEAN
    <3>1. lossy \in BOOLEAN
      BY <1>2 DEF LifeTypeOK
    <3> QED BY <1>1, <3>1, Zenon
  <2> QED BY <1>1, <1>2, <2>1, <2>2 DEF LifeTypeOK, K
<1>4. Stages'
  BY <1>1, <1>2 DEF Stages, LifeInOrder
<1>5. PICK at : Fits(at, Sent, owed) /\ (~lossy => Fills(at, Sent, owed))
  BY <1>2 DEF Faithful
<1>6. \E at1 : Fits(at1, Sent', owed') /\ (~lossy' => Fills(at1, Sent', owed'))
  <2>1. CASE UNCHANGED <<inFlight, lossy>>
    <3>1. Sent' = Sent /\ owed' = owed
      BY <1>1, <2>1 DEF Sent
    <3> QED BY <1>5, <2>1, <3>1
  <2>2. CASE inFlight' = <<>> /\ lossy' = (lossy \/ inFlight # <<>>)
    <3>1. Sent' = forwarded /\ owed' = owed
      BY <1>1, <1>2, <2>2 DEF Sent
    <3>2. DOMAIN forwarded \subseteq DOMAIN Sent /\ \A i \in DOMAIN forwarded : forwarded[i] = Sent[i]
      <4>1. /\ Sent = forwarded \o inFlight /\ Len(Sent) = Len(forwarded) + Len(inFlight)
            /\ Len(forwarded) \in Nat /\ Len(inFlight) \in Nat
            /\ \A i \in 1..Len(forwarded) : Sent[i] = forwarded[i]
            /\ DOMAIN Sent = 1..Len(Sent) /\ DOMAIN forwarded = 1..Len(forwarded)
        BY <1>2, ConcatParts
      <4> QED BY <4>1
    <3>3. DOMAIN owed \subseteq DOMAIN owed /\ \A n \in DOMAIN owed : owed[n] = owed[n]
      OBVIOUS
    <3>4. \E at1 : Fits(at1, forwarded, owed)
      BY <1>5, <3>2, <3>3, PartShrinks
    <3>5. ~lossy' => ~lossy /\ Sent = forwarded
      <4>1. ~lossy' => ~lossy /\ inFlight = <<>>
        BY <2>2
      <4> QED BY <1>2, <4>1
    <3> QED BY <1>5, <3>1, <3>4, <3>5
  <2> QED BY <1>1, <2>1, <2>2
<1>7. Faithful'
  BY <1>1, <1>2, <1>6 DEF Faithful, Fits, Fills, Own
<1> QED BY <1>3, <1>4, <1>7 DEF LifeInv

LEMMA LifeInvNext == LifeInv /\ [LifeNext]_lifeVars => LifeInv'
<1> SUFFICES ASSUME LifeInv, [LifeNext]_lifeVars PROVE LifeInv'
  OBVIOUS
<1>1. CASE UNCHANGED lifeVars
  <2>1. LifeTypeOK' /\ Stages'
    BY <1>1 DEF lifeVars, LifeInv, LifeTypeOK, Stages, LifeInOrder
  <2>2. Sent' = Sent /\ UNCHANGED <<forwarded, owed, lossy>>
    BY <1>1 DEF lifeVars, Sent
  <2>3. Faithful'
    BY <2>2 DEF LifeInv, Faithful, Fits, Fills, Own
  <2> QED BY <2>1, <2>3 DEF LifeInv
<1>2. CASE \/ ValidateEnv \/ BuildCacheOptions \/ ConnectLibrary
           \/ OpenSubscriber \/ SubscribeAck \/ SubscribeFails \/ AttachListener \/ Listen
           \/ Signal \/ QuitSettles
  <2>1. UNCHANGED <<env, feed>>
    BY <1>2 DEF ValidateEnv, BuildCacheOptions, ConnectLibrary, OpenSubscriber, SubscribeAck,
         SubscribeFails, AttachListener, Listen, Signal, QuitSettles
  <2> QED BY <1>2, <2>1, StageInv
<1>3. CASE \E key \in OwnKey \union ForeignKey, d \in Db : Expire(key, d)
  BY <1>3, ExpireInv
<1> QED BY <1>1, <1>2, <1>3, DeliverInv, LinkInv DEF LifeNext

\* main.ts, cache.config.ts, ttl-events.service.ts: the tabs are told of own keys only, each
\* expiry once and in order, and of all of them but for the losses FeedFaithful names;
\* the API listens only as its environment says, and leaves no connection behind.
THEOREM FeedFaithfulHolds == LifeSpec => []FeedFaithful
BY LifeInitInv, LifeInvNext, LifeShows, PTL DEF LifeSpec

-----------------------------------------------------------------------------
(* The Pub/Sub page *)

\* What waits for its handlers: subscriptions the message was handed to, in the messages' order.
Queue ==
  /\ \A i \in DOMAIN sending : /\ sending[i].msg \in 1..Len(published)
                               /\ sending[i].to \subseteq published[sending[i].msg]
  /\ \A i, j \in DOMAIN sending : i < j => sending[i].msg < sending[j].msg

\* The rows are in that order too, and before what waits.
RowsInOrder ==
  /\ \A i \in Rows : /\ Stream[i].key \in 1..Len(published)
                     /\ \A n \in DOMAIN sending : Stream[i].key <= sending[n].msg
  /\ \A i, j \in Rows : i < j => Stream[i].key <= Stream[j].key

\* A message has no more rows than it must; just as many if none was lost, and then
\* the subscriptions that still wait for it are open.
Counted(m) ==
  /\ Copies(m, Stream) <= Cardinality(Due(m))
  /\ m \in whole => Copies(m, Stream) = Cardinality(Due(m)) /\ Underway(m) \subseteq open

FeedEntry == [kind : {"message", "connection"}, key : Message \union {None}, seq : Nat]

FeedInv ==
  /\ FeedTypeOK /\ SocketOK(FeedEntry) /\ card.msg <= Len(published)
  /\ Queue /\ RowsInOrder /\ \A m \in 1..Len(published) : Counted(m)

CopyPlaces(m, s) == {i \in DOMAIN s : s[i].kind = "message" /\ s[i].key = m}

LEMMA CopiesType ==
  ASSUME NEW m, NEW s, NEW E, s \in Seq(E)
  PROVE  /\ Copies(m, s) = Cardinality(CopyPlaces(m, s)) /\ Copies(m, s) \in Nat
         /\ IsFiniteSet(CopyPlaces(m, s)) /\ CopyPlaces(m, s) \subseteq 1..Len(s)
         /\ CopyPlaces(m, s) = {} => Copies(m, s) = 0
<1>1. Copies(m, s) = Cardinality(CopyPlaces(m, s))
  BY DEF Copies, CopyPlaces
<1>2. CopyPlaces(m, s) \subseteq 1..Len(s) /\ IsFiniteSet(1..Len(s))
  BY FS_Interval DEF CopyPlaces
<1>3. IsFiniteSet(CopyPlaces(m, s))
  BY <1>2, FS_Subset
<1>4. Copies(m, s) \in Nat
  BY <1>1, <1>3, FS_CardinalityType
<1>5. CopyPlaces(m, s) = {} => Copies(m, s) = 0
  BY <1>1, FS_EmptySet
<1> QED BY <1>1, <1>2, <1>3, <1>4, <1>5

\* One more entry is one more copy of its message.
LEMMA CopiesGrow ==
  ASSUME NEW E, NEW s \in Seq(E), NEW t \in Seq(E), Len(t) = Len(s) + 1,
         \A i \in 1..Len(s) : t[i] = s[i], NEW m
  PROVE  Copies(m, t) = IF t[Len(t)].kind = "message" /\ t[Len(t)].key = m
                        THEN Copies(m, s) + 1 ELSE Copies(m, s)
<1>1. /\ DOMAIN s = 1..Len(s) /\ DOMAIN t = 1..Len(t) /\ Len(s) \in Nat
      /\ Len(t) \notin 1..Len(s) /\ \A i : i \in 1..Len(t) <=> i \in 1..Len(s) \/ i = Len(t)
  <2>1. DOMAIN s = 1..Len(s) /\ DOMAIN t = 1..Len(t) /\ Len(s) \in Nat
    OBVIOUS
  <2> QED BY <2>1
<1>2. CASE t[Len(t)].kind = "message" /\ t[Len(t)].key = m
  <2>1. CopyPlaces(m, t) = CopyPlaces(m, s) \union {Len(t)} /\ Len(t) \notin CopyPlaces(m, s)
    BY <1>1, <1>2 DEF CopyPlaces
  <2>2. IsFiniteSet(CopyPlaces(m, s))
    BY CopiesType
  <2>3. Cardinality(CopyPlaces(m, t)) = Cardinality(CopyPlaces(m, s)) + 1
    BY <2>1, <2>2, FS_AddElement
  <2> QED BY <1>2, <2>3, CopiesType
<1>3. CASE ~(t[Len(t)].kind = "message" /\ t[Len(t)].key = m)
  <2>1. CopyPlaces(m, t) = CopyPlaces(m, s)
    BY <1>1, <1>3 DEF CopyPlaces
  <2> QED BY <1>3, <2>1, CopiesType
<1> QED BY <1>2, <1>3

\* A part of the list has no more copies.
LEMMA CopiesShrink ==
  ASSUME NEW E, NEW s \in Seq(E), NEW t \in Seq(E), NEW d \in Nat, Len(t) + d <= Len(s),
         \A i \in 1..Len(t) : t[i] = s[i + d], NEW m
  PROVE  Copies(m, t) <= Copies(m, s)
<1> DEFINE S == CopyPlaces(m, s)
           T == CopyPlaces(m, t)
           f == [i \in T |-> i + d]
<1>0. DOMAIN s = 1..Len(s) /\ Len(s) \in Nat /\ Len(t) \in Nat
  OBVIOUS
<1>1. IsFiniteSet(S)
  BY CopiesType
<1>2. ASSUME NEW i \in T PROVE i + d \in S /\ i \in Nat
  <2>1. i \in 1..Len(t) /\ t[i].kind = "message" /\ t[i].key = m
    BY <1>2 DEF CopyPlaces
  <2>2. i + d \in 1..Len(s) /\ s[i + d] = t[i]
    BY <1>0, <2>1
  <2> QED BY <1>0, <2>1, <2>2 DEF CopyPlaces
<1> HIDE DEF S, T
<1>3. f \in [T -> S] /\ \A i \in T : f[i] = i + d
  BY <1>2
<1> HIDE DEF f
<1>4. \A i, j \in T : f[i] = f[j] => i = j
  BY <1>2, <1>3
<1>5. f \in Injection(T, S)
  BY <1>3, <1>4 DEF Injection, IsInjective
<1>6. Cardinality(T) <= Cardinality(S)
  BY <1>1, <1>5, FS_Injection
<1> QED BY <1>6, CopiesType DEF S, T

LEMMA WaitsFor ==
  \A m, s : s \in Underway(m) <=> \E i \in DOMAIN sending : sending[i].msg = m /\ s \in sending[i].to
BY DEF Underway

\* What the types say.
LEMMA FeedTypes ==
  ASSUME FeedInv
  PROVE  /\ SocketOK(FeedEntry) /\ Stream \in Seq(FeedEntry) /\ Len(Stream) \in Nat
         /\ {enabled, raf, frame, reachable} \subseteq BOOLEAN
         /\ open \subseteq Subscription /\ published \in Seq(SUBSET Subscription)
         /\ Len(published) \in 0..MaxMsgs /\ Len(published) \in Nat /\ MaxMsgs \in Nat /\ MaxCuts \in Nat
         /\ sending \in Seq([msg : Message, to : SUBSET Subscription])
         /\ card \in [at : {"idle", "posted", "answered"}, channel : Channel, msg : 0..MaxMsgs]
         /\ cuts \in 0..MaxCuts /\ whole \subseteq 1..Len(published) /\ card.msg <= Len(published)
         /\ Queue /\ RowsInOrder /\ \A m \in 1..Len(published) : Counted(m)
         /\ \A m \in 1..Len(published) : published[m] \subseteq Subscription
<1>1. /\ published \in Seq(SUBSET Subscription) /\ Len(published) <= MaxMsgs /\ MaxMsgs \in Nat
      /\ SocketOK(FeedEntry)
  BY FeedAssumption DEF FeedInv, FeedTypeOK
<1>2. Stream \in Seq(FeedEntry)
  BY <1>1, StreamType
<1>3. Len(published) \in 0..MaxMsgs /\ Len(published) \in Nat /\ Len(Stream) \in Nat
  BY <1>1, <1>2
<1>4. \A m \in 1..Len(published) : published[m] \subseteq Subscription
  BY <1>1
<1> QED BY <1>1, <1>2, <1>3, <1>4, FeedAssumption DEF FeedInv, FeedTypeOK, SocketOK

\* A state with the right types and facts.
LEMMA FeedBack ==
  ASSUME SocketOK(FeedEntry)', {reachable'} \subseteq BOOLEAN, open' \subseteq Subscription,
         published' \in Seq(SUBSET Subscription), Len(published') <= MaxMsgs,
         sending' \in Seq([msg : Message, to : SUBSET Subscription]),
         card' \in [at : {"idle", "posted", "answered"}, channel : Channel, msg : 0..MaxMsgs],
         cuts' \in 0..MaxCuts, whole' \subseteq 1..Len(published'), card'.msg <= Len(published'),
         Queue', RowsInOrder', \A m \in 1..Len(published') : Counted(m)'
  PROVE  FeedInv'
<1>1. {enabled', raf', frame'} \subseteq BOOLEAN /\ pending' \in Seq(FeedEntry) /\ Len(buffer') <= Capacity
  BY DEF SocketOK
<1>2. FeedTypeOK'
  BY <1>1 DEF FeedTypeOK, FeedEntry
<1>3. (\A m \in 1..Len(published) : Counted(m))'
  OBVIOUS
<1> QED BY <1>2, <1>3 DEF FeedInv

LEMMA DueFinite ==
  ASSUME FeedInv, NEW m \in 1..Len(published)
  PROVE  IsFiniteSet(Due(m)) /\ Cardinality(Due(m)) \in Nat
<1>1. Due(m) \subseteq Subscription /\ IsFiniteSet(Subscription)
  BY FeedTypes, FeedAssumption DEF Due
<1>2. IsFiniteSet(Due(m))
  BY <1>1, FS_Subset
<1> QED BY <1>2, FS_CardinalityType

LEMMA FeedShows == FeedInv => MessagesArrive
<1> SUFFICES ASSUME FeedInv PROVE MessagesArrive
  OBVIOUS
<1>1. /\ \A i, j \in Rows : i < j => Stream[i].key <= Stream[j].key
      /\ \A m \in 1..Len(published) :
           /\ Copies(m, Stream) <= Cardinality(Due(m))
           /\ m \in whole => Copies(m, Stream) = Cardinality(Due(m))
  BY DEF FeedInv, RowsInOrder, Counted
<1>2. ASSUME card.msg \in whole, Underway(card.msg) = {}
      PROVE  Copies(card.msg, Stream) = Delivered - Cardinality(published[card.msg] \intersect Throwing)
  <2> DEFINE P == published[card.msg]
  <2>1. card.msg \in 1..Len(published) /\ P \subseteq Subscription
    BY <1>2, FeedTypes
  <2>2. Copies(card.msg, Stream) = Cardinality(P \ Throwing)
    BY <1>1, <1>2, <2>1 DEF Due
  <2> HIDE DEF P
  <2>3. IsFiniteSet(P)
    BY <2>1, FS_Subset, FeedAssumption
  <2>4. IsFiniteSet(P \ Throwing) /\ IsFiniteSet(P \intersect Throwing)
    <3>1. P \ Throwing \in SUBSET P /\ P \intersect Throwing \in SUBSET P
      OBVIOUS
    <3> QED BY <2>3, <3>1, FS_Subset
  <2>5. /\ (P \ Throwing) \union (P \intersect Throwing) = P
        /\ (P \ Throwing) \intersect (P \intersect Throwing) = {}
    OBVIOUS
  <2>6. /\ Cardinality((P \ Throwing) \union (P \intersect Throwing))
             = Cardinality(P \ Throwing) + Cardinality(P \intersect Throwing)
                 - Cardinality((P \ Throwing) \intersect (P \intersect Throwing))
    BY <2>4, FS_Union
  <2>7. Cardinality(P) = Cardinality(P \ Throwing) + Cardinality(P \intersect Throwing) - 0
    BY <2>5, <2>6, FS_EmptySet
  <2>8. Cardinality(P \ Throwing) \in Nat /\ Cardinality(P \intersect Throwing) \in Nat
    BY <2>4, FS_CardinalityType
  <2>9. Cardinality(P \ Throwing) = Cardinality(P) - Cardinality(P \intersect Throwing)
    BY <2>7, <2>8
  <2> QED BY <2>2, <2>9 DEF P, Delivered
<1> QED BY <1>1, <1>2 DEF MessagesArrive

LEMMA FeedInitInv == FeedInit => FeedInv
<1> SUFFICES ASSUME FeedInit PROVE FeedInv
  OBVIOUS
<1>1. /\ SocketInit /\ open = Subscription /\ reachable = TRUE /\ published = <<>> /\ sending = <<>>
      /\ card = NoAnswer /\ cuts = 0 /\ whole = {}
  BY DEF FeedInit
<1>2. SocketOK(FeedEntry) /\ Stream = <<>>
  BY <1>1, SocketStart
<1>3. card \in [at : {"idle", "posted", "answered"}, channel : Channel, msg : 0..MaxMsgs] /\ card.msg = 0
  <2>1. (CHOOSE c \in Channel : TRUE) \in Channel /\ 0 \in 0..MaxMsgs
    BY FeedAssumption
  <2> QED BY <1>1, <2>1 DEF NoAnswer, None
<1>4. FeedTypeOK
  <2>1. {enabled, raf, frame} \subseteq BOOLEAN /\ pending \in Seq(FeedEntry) /\ Len(buffer) <= Capacity
    BY <1>2 DEF SocketOK
  <2>2. Len(published) <= MaxMsgs /\ cuts \in 0..MaxCuts
    BY <1>1, FeedAssumption
  <2> QED BY <1>1, <1>3, <2>1, <2>2 DEF FeedTypeOK, FeedEntry
<1>5. DOMAIN sending = {} /\ Rows = {} /\ 1..Len(published) = {} /\ card.msg <= Len(published)
  <2>1. DOMAIN <<>> = {} /\ Len(<<>>) = 0
    OBVIOUS
  <2> QED BY <1>1, <1>2, <1>3, <2>1 DEF Rows
<1> QED BY <1>2, <1>4, <1>5 DEF FeedInv, Queue, RowsInOrder

\* What keeps the messages, the queue and the rows keeps what is true of them.
LEMMA FeedSame ==
  ASSUME FeedInv, UNCHANGED <<socketVars, published, sending>>
  PROVE  /\ SocketOK(FeedEntry)' /\ Queue' /\ RowsInOrder' /\ Stream' = Stream
         /\ \A m : Due(m)' = Due(m) /\ Underway(m)' = Underway(m)
<1>1. SocketOK(FeedEntry)' /\ Stream' = Stream /\ Rows' = Rows
  BY FeedTypes DEF socketVars, SocketOK, Stream, Rows
<1>2. Queue' /\ RowsInOrder'
  BY <1>1, FeedTypes DEF Queue, RowsInOrder
<1> QED BY <1>1, <1>2 DEF Due, Underway

\* A subscription opens, or closes: what waits for it will find no handler.
LEMMA SubscriptionInv ==
  ASSUME FeedInv, NEW s \in Subscription, Subscribe(s) \/ Unsubscribe(s)
  PROVE  FeedInv'
<1>1. /\ UNCHANGED <<socketVars, published, sending, reachable, card, cuts>>
      /\ \/ open' = open \union {s} /\ whole' = whole
         \/ /\ open' = open \ {s}
            /\ whole' = {m \in whole : \A i \in DOMAIN sending : sending[i].msg = m => s \notin sending[i].to}
  BY DEF Subscribe, Unsubscribe
<1>2. /\ SocketOK(FeedEntry)' /\ Queue' /\ RowsInOrder' /\ Stream' = Stream
      /\ \A m : Due(m)' = Due(m) /\ Underway(m)' = Underway(m)
  BY <1>1, FeedSame
<1>3. \A m \in whole' : m \in whole /\ (Underway(m) \subseteq open => Underway(m) \subseteq open')
  <2>1. CASE open' = open \union {s} /\ whole' = whole
    BY <2>1
  <2>2. CASE /\ open' = open \ {s}
             /\ whole' = {m \in whole : \A i \in DOMAIN sending : sending[i].msg = m => s \notin sending[i].to}
    <3>1. \A m \in whole' : s \notin Underway(m)
      BY <2>2, WaitsFor
    <3> QED BY <2>2, <3>1
  <2> QED BY <1>1, <2>1, <2>2
<1>4. \A m \in 1..Len(published') : Counted(m)'
  BY <1>1, <1>2, <1>3, FeedTypes DEF Counted
<1>5. open' \subseteq Subscription /\ whole' \subseteq 1..Len(published')
  BY <1>1, <1>3, FeedTypes
<1> QED BY <1>1, <1>2, <1>4, <1>5, FeedTypes, FeedBack

\* The connection is lost, with what was on it, or is back.
LEMMA FeedLinkInv == FeedInv /\ (CutLink \/ MendLink) => FeedInv'
<1> SUFFICES ASSUME FeedInv, CutLink \/ MendLink PROVE FeedInv'
  OBVIOUS
<1>1. CASE MendLink
  <2>1. UNCHANGED <<socketVars, published, sending, open, card, cuts, whole>> /\ reachable' \in BOOLEAN
    BY <1>1 DEF MendLink
  <2>2. /\ SocketOK(FeedEntry)' /\ Queue' /\ RowsInOrder' /\ Stream' = Stream
        /\ \A m : Due(m)' = Due(m) /\ Underway(m)' = Underway(m)
    BY <2>1, FeedSame
  <2>3. \A m \in 1..Len(published') : Counted(m)'
    BY <2>1, <2>2, FeedTypes DEF Counted
  <2> QED BY <2>1, <2>2, <2>3, FeedTypes, FeedBack
<1>2. CASE CutLink
  <2>1. /\ UNCHANGED <<socketVars, open, published, card>> /\ reachable' = FALSE
        /\ sending' = <<>> /\ cuts < MaxCuts /\ cuts' = cuts + 1
        /\ whole' = whole \ {sending[i].msg : i \in DOMAIN sending}
    BY <1>2 DEF CutLink
  <2>2. SocketOK(FeedEntry)' /\ Stream' = Stream /\ Rows' = Rows /\ DOMAIN sending' = {}
    BY <2>1, FeedTypes DEF socketVars, SocketOK, Stream, Rows
  <2>3. Queue' /\ RowsInOrder'
    BY <2>1, <2>2, FeedTypes DEF Queue, RowsInOrder
  <2>4. ASSUME NEW m \in 1..Len(published) PROVE Counted(m)'
    <3>1. Underway(m)' = {} /\ published' = published
      BY <2>1, <2>2 DEF Underway
    <3>2. Due(m) \subseteq Due(m)' /\ Due(m)' \subseteq Subscription
      BY <2>4, <3>1, FeedTypes DEF Due
    <3>3. IsFiniteSet(Due(m)') /\ Cardinality(Due(m)) <= Cardinality(Due(m)')
          /\ Cardinality(Due(m)') \in Nat
      <4>1. IsFiniteSet(Due(m)')
        BY <3>2, FS_Subset, FeedAssumption
      <4> QED BY <3>2, <4>1, FS_Subset, FS_CardinalityType
    <3>4. /\ Copies(m, Stream) <= Cardinality(Due(m)) /\ Copies(m, Stream) \in Nat
          /\ Cardinality(Due(m)) \in Nat
      BY <2>4, FeedTypes, DueFinite, CopiesType DEF Counted
    <3>5. ASSUME m \in whole' PROVE Due(m)' = Due(m) /\ m \in whole
      <4>1. Underway(m) = {}
        BY <2>1, <3>5, WaitsFor
      <4> QED BY <2>1, <3>1, <3>5, <4>1 DEF Due
    <3> QED BY <2>2, <2>4, <3>1, <3>3, <3>4, <3>5, FeedTypes DEF Counted
  <2>5. /\ whole' \subseteq 1..Len(published') /\ cuts' \in 0..MaxCuts
        /\ sending' \in Seq([msg : Message, to : SUBSET Subscription])
        /\ {reachable'} \subseteq BOOLEAN /\ published' = published /\ card' = card /\ open' = open
    <3>1. cuts \in 0..MaxCuts /\ MaxCuts \in Nat /\ whole \subseteq 1..Len(published)
      BY FeedTypes
    <3>2. cuts' \in 0..MaxCuts
      BY <2>1, <3>1
    <3>3. <<>> \in Seq([msg : Message, to : SUBSET Subscription])
      OBVIOUS
    <3> QED BY <2>1, <3>1, <3>2, <3>3
  <2>6. \A m \in 1..Len(published') : Counted(m)'
    BY <2>4, <2>5
  <2>7. /\ open' \subseteq Subscription
        /\ published' \in Seq(SUBSET Subscription) /\ Len(published') <= MaxMsgs
        /\ card' \in [at : {"idle", "posted", "answered"}, channel : Channel, msg : 0..MaxMsgs]
        /\ card'.msg <= Len(published')
    BY <2>5, FeedTypes
  <2> QED BY <2>2, <2>3, <2>5, <2>6, <2>7, FeedBack
<1> QED BY <1>1, <1>2

\* A message goes out: it has no rows yet, and waits for all it was handed to.
LEMMA PublishAtInv ==
  ASSUME FeedInv, NEW channel \in Channel, PublishAt(channel), UNCHANGED <<socketVars, open>>
  PROVE  /\ SocketOK(FeedEntry)' /\ Queue' /\ RowsInOrder' /\ \A m \in 1..Len(published') : Counted(m)'
         /\ published' \in Seq(SUBSET Subscription) /\ Len(published') = Len(published) + 1
         /\ Len(published') <= MaxMsgs /\ whole' \subseteq 1..Len(published')
         /\ sending' \in Seq([msg : Message, to : SUBSET Subscription])
<1>0. PICK n \in Nat : n = Len(published) + 1
  BY FeedTypes
<1> DEFINE to == IF reachable THEN {s \in open : channel \in Covers[s]} ELSE {}
           e == [msg |-> n, to |-> to]
<1>1. /\ n <= MaxMsgs /\ published' = Append(published, to)
      /\ sending' = IF to = {} THEN sending ELSE Append(sending, e)
      /\ whole' = whole \union {n} /\ UNCHANGED <<socketVars, open>>
  BY <1>0 DEF PublishAt
<1>2. to \subseteq open /\ to \subseteq Subscription
  BY FeedTypes
<1> HIDE DEF to
<1>3. /\ published \in Seq(SUBSET Subscription) /\ Len(published) \in Nat /\ MaxMsgs \in Nat
      /\ sending \in Seq([msg : Message, to : SUBSET Subscription]) /\ whole \subseteq 1..Len(published)
      /\ Queue /\ RowsInOrder /\ \A m \in 1..Len(published) : Counted(m)
  BY FeedTypes
<1>4. /\ published' \in Seq(SUBSET Subscription) /\ Len(published') = n /\ n \in Nat
      /\ published'[n] = to /\ \A m \in 1..Len(published) : published'[m] = published[m]
      /\ \A m \in 1..n : m \in 1..Len(published) \/ m = n
      /\ \A m \in 1..Len(published) : m \in 1..n /\ m < n
  <2>1. Append(published, to) \in Seq(SUBSET Subscription)
    BY <1>2, <1>3
  <2>2. /\ Len(Append(published, to)) = n /\ n \in Nat /\ Append(published, to)[n] = to
        /\ \A m \in 1..Len(published) : Append(published, to)[m] = published[m]
    BY <1>0, <1>3
  <2>3. /\ \A m \in 1..n : m \in 1..Len(published) \/ m = n
        /\ \A m \in 1..Len(published) : m \in 1..n /\ m < n
    BY <1>0, <1>3
  <2> QED BY <1>1, <2>1, <2>2, <2>3
<1>5. e \in [msg : Message, to : SUBSET Subscription] /\ e.msg = n /\ e.to = to
  BY <1>1, <1>2, <1>4, <1>3 DEF Message
<1> HIDE DEF e
<1>6. /\ sending' \in Seq([msg : Message, to : SUBSET Subscription])
      /\ \A i \in DOMAIN sending : i \in DOMAIN sending' /\ sending'[i] = sending[i]
      /\ \A i \in DOMAIN sending' : i \in DOMAIN sending \/ (to # {} /\ sending'[i] = e /\ i = Len(sending) + 1)
      /\ to # {} => Len(sending) + 1 \in DOMAIN sending' /\ sending'[Len(sending) + 1] = e
      /\ Len(sending) \in Nat /\ \A i \in DOMAIN sending : i < Len(sending) + 1
  <2>1. CASE to = {}
    BY <1>1, <1>3, <2>1
  <2>2. CASE to # {}
    <3>1. sending' = Append(sending, e)
      BY <1>1, <2>2
    <3>2. /\ Append(sending, e) \in Seq([msg : Message, to : SUBSET Subscription])
          /\ DOMAIN Append(sending, e) = 1..Len(sending) + 1 /\ DOMAIN sending = 1..Len(sending)
          /\ Len(sending) \in Nat /\ Append(sending, e)[Len(sending) + 1] = e
          /\ \A i \in 1..Len(sending) : Append(sending, e)[i] = sending[i]
      BY <1>3, <1>5
    <3>3. \A i : i \in 1..Len(sending) + 1 <=> i \in 1..Len(sending) \/ i = Len(sending) + 1
      BY <3>2
    <3> QED BY <2>2, <3>1, <3>2, <3>3
  <2> QED BY <2>1, <2>2
<1>7. Queue'
  <2>1. \A i \in DOMAIN sending : /\ sending[i].msg \in 1..Len(published)
                                  /\ sending[i].to \subseteq published[sending[i].msg]
    BY <1>3 DEF Queue
  <2>2. \A i \in DOMAIN sending' : /\ sending'[i].msg \in 1..Len(published')
                                   /\ sending'[i].to \subseteq published'[sending'[i].msg]
    <3> SUFFICES ASSUME NEW i \in DOMAIN sending'
                 PROVE  /\ sending'[i].msg \in 1..Len(published')
                        /\ sending'[i].to \subseteq published'[sending'[i].msg]
      OBVIOUS
    <3>1. CASE i \in DOMAIN sending
      BY <1>4, <1>6, <2>1, <3>1
    <3>2. CASE sending'[i] = e
      <4>1. sending'[i].msg = n /\ sending'[i].to = to /\ published'[n] = to /\ n \in 1..Len(published')
        BY <1>0, <1>3, <1>4, <1>5, <3>2
      <4> QED BY <4>1
    <3> QED BY <1>6, <3>1, <3>2
  <2>3. \A i, j \in DOMAIN sending' : i < j => sending'[i].msg < sending'[j].msg
    <3> SUFFICES ASSUME NEW i \in DOMAIN sending', NEW j \in DOMAIN sending', i < j
                 PROVE  sending'[i].msg < sending'[j].msg
      OBVIOUS
    <3>1. i \in DOMAIN sending
      <4>1. i # Len(sending) + 1 \/ j \in DOMAIN sending
        BY <1>6
      <4> QED BY <1>6, <4>1
    <3>2. CASE j \in DOMAIN sending
      BY <1>3, <1>6, <3>1, <3>2 DEF Queue
    <3>3. CASE sending'[j] = e
      BY <1>4, <1>5, <1>6, <2>1, <3>1, <3>3
    <3> QED BY <1>6, <3>2, <3>3
  <2> QED BY <2>2, <2>3 DEF Queue
<1>8. SocketOK(FeedEntry)' /\ Stream' = Stream /\ Rows' = Rows
  BY <1>1, FeedTypes DEF socketVars, SocketOK, Stream, Rows
<1>9. RowsInOrder'
  <2>1. \A i \in Rows : Stream[i].key \in 1..Len(published)
    BY <1>3 DEF RowsInOrder
  <2>2. ASSUME NEW i \in Rows, NEW k \in DOMAIN sending' PROVE Stream[i].key <= sending'[k].msg
    <3>1. CASE k \in DOMAIN sending
      BY <1>3, <1>6, <2>2, <3>1 DEF RowsInOrder
    <3>2. CASE sending'[k] = e
      BY <1>3, <1>4, <1>5, <2>1, <2>2, <3>2
    <3> QED BY <1>6, <2>2, <3>1, <3>2
  <2> QED BY <1>3, <1>4, <1>8, <2>1, <2>2 DEF RowsInOrder
<1>10. ASSUME NEW m \in 1..Len(published) PROVE Counted(m)'
  <2>1. Underway(m)' = Underway(m)
    <3>1. \A i \in DOMAIN sending' : sending'[i].msg = m => i \in DOMAIN sending
      BY <1>4, <1>5, <1>6, <1>10
    <3> QED BY <1>6, <3>1 DEF Underway
  <2>2. Due(m)' = Due(m) /\ (m \in whole' => m \in whole)
    BY <1>1, <1>4, <1>10, <2>1 DEF Due
  <2> QED BY <1>1, <1>3, <1>8, <1>10, <2>1, <2>2 DEF Counted
<1>11. Counted(n)'
  <2>1. Underway(n)' = to
    <3>1. \A i \in DOMAIN sending' : sending'[i].msg = n => i = Len(sending) + 1 /\ sending'[i] = e /\ to # {}
      <4>1. \A i \in DOMAIN sending : sending[i].msg \in 1..Len(published)
        BY <1>3 DEF Queue
      <4> QED BY <1>4, <1>6, <4>1
    <3>2. to # {} => Len(sending) + 1 \in DOMAIN sending' /\ sending'[Len(sending) + 1].msg = n
      BY <1>5, <1>6
    <3>3. \A s : s \in Underway(n)' <=> \E i \in DOMAIN sending' : sending'[i].msg = n /\ s \in sending'[i].to
      BY DEF Underway
    <3> QED BY <1>5, <3>1, <3>2, <3>3
  <2>2. Due(n)' = {}
    BY <1>4, <2>1 DEF Due
  <2>3. Copies(n, Stream) = 0
    <3>1. \A i \in Rows : Stream[i].key # n
      BY <1>3, <1>4 DEF RowsInOrder
    <3>2. CopyPlaces(n, Stream) = {}
      BY <3>1 DEF CopyPlaces, Rows
    <3> QED BY <3>2, CopiesType, FeedTypes
  <2> QED BY <1>1, <1>2, <1>8, <2>1, <2>2, <2>3, FS_EmptySet DEF Counted
<1>12. \A m \in 1..Len(published') : Counted(m)'
  BY <1>4, <1>10, <1>11
<1>13. Len(published') <= MaxMsgs /\ whole' \subseteq 1..Len(published')
  BY <1>1, <1>3, <1>4
<1> QED BY <1>0, <1>4, <1>6, <1>7, <1>8, <1>9, <1>12, <1>13

LEMMA PublishInv ==
  ASSUME FeedInv, NEW channel \in Channel,
         PublishElsewhere(channel) \/ HandlePublish(channel) \/ ServePublish \/ AnswerPublish
  PROVE  FeedInv'
<1> DEFINE C == [at : {"idle", "posted", "answered"}, channel : Channel, msg : 0..MaxMsgs]
<1>1. card \in C /\ card.msg \in 0..MaxMsgs /\ card.channel \in Channel /\ card.msg <= Len(published)
      /\ Len(published) \in Nat
  BY FeedTypes
<1>2. CASE PublishElsewhere(channel) \/ ServePublish
  <2>1. UNCHANGED <<socketVars, open, reachable, cuts>> /\ \E c \in Channel : PublishAt(c)
    BY <1>1, <1>2 DEF PublishElsewhere, ServePublish
  <2>2. PICK c \in Channel : PublishAt(c)
    BY <2>1
  <2>3. /\ SocketOK(FeedEntry)' /\ Queue' /\ RowsInOrder' /\ \A m \in 1..Len(published') : Counted(m)'
        /\ published' \in Seq(SUBSET Subscription) /\ Len(published') = Len(published) + 1
        /\ Len(published') <= MaxMsgs /\ whole' \subseteq 1..Len(published')
        /\ sending' \in Seq([msg : Message, to : SUBSET Subscription])
    BY <2>1, <2>2, PublishAtInv
  <2>4. card' \in C /\ card'.msg <= Len(published')
    <3>1. CASE card' = card
      BY <1>1, <2>3, <3>1
    <3>2. CASE card' = [card EXCEPT !.msg = Len(published) + 1]
      <4>1. Len(published) + 1 \in 0..MaxMsgs
        BY <1>1, <2>3, FeedAssumption
      <4> QED BY <1>1, <2>3, <3>2, <4>1
    <3> QED BY <1>2, <3>1, <3>2 DEF PublishElsewhere, ServePublish
  <2>5. {reachable'} \subseteq BOOLEAN /\ open' \subseteq Subscription /\ cuts' \in 0..MaxCuts
    BY <2>1, FeedTypes
  <2> QED BY <2>3, <2>4, <2>5, FeedBack
<1>3. CASE HandlePublish(channel) \/ AnswerPublish
  <2>1. UNCHANGED <<socketVars, open, reachable, published, sending, cuts, whole>>
    BY <1>3 DEF HandlePublish, AnswerPublish
  <2>2. /\ SocketOK(FeedEntry)' /\ Queue' /\ RowsInOrder' /\ Stream' = Stream
        /\ \A m : Due(m)' = Due(m) /\ Underway(m)' = Underway(m)
    BY <2>1, FeedSame
  <2>3. \A m \in 1..Len(published') : Counted(m)'
    BY <2>1, <2>2, FeedTypes DEF Counted
  <2>4. card' \in C /\ card'.msg <= Len(published')
    <3>1. (CHOOSE c \in Channel : TRUE) \in Channel /\ 0 \in 0..MaxMsgs
      BY FeedAssumption
    <3>2. \/ card' = [at |-> "posted", channel |-> channel, msg |-> 0]
          \/ card' = [at |-> "answered", channel |-> CHOOSE c \in Channel : TRUE, msg |-> card.msg]
          \/ card' = [at |-> "idle", channel |-> CHOOSE c \in Channel : TRUE, msg |-> 0]
      BY <1>3 DEF HandlePublish, AnswerPublish, NoAnswer, None
    <3> QED BY <1>1, <2>1, <3>1, <3>2
  <2>5. /\ {reachable'} \subseteq BOOLEAN /\ open' \subseteq Subscription /\ cuts' \in 0..MaxCuts
        /\ published' \in Seq(SUBSET Subscription) /\ Len(published') <= MaxMsgs
        /\ sending' \in Seq([msg : Message, to : SUBSET Subscription]) /\ whole' \subseteq 1..Len(published')
    BY <2>1, FeedTypes
  <2> QED BY <2>2, <2>3, <2>4, <2>5, FeedBack
<1> QED BY <1>2, <1>3

\* What is left of the stream when the toggle or a frame took some of it: the messages
\* that lost a row are not whole any more.
LEMMA StreamShrinks ==
  ASSUME FeedInv, UNCHANGED <<open, reachable, published, sending, card, cuts>>, SocketOK(FeedEntry)',
         NEW d \in Nat, Len(Stream') + d <= Len(Stream),
         \A i \in 1..Len(Stream') : Stream'[i] = Stream[i + d],
         whole' = Kept(Stream, Stream')
  PROVE  FeedInv'
<1>1. /\ Stream \in Seq(FeedEntry) /\ Stream' \in Seq(FeedEntry)
      /\ Len(Stream) \in Nat /\ Len(Stream') \in Nat
      /\ DOMAIN Stream = 1..Len(Stream) /\ DOMAIN Stream' = 1..Len(Stream')
  <2>1. buffer' \in Seq(FeedEntry) /\ pending' \in Seq(FeedEntry)
    BY DEF SocketOK
  <2>2. Stream' \in Seq(FeedEntry)
    BY <2>1 DEF Stream
  <2>3. Stream \in Seq(FeedEntry)
    BY FeedTypes
  <2> QED BY <2>2, <2>3
<1>2. \A i \in Rows' : i + d \in Rows /\ Stream'[i] = Stream[i + d] /\ i \in Nat
  <2> SUFFICES ASSUME NEW i \in Rows' PROVE i + d \in Rows /\ Stream'[i] = Stream[i + d] /\ i \in Nat
    OBVIOUS
  <2>1. i \in 1..Len(Stream') /\ Stream'[i].kind = "message"
    BY <1>1 DEF Rows
  <2>2. i + d \in 1..Len(Stream) /\ Stream[i + d] = Stream'[i] /\ i \in Nat
    BY <1>1, <2>1
  <2> QED BY <1>1, <2>1, <2>2 DEF Rows
<1>3. RowsInOrder'
  <2>1. /\ \A i \in Rows : /\ Stream[i].key \in 1..Len(published)
                           /\ \A n \in DOMAIN sending : Stream[i].key <= sending[n].msg
        /\ \A i, j \in Rows : i < j => Stream[i].key <= Stream[j].key
    BY FeedTypes DEF RowsInOrder
  <2>2. \A i \in Rows' : /\ Stream'[i].key \in 1..Len(published')
                         /\ \A n \in DOMAIN sending' : Stream'[i].key <= sending'[n].msg
    BY <1>2, <2>1
  <2>3. \A i, j \in Rows' : i < j => Stream'[i].key <= Stream'[j].key
    <3> SUFFICES ASSUME NEW i \in Rows', NEW j \in Rows', i < j PROVE Stream'[i].key <= Stream'[j].key
      OBVIOUS
    <3>1. i + d < j + d /\ i + d \in Rows /\ j + d \in Rows
      BY <1>2
    <3> QED BY <1>2, <2>1, <3>1
  <2> QED BY <2>2, <2>3 DEF RowsInOrder
<1>4. ASSUME NEW m \in 1..Len(published) PROVE Counted(m)'
  <2>1. /\ Copies(m, Stream') <= Copies(m, Stream)
        /\ Copies(m, Stream') \in Nat /\ Copies(m, Stream) \in Nat
    BY <1>1, CopiesShrink, CopiesType
  <2>2. Due(m)' = Due(m) /\ Underway(m)' = Underway(m) /\ Cardinality(Due(m)) \in Nat
    BY <1>4, DueFinite DEF Due, Underway
  <2>3. m \in whole' => m \in whole /\ Copies(m, Stream') = Copies(m, Stream)
    BY DEF Kept
  <2>4. Counted(m)
    BY <1>4, FeedTypes
  <2> QED BY <2>1, <2>2, <2>3, <2>4 DEF Counted
<1>5. Queue' /\ whole' \subseteq 1..Len(published')
  BY FeedTypes DEF Queue, Kept
<1>6. \A m \in 1..Len(published') : Counted(m)'
  BY <1>4
<1> QED BY <1>3, <1>5, <1>6, FeedTypes, FeedBack

LEMMA FeedTabInv == FeedInv /\ (ToggleLive \/ FlushFeed) => FeedInv'
<1> SUFFICES ASSUME FeedInv, ToggleLive \/ FlushFeed PROVE FeedInv'
  OBVIOUS
<1>1. UNCHANGED <<open, reachable, published, sending, card, cuts>>
  BY DEF ToggleLive, FlushFeed
<1>2. SocketOK(FeedEntry)
  BY FeedTypes
<1>3. CASE ToggleLive
  <2>1. SocketOK(FeedEntry)' /\ Stream' = buffer /\ whole' = Kept(Stream, Stream')
    BY <1>2, <1>3, ToggleStream DEF ToggleLive, Stream, Enable, Disable
  <2>2. Len(Stream') + 0 <= Len(Stream) /\ \A i \in 1..Len(Stream') : Stream'[i] = Stream[i + 0]
    <3>1. /\ Len(Stream) = Len(buffer) + Len(pending) /\ Len(buffer) \in Nat /\ Len(pending) \in Nat
          /\ \A i \in 1..Len(buffer) : Stream[i] = buffer[i]
      BY <1>2, StreamType
    <3> QED BY <2>1, <3>1
  <2> QED BY <1>1, <2>1, <2>2, StreamShrinks
<1>4. CASE FlushFeed
  <2>1. SocketOK(FeedEntry)' /\ Stream' = buffer' /\ whole' = Kept(Stream, Stream')
    BY <1>2, <1>4, FlushStream DEF FlushFeed, Stream
  <2>2. PICK d \in Nat : /\ Len(Stream) = Len(Stream') + d
                         /\ \A i \in 1..Len(Stream') : Stream'[i] = Stream[i + d]
    BY <1>2, <1>4, FlushStream DEF FlushFeed
  <2>3. Len(Stream) \in Nat /\ Len(Stream') + d <= Len(Stream)
    BY <2>2, FeedTypes
  <2> QED BY <1>1, <2>1, <2>2, <2>3, StreamShrinks
<1> QED BY <1>3, <1>4

\* The head of the queue.
LEMMA FeedHead ==
  ASSUME FeedInv, 1 \in DOMAIN sending
  PROVE  /\ DOMAIN sending = 1..Len(sending) /\ Len(sending) \in Nat /\ Len(sending) >= 1
         /\ sending \in Seq([msg : Message, to : SUBSET Subscription])
         /\ sending[1].msg \in Message /\ sending[1].to \subseteq Subscription
         /\ sending[1].msg \in 1..Len(published) /\ sending[1].to \subseteq published[sending[1].msg]
         /\ \A i, j \in DOMAIN sending : i < j => sending[i].msg < sending[j].msg
         /\ \A i \in DOMAIN sending : i # 1 => sending[i].msg # sending[1].msg
         /\ Underway(sending[1].msg) = sending[1].to
<1> DEFINE T == [msg : Message, to : SUBSET Subscription]
<1>1. sending \in Seq(T) /\ Queue
  BY FeedTypes
<1> HIDE DEF T
<1>2. DOMAIN sending = 1..Len(sending) /\ Len(sending) \in Nat /\ Len(sending) >= 1
  <2>1. DOMAIN sending = 1..Len(sending) /\ Len(sending) \in Nat
    BY <1>1
  <2> QED BY <2>1
<1>3. sending[1] \in T
  BY <1>1
<1> USE DEF T
<1>4. \A i \in DOMAIN sending : sending[i].msg \in Nat
  BY <1>1, FeedTypes DEF Queue
<1>5. ASSUME NEW i \in DOMAIN sending, i # 1 PROVE sending[i].msg # sending[1].msg
  <2>1. 1 < i
    BY <1>2, <1>5
  <2>2. sending[1].msg < sending[i].msg
    BY <1>1, <1>5, <2>1 DEF Queue
  <2> QED BY <1>4, <1>5, <2>2
<1>6. Underway(sending[1].msg) = sending[1].to
  <2>1. \A x : x \in Underway(sending[1].msg) => x \in sending[1].to
    BY <1>5, WaitsFor
  <2>2. \A x : x \in sending[1].to => x \in Underway(sending[1].msg)
    BY WaitsFor
  <2> QED BY <2>1, <2>2
<1> QED BY <1>1, <1>2, <1>3, <1>5, <1>6 DEF Queue

\* It waits for one subscription less, or for none any more and leaves.
LEMMA HeadLeaves ==
  ASSUME FeedInv, 1 \in DOMAIN sending, NEW s, sending[1].to \ {s} = {},
         sending' = SubSeq(sending, 2, Len(sending))
  PROVE  /\ sending' \in Seq([msg : Message, to : SUBSET Subscription])
         /\ \A i \in DOMAIN sending' : \E j \in DOMAIN sending :
              sending'[i].msg = sending[j].msg /\ sending'[i].to \subseteq sending[j].to
         /\ \A i, j \in DOMAIN sending' : i < j => sending'[i].msg < sending'[j].msg
         /\ \A m : Underway(m)' = IF m = sending[1].msg THEN Underway(m) \ {s} ELSE Underway(m)
<1> DEFINE T == [msg : Message, to : SUBSET Subscription]
<1>1. /\ DOMAIN sending = 1..Len(sending) /\ Len(sending) \in Nat /\ Len(sending) >= 1
      /\ sending \in Seq(T)
      /\ \A i, j \in DOMAIN sending : i < j => sending[i].msg < sending[j].msg
      /\ \A i \in DOMAIN sending : i # 1 => sending[i].msg # sending[1].msg
      /\ Underway(sending[1].msg) = sending[1].to
  BY FeedHead
<1> HIDE DEF T
<1>2. /\ sending' \in Seq(T) /\ DOMAIN sending' = 1..(Len(sending) - 1)
      /\ \A i \in 1..(Len(sending) - 1) : sending'[i] = sending[i + 1]
  BY <1>1
<1>3. \A i \in DOMAIN sending' : i + 1 \in DOMAIN sending /\ i + 1 # 1 /\ i \in Nat /\ sending'[i] = sending[i + 1]
  BY <1>1, <1>2
<1>4. \A i \in DOMAIN sending : i # 1 => i - 1 \in DOMAIN sending' /\ sending'[i - 1] = sending[i]
  BY <1>1, <1>2
<1>5. \A i, j \in DOMAIN sending' : i < j => sending'[i].msg < sending'[j].msg
  <2> SUFFICES ASSUME NEW i \in DOMAIN sending', NEW j \in DOMAIN sending', i < j
               PROVE  sending'[i].msg < sending'[j].msg
    OBVIOUS
  <2>1. i + 1 < j + 1 /\ i + 1 \in DOMAIN sending /\ j + 1 \in DOMAIN sending
    BY <1>3
  <2> QED BY <1>1, <1>3, <2>1
<1>6. \A m, x : x \in Underway(m)' <=> \E i \in DOMAIN sending : i # 1 /\ sending[i].msg = m /\ x \in sending[i].to
  <2>1. \A m, x : x \in Underway(m)' <=> \E i \in DOMAIN sending' : sending'[i].msg = m /\ x \in sending'[i].to
    BY DEF Underway
  <2> SUFFICES ASSUME NEW m, NEW x
               PROVE  x \in Underway(m)' <=>
                        \E i \in DOMAIN sending : i # 1 /\ sending[i].msg = m /\ x \in sending[i].to
    OBVIOUS
  <2>2. ASSUME NEW i \in DOMAIN sending', sending'[i].msg = m, x \in sending'[i].to
        PROVE  \E j \in DOMAIN sending : j # 1 /\ sending[j].msg = m /\ x \in sending[j].to
    BY <1>3, <2>2
  <2>3. ASSUME NEW i \in DOMAIN sending, i # 1, sending[i].msg = m, x \in sending[i].to
        PROVE  \E j \in DOMAIN sending' : sending'[j].msg = m /\ x \in sending'[j].to
    BY <1>4, <2>3
  <2> QED BY <2>1, <2>2, <2>3
<1>7. ASSUME NEW m PROVE Underway(m)' = IF m = sending[1].msg THEN Underway(m) \ {s} ELSE Underway(m)
  <2>1. CASE m = sending[1].msg
    <3>1. Underway(m)' = {}
      BY <1>1, <1>6, <2>1
    <3> QED BY <1>1, <2>1, <3>1
  <2>2. CASE m # sending[1].msg
    <3>1. \A x : x \in Underway(m)' <=> x \in Underway(m)
      BY <1>6, <2>2, WaitsFor
    <3> QED BY <2>2, <3>1
  <2> QED BY <2>1, <2>2
<1>8. \A i \in DOMAIN sending' : \E j \in DOMAIN sending :
        sending'[i].msg = sending[j].msg /\ sending'[i].to \subseteq sending[j].to
  BY <1>3
<1> QED BY <1>2, <1>5, <1>7, <1>8 DEF T

LEMMA HeadWaits ==
  ASSUME FeedInv, 1 \in DOMAIN sending, NEW s, NEW rest, rest = sending[1].to \ {s},
         sending' = [sending EXCEPT ![1] = [msg |-> sending[1].msg, to |-> rest]]
  PROVE  /\ sending' \in Seq([msg : Message, to : SUBSET Subscription])
         /\ \A i \in DOMAIN sending' : \E j \in DOMAIN sending :
              sending'[i].msg = sending[j].msg /\ sending'[i].to \subseteq sending[j].to
         /\ \A i, j \in DOMAIN sending' : i < j => sending'[i].msg < sending'[j].msg
         /\ \A m : Underway(m)' = IF m = sending[1].msg THEN Underway(m) \ {s} ELSE Underway(m)
<1> DEFINE T == [msg : Message, to : SUBSET Subscription]
<1>1. /\ sending \in Seq(T)
      /\ \A i, j \in DOMAIN sending : i < j => sending[i].msg < sending[j].msg
      /\ \A i \in DOMAIN sending : i # 1 => sending[i].msg # sending[1].msg
      /\ Underway(sending[1].msg) = sending[1].to
      /\ sending[1].msg \in Message /\ rest \subseteq Subscription
  BY FeedHead
<1>2. [msg |-> sending[1].msg, to |-> rest] \in T
  BY <1>1
<1>3. sending' \in Seq(T)
  BY <1>1, <1>2
<1>4. /\ DOMAIN sending' = DOMAIN sending
      /\ \A i \in DOMAIN sending : i # 1 => sending'[i] = sending[i]
      /\ sending'[1].msg = sending[1].msg /\ sending'[1].to = rest
  BY <1>1
<1>5. \A i \in DOMAIN sending : sending'[i].msg = sending[i].msg /\ sending'[i].to \subseteq sending[i].to
  BY <1>4
<1>6. \A m, x : x \in Underway(m)' <=> \E i \in DOMAIN sending : sending[i].msg = m /\ x \in sending'[i].to
  <2>1. \A m, x : x \in Underway(m)' <=> \E i \in DOMAIN sending' : sending'[i].msg = m /\ x \in sending'[i].to
    BY DEF Underway
  <2> QED BY <1>4, <1>5, <2>1
<1>7. ASSUME NEW m PROVE Underway(m)' = IF m = sending[1].msg THEN Underway(m) \ {s} ELSE Underway(m)
  <2>1. CASE m = sending[1].msg
    <3>1. \A x : x \in Underway(m)' <=> x \in rest
      BY <1>1, <1>4, <1>6, <2>1
    <3> QED BY <1>1, <2>1, <3>1
  <2>2. CASE m # sending[1].msg
    <3>1. \A i \in DOMAIN sending : sending[i].msg = m => sending'[i] = sending[i]
      BY <1>4, <2>2
    <3>2. \A x : x \in Underway(m)' <=> x \in Underway(m)
      BY <1>6, <3>1, WaitsFor
    <3> QED BY <2>2, <3>2
  <2> QED BY <2>1, <2>2
<1>8. \A i, j \in DOMAIN sending' : i < j => sending'[i].msg < sending'[j].msg
  BY <1>1, <1>4, <1>5
<1>9. \A i \in DOMAIN sending' : \E j \in DOMAIN sending :
        sending'[i].msg = sending[j].msg /\ sending'[i].to \subseteq sending[j].to
  BY <1>4, <1>5
<1> QED BY <1>3, <1>7, <1>8, <1>9

\* A copy reaches its handler.
LEMMA CopyLeaves ==
  ASSUME FeedInv, 1 \in DOMAIN sending, NEW s \in sending[1].to, DeliverCopy(1, s)
  PROVE  /\ sending' \in Seq([msg : Message, to : SUBSET Subscription])
         /\ \A i \in DOMAIN sending' : \E j \in DOMAIN sending :
              sending'[i].msg = sending[j].msg /\ sending'[i].to \subseteq sending[j].to
         /\ \A i, j \in DOMAIN sending' : i < j => sending'[i].msg < sending'[j].msg
         /\ \A m : Underway(m)' = IF m = sending[1].msg THEN Underway(m) \ {s} ELSE Underway(m)
<1>1. CASE sending[1].to \ {s} = {}
  <2>1. sending' = SubSeq(sending, 1, 1 - 1) \o SubSeq(sending, 1 + 1, Len(sending))
    BY <1>1 DEF DeliverCopy
  <2>2. sending' = SubSeq(sending, 2, Len(sending))
    <3>1. sending \in Seq([msg : Message, to : SUBSET Subscription]) /\ Len(sending) \in Nat
      BY FeedHead
    <3>2. SubSeq(sending, 1, 1 - 1) = <<>>
      BY <3>1
    <3> QED BY <2>1, <3>1, <3>2
  <2> QED BY <1>1, <2>2, HeadLeaves
<1>2. CASE sending[1].to \ {s} # {}
  <2>1. sending' = [sending EXCEPT ![1] = [msg |-> sending[1].msg, to |-> sending[1].to \ {s}]]
    BY <1>2 DEF DeliverCopy
  <2> QED BY <2>1, HeadWaits
<1> QED BY <1>1, <1>2

\* The gateway's call, if the tab is Live.
LEMMA EmitStream ==
  ASSUME FeedInv, NEW kind \in {"message", "connection"}, NEW key \in Message \union {None},
         EmitToTab(kind, key)
  PROVE  /\ SocketOK(FeedEntry)'
         /\ ~enabled => Stream' = Stream
         /\ enabled => /\ Stream' \in Seq(FeedEntry) /\ Len(Stream') = Len(Stream) + 1
                       /\ \A i \in 1..Len(Stream) : Stream'[i] = Stream[i]
                       /\ Stream'[Len(Stream')].kind = kind /\ Stream'[Len(Stream')].key = key
<1>1. SocketOK(FeedEntry)
  BY FeedTypes
<1>2. CASE enabled
  <2>1. Receive(kind, key)
    BY <1>2 DEF EmitToTab
  <2>2. [kind |-> kind, key |-> key, seq |-> seq] \in FeedEntry
    BY <1>1 DEF FeedEntry, SocketOK
  <2>3. /\ SocketOK(FeedEntry)' /\ Len(Stream') = Len(Stream) + 1
        /\ \A i \in 1..Len(Stream) : Stream'[i] = Stream[i]
        /\ Stream'[Len(Stream')] = [kind |-> kind, key |-> key, seq |-> seq]
    BY <1>1, <2>1, <2>2, ReceiveStream
  <2>4. Stream' \in Seq(FeedEntry)
    <3>1. buffer' \in Seq(FeedEntry) /\ pending' \in Seq(FeedEntry)
      BY <2>3 DEF SocketOK
    <3> QED BY <3>1 DEF Stream
  <2> QED BY <1>2, <2>3, <2>4
<1>3. CASE ~enabled
  <2>1. UNCHANGED socketVars
    BY <1>3 DEF EmitToTab
  <2> QED BY <1>1, <1>3, <2>1 DEF socketVars, SocketOK, Stream
<1> QED BY <1>2, <1>3

\* What may come in while the head of the queue is handled keeps the rows in order.
LEMMA RowsStay ==
  ASSUME FeedInv, 1 \in DOMAIN sending, UNCHANGED published,
         \A n \in DOMAIN sending' : \E j \in DOMAIN sending : sending'[n].msg = sending[j].msg,
         \/ Stream' = Stream
         \/ /\ Stream' \in Seq(FeedEntry) /\ Len(Stream') = Len(Stream) + 1
            /\ \A i \in 1..Len(Stream) : Stream'[i] = Stream[i]
            /\ Stream'[Len(Stream')].kind = "message" => Stream'[Len(Stream')].key = sending[1].msg
  PROVE  RowsInOrder'
<1> DEFINE h == sending[1].msg
           last == Len(Stream')
<1>1. /\ \A i \in Rows : /\ Stream[i].key \in 1..Len(published)
                         /\ \A n \in DOMAIN sending : Stream[i].key <= sending[n].msg
      /\ \A i, j \in Rows : i < j => Stream[i].key <= Stream[j].key
  BY FeedTypes DEF RowsInOrder
<1>2. /\ h \in 1..Len(published) /\ DOMAIN sending = 1..Len(sending) /\ Len(sending) \in Nat
      /\ \A i, j \in DOMAIN sending : i < j => sending[i].msg < sending[j].msg
      /\ \A j \in DOMAIN sending : sending[j].msg \in Nat
  BY FeedHead, FeedTypes DEF Queue
<1>3. \A n \in DOMAIN sending' : h <= sending'[n].msg
  <2>1. \A j \in DOMAIN sending : h <= sending[j].msg
    <3> SUFFICES ASSUME NEW j \in DOMAIN sending PROVE h <= sending[j].msg
      OBVIOUS
    <3>1. j = 1 \/ 1 < j
      BY <1>2
    <3>2. 1 < j => sending[1].msg < sending[j].msg
      BY <1>2
    <3> QED BY <1>2, <3>1, <3>2
  <2> QED BY <2>1
<1>4. \A i \in Rows' : \/ i \in Rows /\ Stream'[i] = Stream[i]
                       \/ i = last /\ Stream'[i].key = h /\ i \notin DOMAIN Stream /\ \A k \in Rows : k < i
  <2>1. CASE Stream' = Stream
    BY <2>1 DEF Rows
  <2>2. CASE /\ Stream' \in Seq(FeedEntry) /\ Len(Stream') = Len(Stream) + 1
             /\ \A i \in 1..Len(Stream) : Stream'[i] = Stream[i]
             /\ Stream'[Len(Stream')].kind = "message" => Stream'[Len(Stream')].key = sending[1].msg
    <3>1. Stream \in Seq(FeedEntry) /\ Len(Stream) \in Nat
      BY FeedTypes
    <3>2. DOMAIN Stream = 1..Len(Stream) /\ DOMAIN Stream' = 1..Len(Stream')
      BY <2>2, <3>1
    <3>3. /\ \A i \in DOMAIN Stream' : i \in DOMAIN Stream \/ i = last
          /\ last \notin DOMAIN Stream /\ \A k \in DOMAIN Stream : k < last
      BY <2>2, <3>1, <3>2
    <3> SUFFICES ASSUME NEW i \in Rows'
                 PROVE  \/ i \in Rows /\ Stream'[i] = Stream[i]
                        \/ i = last /\ Stream'[i].key = h /\ i \notin DOMAIN Stream /\ \A k \in Rows : k < i
      OBVIOUS
    <3>4. i \in DOMAIN Stream' /\ Stream'[i].kind = "message"
      BY DEF Rows
    <3>5. CASE i \in DOMAIN Stream
      BY <2>2, <3>2, <3>4, <3>5 DEF Rows
    <3>6. CASE i = last
      BY <2>2, <3>3, <3>4, <3>6 DEF Rows
    <3> QED BY <3>3, <3>4, <3>5, <3>6
  <2> QED BY <2>1, <2>2
<1> HIDE DEF h, last
<1>5. \A i \in Rows : Stream[i].key <= h /\ Stream[i].key \in Nat
  BY <1>1 DEF h
<1>6. ASSUME NEW i \in Rows'
      PROVE  /\ Stream'[i].key \in 1..Len(published) /\ Stream'[i].key \in Nat /\ Stream'[i].key <= h
  BY <1>1, <1>2, <1>4, <1>5
<1>7. ASSUME NEW i \in Rows', NEW n \in DOMAIN sending' PROVE Stream'[i].key <= sending'[n].msg
  <2>1. Stream'[i].key \in Nat /\ Stream'[i].key <= h /\ h <= sending'[n].msg /\ h \in Nat /\ sending'[n].msg \in Nat
    BY <1>2, <1>3, <1>6, <1>7
  <2> QED BY <2>1
<1>8. ASSUME NEW i \in Rows', NEW j \in Rows', i < j PROVE Stream'[i].key <= Stream'[j].key
  <2>1. CASE j \in Rows /\ Stream'[j] = Stream[j]
    <3>1. i \in Rows /\ Stream'[i] = Stream[i]
      <4>1. CASE \A k \in Rows : k < i
        <5>1. j < i /\ i \in Nat /\ j \in Nat
          <6>1. Rows \subseteq Nat /\ Rows' \subseteq Nat
            <7>1. Stream \in Seq(FeedEntry)
              BY FeedTypes
            <7>2. Stream' \in Seq(FeedEntry)
              BY <7>1
            <7> QED BY <7>1, <7>2 DEF Rows
          <6> QED BY <2>1, <4>1, <6>1, <1>8
        <5> QED BY <1>8, <5>1
      <4> QED BY <1>4, <1>8, <4>1
    <3> QED BY <1>1, <1>8, <2>1, <3>1
  <2>2. CASE Stream'[j].key = h
    BY <1>6, <1>8, <2>2
  <2> QED BY <1>4, <1>8, <2>1, <2>2
<1> QED BY <1>6, <1>7, <1>8 DEF RowsInOrder

\* A subscription that waited for a message waits no more.
LEMMA DueGrows ==
  ASSUME FeedInv, NEW m \in 1..Len(published), NEW s \in Underway(m), UNCHANGED published,
         Underway(m)' = Underway(m) \ {s}, s \in published[m]
  PROVE  Cardinality(Due(m)') = Cardinality(Due(m)) + (IF s \in Throwing THEN 0 ELSE 1)
<1>1. IsFiniteSet(Due(m)) /\ Cardinality(Due(m)) \in Nat /\ s \notin Due(m)
  BY DueFinite DEF Due
<1>2. CASE s \in Throwing
  <2>1. Due(m)' = Due(m)
    BY <1>2 DEF Due
  <2> QED BY <1>1, <1>2, <2>1
<1>3. CASE s \notin Throwing
  <2>1. Due(m)' = Due(m) \union {s}
    BY <1>3 DEF Due
  <2> QED BY <1>1, <1>3, <2>1, FS_AddElement
<1> QED BY <1>2, <1>3

\* A copy is handled: its subscription is due a row, and gets one if the tab is Live.
LEMMA FeedDeliverInv == FeedInv /\ DeliverNext => FeedInv'
<1> SUFFICES ASSUME FeedInv, DeliverNext PROVE FeedInv'
  OBVIOUS
<1>1. 1 \in DOMAIN sending /\ \E s \in sending[1].to : DeliverCopy(1, s)
  <2>1. sending # <<>> /\ sending \in Seq([msg : Message, to : SUBSET Subscription])
    BY FeedTypes DEF DeliverNext, Turn
  <2>2. 1 \in DOMAIN sending
    BY <2>1
  <2> QED BY <2>1, <2>2 DEF DeliverNext, Turn
<1>2. PICK s \in sending[1].to : DeliverCopy(1, s)
  BY <1>1
<1> DEFINE h == sending[1].msg
<1>3. /\ UNCHANGED <<open, reachable, published, card, cuts>>
      /\ \/ s \notin open /\ UNCHANGED <<socketVars, whole>>
         \/ s \in open /\ s \in Throwing /\ EmitToTab("connection", None) /\ UNCHANGED whole
         \/ /\ s \in open /\ s \notin Throwing /\ EmitToTab("message", h)
            /\ whole' = IF enabled THEN whole ELSE whole \ {h}
  BY <1>2 DEF DeliverCopy
<1>4. /\ sending' \in Seq([msg : Message, to : SUBSET Subscription])
      /\ \A i \in DOMAIN sending' : \E j \in DOMAIN sending :
           sending'[i].msg = sending[j].msg /\ sending'[i].to \subseteq sending[j].to
      /\ \A i, j \in DOMAIN sending' : i < j => sending'[i].msg < sending'[j].msg
      /\ \A m : Underway(m)' = IF m = h THEN Underway(m) \ {s} ELSE Underway(m)
  BY <1>1, <1>2, CopyLeaves
<1>5. /\ h \in 1..Len(published) /\ h \in Message /\ s \in published[h]
      /\ s \in Underway(h) /\ Len(published) \in Nat
  BY <1>1, <1>2, FeedHead, FeedTypes
<1>6. SocketOK(FeedEntry) /\ Stream \in Seq(FeedEntry) /\ whole \subseteq 1..Len(published)
  BY FeedTypes
<1>7. Queue'
  <2>1. Queue
    BY FeedTypes
  <2>2. \A i \in DOMAIN sending' : /\ sending'[i].msg \in 1..Len(published)
                                   /\ sending'[i].to \subseteq published[sending'[i].msg]
    BY <1>4, <2>1 DEF Queue
  <2> QED BY <1>3, <1>4, <2>2 DEF Queue
<1> HIDE DEF h
\* What the tab gets.
<1>8. /\ SocketOK(FeedEntry)'
      /\ \/ /\ Stream' = Stream /\ whole' \subseteq whole
            /\ s \notin open \/ s \in Throwing \/ h \notin whole'
         \/ /\ Stream' \in Seq(FeedEntry) /\ Len(Stream') = Len(Stream) + 1 /\ whole' = whole
            /\ \A i \in 1..Len(Stream) : Stream'[i] = Stream[i]
            /\ \/ Stream'[Len(Stream')].kind = "connection" /\ s \in Throwing
               \/ /\ Stream'[Len(Stream')].kind = "message" /\ Stream'[Len(Stream')].key = h
                  /\ s \notin Throwing
  <2>1. CASE s \notin open /\ UNCHANGED <<socketVars, whole>>
    BY <1>6, <2>1 DEF socketVars, SocketOK, Stream
  <2>2. CASE s \in Throwing /\ EmitToTab("connection", None) /\ UNCHANGED whole
    <3>1. None \in Message \union {None} /\ "connection" \in {"message", "connection"}
      OBVIOUS
    <3>2. /\ SocketOK(FeedEntry)'
          /\ ~enabled => Stream' = Stream
          /\ enabled => /\ Stream' \in Seq(FeedEntry) /\ Len(Stream') = Len(Stream) + 1
                        /\ \A i \in 1..Len(Stream) : Stream'[i] = Stream[i]
                        /\ Stream'[Len(Stream')].kind = "connection"
      BY <2>2, <3>1, EmitStream
    <3>3. enabled \/ ~enabled
      OBVIOUS
    <3> QED BY <2>2, <3>2, <3>3
  <2>3. CASE /\ s \notin Throwing /\ EmitToTab("message", h)
             /\ whole' = IF enabled THEN whole ELSE whole \ {h}
    <3>1. h \in Message \union {None} /\ "message" \in {"message", "connection"}
      BY <1>5
    <3>2. /\ SocketOK(FeedEntry)'
          /\ ~enabled => Stream' = Stream
          /\ enabled => /\ Stream' \in Seq(FeedEntry) /\ Len(Stream') = Len(Stream) + 1
                        /\ \A i \in 1..Len(Stream) : Stream'[i] = Stream[i]
                        /\ Stream'[Len(Stream')].kind = "message" /\ Stream'[Len(Stream')].key = h
      BY <2>3, <3>1, EmitStream
    <3>3. CASE enabled
      BY <2>3, <3>2, <3>3
    <3>4. CASE ~enabled
      BY <2>3, <3>2, <3>4
    <3> QED BY <3>3, <3>4
  <2> QED BY <1>3, <2>1, <2>2, <2>3
<1>9. RowsInOrder'
  <2>1. \A n \in DOMAIN sending' : \E j \in DOMAIN sending : sending'[n].msg = sending[j].msg
    BY <1>4
  <2>2. \/ Stream' = Stream
        \/ /\ Stream' \in Seq(FeedEntry) /\ Len(Stream') = Len(Stream) + 1
           /\ \A i \in 1..Len(Stream) : Stream'[i] = Stream[i]
           /\ Stream'[Len(Stream')].kind = "message" => Stream'[Len(Stream')].key = sending[1].msg
    BY <1>8 DEF h
  <2> QED BY <1>1, <1>3, <2>1, <2>2, RowsStay
<1>10. ASSUME NEW m \in 1..Len(published) PROVE Counted(m)'
  <2>1. /\ Copies(m, Stream) <= Cardinality(Due(m))
        /\ m \in whole => Copies(m, Stream) = Cardinality(Due(m)) /\ Underway(m) \subseteq open
        /\ Copies(m, Stream) \in Nat /\ Cardinality(Due(m)) \in Nat
    BY <1>6, <1>10, FeedTypes, DueFinite, CopiesType DEF Counted
  <2>2. /\ m \in whole' => m \in whole
        /\ Underway(m)' \subseteq Underway(m)
    BY <1>4, <1>8
  <2>3. Cardinality(Due(m)') = Cardinality(Due(m)) + (IF m = h /\ s \notin Throwing THEN 1 ELSE 0)
    <3>1. CASE m = h
      BY <1>3, <1>4, <1>5, <3>1, DueGrows
    <3>2. CASE m # h
      <4>1. Underway(m)' = Underway(m)
        BY <1>4, <3>2
      <4>2. Due(m)' = Due(m)
        BY <1>3, <4>1 DEF Due
      <4> QED BY <2>1, <3>2, <4>2
    <3> QED BY <3>1, <3>2
  <2>4. CASE Stream' = Stream /\ (s \notin open \/ s \in Throwing \/ h \notin whole')
    <3>1. m \in whole' => m # h \/ s \in Throwing
      BY <1>5, <2>1, <2>2, <2>4
    <3> QED BY <1>3, <2>1, <2>2, <2>3, <2>4, <3>1 DEF Counted
  <2>5. CASE /\ Stream' \in Seq(FeedEntry) /\ Len(Stream') = Len(Stream) + 1
             /\ \A i \in 1..Len(Stream) : Stream'[i] = Stream[i]
             /\ \/ Stream'[Len(Stream')].kind = "connection" /\ s \in Throwing
                \/ /\ Stream'[Len(Stream')].kind = "message" /\ Stream'[Len(Stream')].key = h
                   /\ s \notin Throwing
    <3>1. Copies(m, Stream') = IF Stream'[Len(Stream')].kind = "message" /\ Stream'[Len(Stream')].key = m
                               THEN Copies(m, Stream) + 1 ELSE Copies(m, Stream)
      BY <1>6, <2>5, CopiesGrow
    <3>2. Copies(m, Stream') = Copies(m, Stream) + (IF m = h /\ s \notin Throwing THEN 1 ELSE 0)
      BY <2>1, <2>5, <3>1
    <3> QED BY <1>3, <2>1, <2>2, <2>3, <3>2 DEF Counted
  <2> QED BY <1>8, <2>4, <2>5
<1>11. /\ {reachable'} \subseteq BOOLEAN /\ open' \subseteq Subscription
       /\ published' \in Seq(SUBSET Subscription) /\ Len(published') <= MaxMsgs
       /\ card' \in [at : {"idle", "posted", "answered"}, channel : Channel, msg : 0..MaxMsgs]
       /\ cuts' \in 0..MaxCuts /\ card'.msg <= Len(published')
  BY <1>3, FeedTypes
<1>12. whole' \subseteq 1..Len(published') /\ \A m \in 1..Len(published') : Counted(m)'
  BY <1>3, <1>6, <1>8, <1>10
<1> QED BY <1>4, <1>7, <1>8, <1>9, <1>11, <1>12, FeedBack

LEMMA FeedInvNext == FeedInv /\ [FeedNext]_feedVars => FeedInv'
<1> SUFFICES ASSUME FeedInv, [FeedNext]_feedVars PROVE FeedInv'
  OBVIOUS
<1>1. CASE \E s \in Subscription : Subscribe(s) \/ Unsubscribe(s)
  BY <1>1, SubscriptionInv
<1>2. CASE CutLink \/ MendLink
  BY <1>2, FeedLinkInv
<1>3. CASE \E channel \in Channel : PublishElsewhere(channel) \/ HandlePublish(channel)
  BY <1>3, PublishInv
<1>4. CASE ServePublish \/ AnswerPublish
  <2>1. PICK channel \in Channel : TRUE
    BY FeedAssumption
  <2> QED BY <1>4, <2>1, PublishInv
<1>5. CASE DeliverNext
  BY <1>5, FeedDeliverInv
<1>6. CASE ToggleLive \/ FlushFeed
  BY <1>6, FeedTabInv
<1>7. CASE UNCHANGED feedVars
  <2>1. UNCHANGED <<socketVars, published, sending, open, reachable, card, cuts, whole>>
    BY <1>7 DEF feedVars
  <2>2. /\ SocketOK(FeedEntry)' /\ Queue' /\ RowsInOrder' /\ Stream' = Stream
        /\ \A m : Due(m)' = Due(m) /\ Underway(m)' = Underway(m)
    BY <2>1, FeedSame
  <2>3. \A m \in 1..Len(published') : Counted(m)'
    BY <2>1, <2>2, FeedTypes DEF Counted
  <2>4. /\ {reachable'} \subseteq BOOLEAN /\ open' \subseteq Subscription
        /\ published' \in Seq(SUBSET Subscription) /\ Len(published') <= MaxMsgs
        /\ card' \in [at : {"idle", "posted", "answered"}, channel : Channel, msg : 0..MaxMsgs]
        /\ cuts' \in 0..MaxCuts /\ card'.msg <= Len(published') /\ whole' \subseteq 1..Len(published')
        /\ sending' \in Seq([msg : Message, to : SUBSET Subscription])
    BY <2>1, FeedTypes
  <2> QED BY <2>2, <2>3, <2>4, FeedBack
<1> QED BY <1>1, <1>2, <1>3, <1>4, <1>5, <1>6, <1>7 DEF FeedNext

\* pubsub.bridge.service.ts, PubSubView.tsx: the rows are the published messages in
\* their order, no more of each than subscriptions it was handed to, and just as many
\* (but for handlers that throw) as long as nothing was lost on the way.
THEOREM MessagesArriveHolds == FeedSpec => [](FeedTypeOK /\ MessagesArrive)
<1>1. FeedInit => FeedInv
  BY FeedInitInv
<1>2. FeedInv /\ [FeedNext]_feedVars => FeedInv'
  BY FeedInvNext
<1>3. FeedInv => FeedTypeOK /\ MessagesArrive
  BY FeedShows DEF FeedInv
<1> QED BY <1>1, <1>2, <1>3, PTL DEF FeedSpec

-----------------------------------------------------------------------------
(* The parts side by side: a behaviour of one of them leaves the others alone *)

DashboardInv ==
  /\ DrawerInv /\ RingInv /\ LifeInv
  /\ scene = "status" => StatusInv
  /\ scene # "status" => ~polled
  /\ scene = "pubsub" => FeedInv

LEMMA DashboardInitInv == DashboardInit => DashboardInv
BY DrawerInitInv, RingInitInv, StatusInitInv, FeedInitInv, LifeInitInv DEF DashboardInit, DashboardInv

LEMMA DashboardInvNext == DashboardInv /\ [DashboardNext]_dashboardVars => DashboardInv'
<1> SUFFICES ASSUME DashboardInv, [DashboardNext]_dashboardVars PROVE DashboardInv'
  OBVIOUS
<1>1. DrawerInv /\ RingInv /\ LifeInv
  BY DEF DashboardInv
<1>2. /\ [DrawerNext]_drawerVars /\ [RingNext]_ringVars /\ [LifeNext]_lifeVars /\ UNCHANGED scene
      /\ scene = "status" => [StatusNext]_statusVars
      /\ scene # "status" => UNCHANGED polled
      /\ scene = "pubsub" => [FeedNext]_feedVars
  BY Zenon DEF DashboardNext, dashboardVars, tabVars, badgeVars, pageVars, statusVars, feedVars
<1>3. DrawerInv' /\ RingInv' /\ LifeInv'
  BY <1>1, <1>2, DrawerInvNext, RingInvNext, LifeInvNext
<1>4. scene' = "status" => StatusInv'
  BY <1>2, StatusInvNext DEF DashboardInv
<1>5. scene' # "status" => ~polled'
  BY <1>2 DEF DashboardInv
<1>6. scene' = "pubsub" => FeedInv'
  BY <1>2, FeedInvNext DEF DashboardInv
<1> QED BY <1>3, <1>4, <1>5, <1>6 DEF DashboardInv

\* MCDashboard.tla: counters, phases and queues stay in their ranges.
THEOREM DashboardTypeCorrect == DashboardSpec => []DashboardTypeOK
<1>1. DashboardInv => DashboardTypeOK
  BY DEF DashboardInv, DashboardTypeOK, DrawerInv, RingInv, StatusInv, FeedInv, LifeInv
<1> QED BY <1>1, DashboardInitInv, DashboardInvNext, PTL DEF DashboardSpec

\* explorer/KeyDetailDrawer.tsx, TtlRing.tsx: whichever part is under way, what is shown as
\* settled is of the key as it is, and the ring keeps its time.
THEOREM InspectionsTrueHolds == DashboardSpec => []InspectionsTrue
<1>1. DashboardInv => InspectionsTrue
  BY RingShows DEF DashboardInv, InspectionsTrue, DrawerInv, Settled, InspectionFresh
<1> QED BY <1>1, DashboardInitInv, DashboardInvNext, PTL DEF DashboardSpec

\* connection-status.ts, in MCDashboard: the badge's claim where all parts are present.
THEOREM DashboardBadgeTracks == DashboardSpec => []BadgeTracks
<1>1. ~polled => BadgeTracks
  BY DEF BadgeTracks
<1>2. DashboardInv => BadgeTracks
  BY <1>1, BadgeShows DEF DashboardInv
<1> QED BY <1>2, DashboardInitInv, DashboardInvNext, PTL DEF DashboardSpec

\* pubsub.bridge.service.ts, ttl-events.service.ts: what the API forwards to the tabs is
\* what Redis sent it, in order and no more, and all of it when nothing was lost.
THEOREM FeedsFaithfulHolds == DashboardSpec => []FeedsFaithful
<1>1. DashboardInv => FeedsFaithful
  BY LifeShows, FeedShows DEF DashboardInv, FeedsFaithful
<1> QED BY <1>1, DashboardInitInv, DashboardInvNext, PTL DEF DashboardSpec

\* use-cache-mutations.ts, in MCDashboard: Extend never shortens a life.
THEOREM DashboardExtendLengthens == DashboardSpec => ExtendLengthens
<1> DEFINE Lengthens ==
      \A c \in calls : c.act = "expire" /\ c.basis.ttl > 0 /\ c.basis.rev = rev
        /\ ttl # Absent /\ rev' # rev /\ c \notin calls' => ttl' >= ttl + Step
<1>1. DashboardInv /\ [DashboardNext]_dashboardVars => [Lengthens]_drawerVars
  <2> SUFFICES ASSUME DashboardInv, [DashboardNext]_dashboardVars PROVE [Lengthens]_drawerVars
    OBVIOUS
  <2>1. DrawerInv
    BY DEF DashboardInv
  <2>2. [DrawerNext]_drawerVars
    BY Zenon DEF DashboardNext, dashboardVars, tabVars
  <2> QED BY <2>1, <2>2, ExtendStep
<1> QED BY DashboardInitInv, DashboardInvNext, <1>1, PTL DEF DashboardSpec, ExtendLengthens
=============================================================================
