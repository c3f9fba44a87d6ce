------------------------------- MODULE KeyDrawer -------------------------------
(***************************************************************************)
(* One key in the Key Explorer: its row (KeyTable) and its KeyDetailDrawer,  *)
(* which share one inspection (useKeyInspect), the drawer's mutations, and   *)
(* the key's TTL in Redis, which runs down and which other clients change.   *)
(* The query cache is external, as in KeyListing.                            *)
(***************************************************************************)
EXTENDS Integers, FiniteSets

CONSTANTS
  Step,       \* EXTEND_SECONDS
  MaxTtl,     \* bound: the TTLs other clients give
  MaxRev,     \* bound: changes of the key
  MaxCalls    \* bound: mutations under way

ASSUME DrawerAssumption ==
  /\ Step \in Nat \ {0} /\ MaxTtl \in Nat \ {0}
  /\ MaxRev \in Nat /\ MaxCalls \in Nat

VARIABLES
  ttl,      \* as Redis' TTL answers
  rev,      \* how often a client has changed the key
  row,      \* is the key's row rendered?
  drawer,   \* is its drawer open?
  seen,     \* the inspection in the query cache
  stale,    \* is it invalidated, or past the stale time?
  load,     \* the running fetch: none, asked, or answered and on its way back
  calls,    \* the drawer's mutations under way
  done,     \* the newest change an acknowledged mutation made
  excused   \* history: did the inspection miss a refetch that a mutation asked for?

drawerVars == <<ttl, rev, row, drawer, seen, stale, load, calls, done, excused>>
redis == <<ttl, rev>>
query == <<seen, stale, load, excused>>

-----------------------------------------------------------------------------
Absent  == -2
Forever == -1
Ttls    == {Absent, Forever} \union 1..(MaxTtl + MaxRev * Step)

\* An inspection: the TTL, or an error, read after `rev' changes of the key.
Inspection == [ttl : Ttls, rev : 0..MaxRev]
Nothing    == [ttl |-> Absent, rev |-> -1]  \* not loaded yet
Loads      == [at : {"none", "asked", "answered"}, got : Inspection \union {Nothing}]
NoLoad     == [at |-> "none", got |-> Nothing]
Asked      == [at |-> "asked", got |-> Nothing]

\* A mutation: `basis' is the inspection that Extend was clicked on, `made' the
\* newest change when it took effect, `mine' that its drawer is still open.
Call == [act : {"persist", "expire", "delete"}, basis : Inspection \union {Nothing},
         applied : BOOLEAN, made : 0..MaxRev, mine : BOOLEAN]

DrawerTypeOK ==
  /\ ttl \in Ttls /\ rev \in 0..MaxRev
  /\ row \in BOOLEAN /\ drawer \in BOOLEAN /\ stale \in BOOLEAN /\ excused \in BOOLEAN
  /\ seen \in Inspection \union {Nothing}
  /\ load \in Loads
  /\ calls \subseteq Call /\ Cardinality(calls) <= MaxCalls
  /\ done \in 0..rev

DrawerInit ==
  /\ ttl \in {Absent, Forever} \union 1..MaxTtl /\ rev = 0
  /\ row = FALSE /\ drawer = FALSE
  /\ seen = Nothing /\ stale = FALSE /\ load = NoLoad /\ excused = FALSE
  /\ calls = {} /\ done = 0

-----------------------------------------------------------------------------
(* The inspection: one query for the row and the drawer *)

Watched == row \/ drawer

\* What the drawer's body shows.
Body == IF seen = Nothing THEN "skeleton" ELSE IF seen.ttl = Absent THEN "error" ELSE "tabs"

Ask == load' = Asked /\ excused' = FALSE

\* A component that reads the inspection is mounted.
Observe == IF load = NoLoad /\ (seen = Nothing \/ stale) THEN Ask ELSE UNCHANGED <<load, excused>>

RowEnters ==
  /\ ~row /\ row' = TRUE
  /\ Observe
  /\ UNCHANGED <<redis, drawer, seen, stale, calls, done>>

RowLeaves ==
  /\ row /\ row' = FALSE
  /\ UNCHANGED <<redis, drawer, query, calls, done>>

OpenDrawer ==
  /\ row /\ ~drawer /\ drawer' = TRUE
  /\ Observe
  /\ UNCHANGED <<redis, row, seen, stale, calls, done>>

\* Its mutations go on; their callbacks do not reach the next drawer.
CloseDrawer ==
  /\ drawer /\ drawer' = FALSE
  /\ calls' = {[c EXCEPT !.mine = FALSE] : c \in calls}
  /\ UNCHANGED <<redis, row, query, done>>

\* The button is disabled while a fetch runs.
Refresh ==
  /\ drawer /\ load = NoLoad
  /\ Ask
  /\ UNCHANGED <<redis, row, drawer, seen, stale, calls, done>>

AgeInspection ==
  /\ seen # Nothing /\ ~stale /\ stale' = TRUE
  /\ UNCHANGED <<redis, row, drawer, seen, load, excused, calls, done>>

\* The API reads the key, or fails to.
ServeInspection ==
  /\ load = Asked
  /\ \E t \in {ttl, Absent} : load' = [at |-> "answered", got |-> [ttl |-> t, rev |-> rev]]
  /\ UNCHANGED <<redis, row, drawer, seen, stale, excused, calls, done>>

ShowInspection ==
  /\ load.at = "answered"
  /\ seen' = load.got /\ stale' = FALSE /\ load' = NoLoad
  /\ UNCHANGED <<redis, row, drawer, excused, calls, done>>

LoseInspection ==
  /\ load # NoLoad
  /\ load' = NoLoad /\ excused' = TRUE
  /\ UNCHANGED <<redis, row, drawer, seen, stale, calls, done>>

-----------------------------------------------------------------------------
(* The drawer's mutations *)

\* A button is disabled by its own mutation only, and only in the drawer that
\* made the call; Persist and Delete do not wait for the inspection.
Click(act, basis) ==
  /\ drawer /\ Cardinality(calls) < MaxCalls
  /\ \A c \in calls : ~(c.act = act /\ c.mine)
  /\ calls' = calls \union
       {[act |-> act, basis |-> basis, applied |-> FALSE, made |-> 0, mine |-> TRUE]}
  /\ UNCHANGED <<redis, row, drawer, query, done>>

ClickPersist == Click("persist", Nothing)
ClickDelete  == Click("delete", Nothing)
ClickExtend  == Body = "tabs" /\ Click("expire", seen)

\* Mutant: the step alone.
BugExtended(basis) == Step

\* handleExtend: one step on top of the TTL that was shown.
Extended(basis) == IF basis.ttl > 0 THEN basis.ttl + Step ELSE Step

\* PERSIST, EXPIRE and DEL; the first two do nothing to a key that is gone.
Effect(c) == IF c.act = "delete" \/ ttl = Absent THEN Absent
             ELSE IF c.act = "persist" THEN Forever ELSE Extended(c.basis)

Apply(c) ==
  /\ ~c.applied /\ rev < MaxRev
  /\ ttl' = Effect(c)
  /\ rev' = rev + 1
  /\ calls' = (calls \ {c}) \union {[c EXCEPT !.applied = TRUE, !.made = rev']}
  /\ UNCHANGED <<row, drawer, query, done>>

\* Is an invalidated inspection fetched again at once, instead of what is being
\* fetched?  Only if somebody watches it, and a first load is not cancelled.
Refetched == Watched /\ (load = NoLoad \/ seen # Nothing)

\* Mutant: only the listing is invalidated.
BugListingOnly(c) ==
  /\ c.applied
  /\ drawer' = (drawer /\ ~(c.act = "delete" /\ c.mine))
  /\ calls' = {[d EXCEPT !.mine = @ /\ drawer'] : d \in calls \ {c}}
  /\ done' = IF c.made > done THEN c.made ELSE done
  /\ UNCHANGED <<redis, row, query>>

\* onSuccess: the inspection is marked; the drawer closes after its own delete.
AckCall(c) ==
  /\ c.applied
  /\ drawer' = (drawer /\ ~(c.act = "delete" /\ c.mine))
  /\ calls' = {[d EXCEPT !.mine = @ /\ drawer'] : d \in calls \ {c}}
  /\ done' = IF c.made > done THEN c.made ELSE done
  /\ stale' = (seen # Nothing \/ load # NoLoad)
  /\ IF Refetched THEN Ask ELSE excused' = (excused \/ load # NoLoad) /\ UNCHANGED load
  /\ UNCHANGED <<redis, row, seen>>

\* An error answer, or none: nothing is invalidated.
FailCall(c) ==
  /\ calls' = calls \ {c}
  /\ UNCHANGED <<redis, row, drawer, query, done>>

-----------------------------------------------------------------------------
(* Redis *)

Second ==
  /\ ttl > 0
  /\ ttl' = IF ttl > 1 THEN ttl - 1 ELSE Absent
  /\ UNCHANGED <<rev, row, drawer, query, calls, done>>

\* Other clients, and the writes of other pages: seeds and flushes too, which do
\* not invalidate inspections.
OthersSet ==
  /\ rev < MaxRev
  /\ ttl' \in ({Absent, Forever} \union 1..MaxTtl) \ {ttl}
  /\ rev' = rev + 1
  /\ UNCHANGED <<row, drawer, query, calls, done>>

DrawerNext ==
  \/ RowEnters \/ RowLeaves \/ OpenDrawer \/ CloseDrawer \/ Refresh \/ AgeInspection
  \/ ServeInspection \/ ShowInspection \/ LoseInspection
  \/ ClickPersist \/ ClickDelete \/ ClickExtend
  \/ \E c \in calls : Apply(c) \/ AckCall(c) \/ FailCall(c)
  \/ Second \/ OthersSet

DrawerSpec == DrawerInit /\ [][DrawerNext]_drawerVars

-----------------------------------------------------------------------------
(* Properties *)

\* use-cache-mutations.ts: once a delete, persist or extend of the drawer has been
\* acknowledged and the inspection has settled, whoever shows it shows the key as
\* it was after that change, though three mutations and a refresh may overlap.
\* Exactly these escape: an inspection in flight that the invalidation could not
\* cancel, and one lost in the network.
InspectionFresh ==
  Watched /\ load = NoLoad /\ ~excused => seen.rev >= done

\* KeyDetailDrawer.tsx handleExtend: Extend is computed from what the drawer
\* showed, so it lengthens the life of an expiring key unless somebody changed
\* the key since that inspection was read.
ExtendLengthens ==
  [][\A c \in calls : c.act = "expire" /\ c.basis.ttl > 0 /\ c.basis.rev = rev
       /\ ttl # Absent /\ rev' # rev /\ c \notin calls' => ttl' >= ttl + Step]_drawerVars
=============================================================================
