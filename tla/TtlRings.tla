------------------------------- MODULE TtlRings -------------------------------
(***************************************************************************)
(* The two rings: a label that counts down by itself from the TTL an answer   *)
(* brought, while the key runs down in Redis, is changed by any client, and     *)
(* answers take their time.  The drawer's ring gets new inspections, and one    *)
(* that repeats the value before it is no change of the prop, so the ring       *)
(* counts on; a tile of the wall keeps the TTL its seed was answered with.       *)
(***************************************************************************)
EXTENDS Integers

CONSTANT LongestTtl   \* bound: seconds a key is given

ASSUME RingAssumption == LongestTtl \in Nat

VARIABLES
  place,      \* "drawer" or "wall"
  real,       \* the key's TTL in Redis
  answer,     \* the inspection on its way to the tab
  prop,       \* ttlSeconds
  remaining,
  due,       \* ticks of the interval that are due: 0 or 1
  behind,     \* history: seconds the ring has not counted since the inspection
  told        \* history: nobody changed the key's TTL since the inspection

ringVars == <<place, real, answer, prop, remaining, due, behind, told>>

-----------------------------------------------------------------------------
Persisted == -1
Gone      == -2
Ttl       == {Persisted, Gone} \union 0..LongestTtl

NoReply == [value |-> Gone, age |-> 0, told |-> FALSE, underway |-> FALSE]

RingTypeOK ==
  /\ place \in {"drawer", "wall"}
  /\ real \in Ttl /\ prop \in Ttl /\ remaining \in Ttl
  /\ answer \in [value : Ttl, age : 0..LongestTtl, told : BOOLEAN, underway : BOOLEAN]
  /\ due \in {0, 1} /\ behind \in 0..LongestTtl /\ told \in BOOLEAN

\* The drawer opens on a fresh inspection.
DrawerRing ==
  /\ place = "drawer"
  /\ real \in Ttl /\ prop = real /\ behind = 0 /\ remaining = prop

\* A tile appears when its seed is answered: some seconds, or the key, may be gone.
WallRing ==
  /\ place = "wall"
  /\ \/ prop = Persisted /\ real \in {Persisted, Gone} /\ behind = 0
     \/ /\ prop = LongestTtl /\ real \in Ttl \ {Persisted}
        /\ behind = IF real = Gone THEN 0 ELSE prop - real
  /\ remaining = IF prop > 0 THEN prop ELSE 0

RingInit ==
  /\ DrawerRing \/ WallRing
  /\ answer = NoReply /\ due = 0 /\ told = TRUE

-----------------------------------------------------------------------------
\* A second goes by.  A timer that has not run yet is not started twice: its tick is
\* lost.
PassSecond ==
  LET runs == real > 0
  IN  /\ real' = IF real = 0 THEN Gone ELSE IF runs THEN real - 1 ELSE real
      /\ due' = IF prop >= 0 THEN 1 ELSE 0
      /\ behind' = IF runs /\ due = 1 /\ told THEN behind + 1 ELSE behind
      /\ answer' = IF runs /\ answer.told THEN [answer EXCEPT !.age = @ + 1] ELSE answer
      /\ UNCHANGED <<place, prop, remaining, told>>

\* The interval's callback.
RingTick ==
  /\ due = 1 /\ due' = 0
  /\ remaining' = IF remaining > 0 THEN remaining - 1 ELSE 0
  /\ UNCHANGED <<place, real, answer, prop, behind, told>>

\* Anybody sets, extends, persists or deletes the key.
ChangeTtl(t) ==
  /\ t # real /\ real' = t
  /\ told' = FALSE /\ behind' = 0
  /\ answer' = [answer EXCEPT !.told = FALSE, !.age = 0]
  /\ UNCHANGED <<place, prop, remaining, due>>

\* The API reads the TTL of an inspection.
ReadTtl ==
  /\ place = "drawer" /\ ~answer.underway
  /\ answer' = [value |-> real, age |-> 0, told |-> TRUE, underway |-> TRUE]
  /\ UNCHANGED <<place, real, prop, remaining, due, behind, told>>

\* Mutant: the countdown is not set back.
BugNoResync(value) == remaining

\* The resync effect.
Resynced(value) == value

\* The effects depend on ttlSeconds alone: one that is as before runs none of them.
ReceiveTtl ==
  /\ answer.underway /\ answer' = NoReply
  /\ IF answer.value = prop THEN UNCHANGED <<prop, remaining, due, behind, told>>
     ELSE /\ prop' = answer.value /\ remaining' = Resynced(answer.value)
          /\ due' = 0
          /\ behind' = answer.age /\ told' = answer.told
  /\ UNCHANGED <<place, real>>

\* The drawer is closed and opened on the cached inspection: it counts from the start.
Reopen ==
  /\ place = "drawer"
  /\ remaining' = prop /\ due' = 0
  /\ behind' = IF told /\ prop >= 0 /\ real >= 0 THEN prop - real ELSE behind
  /\ UNCHANGED <<place, real, answer, prop, told>>

RingNext ==
  \/ PassSecond \/ RingTick \/ ReadTtl \/ ReceiveTtl \/ Reopen
  \/ \E t \in Ttl : ChangeTtl(t)

RingSpec == RingInit /\ [][RingNext]_ringVars

-----------------------------------------------------------------------------
\* formatTtlLabel: a time, "no expiry" or "absent".
Label == IF prop < 0 THEN prop ELSE remaining

\* The tile says "expiring...".
IsExpiring == place = "wall" /\ prop >= 0 /\ remaining <= 0

\* explorer/TtlRing.tsx, realtime/TtlRing.tsx: while nobody changes the key, a ring
\* never shows less than what Redis has left, and it is late by the seconds the answer
\* travelled, the ticks that were lost and the one that is due, no more; the key of a
\* tile that says "expiring..." is at its last second, or gone.
RingKeepsTime ==
  told /\ real # Gone =>
    /\ Label < 0 => Label = real
    /\ real >= 0 => Label = real + behind + due
    /\ IsExpiring => real = 0
=============================================================================
