------------------------------ MODULE StampedeLab ------------------------------
(***************************************************************************)
(* The Stampede Lab page: what is typed, what is sent, what the API accepts, and *)
(* what the strip and the swimlane show of the burst (Stampede has the burst      *)
(* itself; here its contenders end in any way they may).  The bounds of the form   *)
(* and of the request are written down twice in the code.                          *)
(***************************************************************************)
EXTENDS Integers, Sequences, FiniteSets

CONSTANTS
  ProductText,      \* what may be typed as a product id, trimmed
  SafeId,           \* those in the allowed character set
  Blank,
  NotANumber,
  NumberText,       \* what may be typed in the number fields
  MinConcurrency, MaxConcurrency, DefaultConcurrency,
  MinLockMs, MaxLockMs, DefaultLockMs,
  MaxBursts         \* bound: bursts fired

ASSUME LabAssumption ==
  /\ SafeId \subseteq ProductText \ {Blank} /\ Blank \in ProductText
  /\ {MinConcurrency, MaxConcurrency, DefaultConcurrency} \subseteq Nat \ {0}
  /\ DefaultConcurrency \in MinConcurrency..MaxConcurrency
  /\ {MinLockMs, MaxLockMs, DefaultLockMs} \subseteq Nat
  /\ DefaultLockMs \in MinLockMs..MaxLockMs
  /\ NumberText \subseteq Int \union {NotANumber} /\ NotANumber \notin Int
  /\ {DefaultConcurrency, DefaultLockMs} \subseteq NumberText
  /\ MaxBursts \in Nat

VARIABLES
  productId, concurrency, lockMs,   \* the fields
  burst,      \* the mutation: its state, the request, the answer
  announced,  \* history: the number on the button when it was clicked
  bursts

labVars == <<productId, concurrency, lockMs, burst, announced, bursts>>

-----------------------------------------------------------------------------
Request == [productId : ProductText, concurrency : Int, lockMs : Int]

LaneRole    == {"won", "waited"}
LaneOutcome == {"origin", "hit"}
\* A holder that finds the value reports a hit it waited for.
Lane == {lane \in [role : LaneRole, outcome : LaneOutcome] : lane.role = "won" => lane.outcome = "origin"}

\* The answer: the timeline, and the summary of it.
Summary == [lanes : Seq(Lane), originFetches : Nat, cacheHits : Nat, concurrency : Nat]
Nobody  == [lanes |-> <<>>, originFetches |-> 0, cacheHits |-> 0, concurrency |-> 0]

NoBurst == [at |-> "idle", result |-> Nobody,
            request |-> [productId |-> Blank, concurrency |-> 0, lockMs |-> 0]]

LabTypeOK ==
  /\ productId \in ProductText
  /\ {concurrency, lockMs} \subseteq NumberText
  /\ burst \in [at : {"idle", "pending", "served", "refused", "shown", "failed"},
               result : Summary, request : Request]
  /\ announced \in Int
  /\ bursts \in 0..MaxBursts

LabInit ==
  /\ productId \in SafeId
  /\ concurrency = DefaultConcurrency /\ lockMs = DefaultLockMs
  /\ burst = NoBurst /\ announced = 0 /\ bursts = 0

-----------------------------------------------------------------------------
(* The form *)

\* Mutant: no upper bound.
BugNoMaximum(raw, min, max, fallback) ==
  IF raw = NotANumber THEN fallback ELSE IF raw < min THEN min ELSE raw

clampInt(raw, min, max, fallback) ==
  IF raw = NotANumber THEN fallback
  ELSE IF raw < min THEN min ELSE IF raw > max THEN max ELSE raw

Fields == <<productId, concurrency, lockMs>>

TypeProduct(text) ==
  /\ productId' = text
  /\ UNCHANGED <<concurrency, lockMs, burst, announced, bursts>>

TypeConcurrency(n) ==
  /\ concurrency' = n
  /\ UNCHANGED <<productId, lockMs, burst, announced, bursts>>

TypeLockMs(n) ==
  /\ lockMs' = n
  /\ UNCHANGED <<productId, concurrency, burst, announced, bursts>>

Pending == burst.at \in {"pending", "served", "refused"}

\* The button is disabled while a burst runs, and without a product id.
FireBurst ==
  /\ ~Pending /\ productId # Blank
  /\ bursts < MaxBursts /\ bursts' = bursts + 1
  /\ burst' = [NoBurst EXCEPT !.at = "pending",
       !.request = [productId   |-> productId,
                    concurrency |-> clampInt(concurrency, MinConcurrency, MaxConcurrency, DefaultConcurrency),
                    lockMs      |-> clampInt(lockMs, MinLockMs, MaxLockMs, DefaultLockMs)]]
  /\ announced' = clampInt(concurrency, MinConcurrency, MaxConcurrency, DefaultConcurrency)
  /\ UNCHANGED Fields

-----------------------------------------------------------------------------
(* POST /stampede *)

\* StampedeQuerySchema.
Accepted(request) ==
  /\ request.productId \in SafeId
  /\ request.concurrency \in MinConcurrency..MaxConcurrency
  /\ request.lockMs \in MinLockMs..MaxLockMs

Refuse ==
  /\ burst.at = "pending" /\ ~Accepted(burst.request)
  /\ burst' = [burst EXCEPT !.at = "refused"]
  /\ UNCHANGED <<Fields, announced, bursts>>

LanesThat(lanes, outcome) == {i \in DOMAIN lanes : lanes[i].outcome = outcome}

\* The timeline in the order of the contenders, however they were resolved, and its
\* summary.
RunBurst ==
  /\ burst.at = "pending" /\ Accepted(burst.request)
  /\ \E lanes \in [1..burst.request.concurrency -> Lane] :
       burst' = [burst EXCEPT !.at = "served", !.result =
         [lanes |-> lanes, concurrency |-> burst.request.concurrency,
          originFetches |-> Cardinality(LanesThat(lanes, "origin")),
          cacheHits |-> Cardinality(LanesThat(lanes, "hit"))]]
  /\ UNCHANGED <<Fields, announced, bursts>>

-----------------------------------------------------------------------------
(* The answer *)

ShowBurst ==
  /\ burst.at = "served" /\ burst' = [burst EXCEPT !.at = "shown"]
  /\ UNCHANGED <<Fields, announced, bursts>>

\* The request fails, or a Redis command of a contender does.
BurstFails ==
  /\ Pending /\ burst' = [NoBurst EXCEPT !.at = "failed", !.request = burst.request]
  /\ UNCHANGED <<Fields, announced, bursts>>

LabNext ==
  \/ \E text \in ProductText : TypeProduct(text)
  \/ \E n \in NumberText : TypeConcurrency(n) \/ TypeLockMs(n)
  \/ FireBurst \/ Refuse \/ RunBurst \/ ShowBurst \/ BurstFails

LabSpec == LabInit /\ [][LabNext]_labVars

-----------------------------------------------------------------------------
\* The result strip's load reduction, rounded.
LoadReduction ==
  LET r == burst.result
  IN  IF r.originFetches = 0 THEN r.concurrency
      ELSE (2 * r.concurrency + r.originFetches) \div (2 * r.originFetches)

\* StampedeView.tsx, stampede-query.dto.ts: no number that can be typed makes the API
\* refuse a burst; what is shown is as many contenders as the button announced, each
\* counted once in the strip, and a load reduction that never exceeds them.
BurstAddsUp ==
  /\ burst.at = "refused" => burst.request.productId \notin SafeId
  /\ burst.at = "shown" =>
       LET r == burst.result
       IN  /\ Cardinality(DOMAIN r.lanes) = announced
           /\ r.originFetches + r.cacheHits = announced
           /\ LoadReduction \in 1..announced
=============================================================================
