---------------------------- MODULE Stampede_proofs ----------------------------
(***************************************************************************)
(* Theorems about Stampede, for every set of contenders and bursts, every   *)
(* lockMs, origin latency, poll interval and delay.                         *)
(***************************************************************************)
EXTENDS Stampede, TLAPS

\* The names the actions assign are names of the enumerations.
LEMMA Names ==
  /\ \A a \in {"idle", "acquire", "recheck", "yield", "fetch", "set", "release", "releaseErr",
               "read", "check", "final", "direct", "done", "failed", "dead"} : a \in Await
  /\ \A r \in {"none", "won_origin", "waited_hit", "waited_origin"} : r \in Result
  /\ \A r \in {"none", "pending", "ok", "error", "lost"} : r \in Response
BY DEF Await, Active, Holding, Waiting, Ended, Result, Response

\* Type correctness of every state the lab reaches, faults, crashes, lapsed
\* locks and foreign writes included.
THEOREM TypeCorrect == Spec => []TypeOK
<1>1. Init => TypeOK
  <2> SUFFICES ASSUME Init PROVE TypeOK
    OBVIOUS
  <2>1. lock \in Contender \union {None} /\ lockTtl \in Nat /\ (lock # None <=> lockTtl > 0)
    BY DEF Init
  <2>2. pc \in [Contender -> Await] /\ result \in [Contender -> Result]
    BY Names DEF Init
  <2>3. response \in [Burst -> Response] /\ faults \in 0..MaxFaults /\ meddled \in 0..MaxMeddling
    BY StampedeAssumption, Names DEF Init
  <2>4. timer \in [Contender -> Int] /\ left \in [Contender -> Int]
    BY DEF Init
  <2>5. cached \in BOOLEAN
    BY Zenon DEF Init
  <2> QED BY <2>1, <2>2, <2>3, <2>4, <2>5 DEF TypeOK
<1>2. TypeOK /\ [Next]_vars => TypeOK'
  <2> SUFFICES ASSUME TypeOK, [Next]_vars PROVE TypeOK'
    OBVIOUS
  <2> USE StampedeAssumption, Names DEF TypeOK, Goto
  <2>1. ASSUME NEW b \in Burst, Fire(b) PROVE TypeOK'
    BY <2>1 DEF Fire
  <2>2. ASSUME NEW b \in Burst, Respond(b) PROVE TypeOK'
    BY <2>2 DEF Respond
  <2>3. ASSUME NEW b \in Burst, Crash(b) PROVE TypeOK'
    BY <2>3 DEF Crash
  <2>4. ASSUME NEW c \in Contender, TryLock(c) PROVE TypeOK'
    BY <2>4 DEF TryLock, SetLock
  <2>5. ASSUME NEW c \in Contender, Recheck(c) \/ FetchOrigin(c) \/ CheckDeadline(c)
        PROVE  TypeOK'
    BY <2>5 DEF Recheck, FetchOrigin, CheckDeadline
  <2>6. ASSUME NEW c \in Contender, Yield(c) PROVE TypeOK'
    BY <2>6 DEF Yield, ReleaseLock, Resolve
  <2>7. ASSUME NEW c \in Contender, Populate(c) PROVE TypeOK'
    BY <2>7 DEF Populate
  <2>8. ASSUME NEW c \in Contender, Release(c) PROVE TypeOK'
    BY <2>8 DEF Release, ReleaseLock, Resolve
  <2>9. ASSUME NEW c \in Contender, ReadValue(c) \/ FinalRead(c) \/ DirectFetch(c)
        PROVE  TypeOK'
    BY <2>9 DEF ReadValue, FinalRead, DirectFetch, Resolve
  <2>10. ASSUME NEW c \in Contender, CommandThrows(c) PROVE TypeOK'
    <3> USE <2>10 DEF CommandThrows, Reject
    <3>1. CASE TryLockThrows(c)
      BY <3>1 DEF TryLockThrows, SetLock
    <3>2. CASE ReadThrows(c)
      BY <3>2 DEF ReadThrows
    <3>3. CASE YieldThrows(c)
      BY <3>3 DEF YieldThrows, ReleaseLock
    <3>4. CASE PopulateThrows(c)
      <4>1. cached' \in BOOLEAN
        BY <3>4, Zenon DEF PopulateThrows
      <4> QED BY <3>4, <4>1 DEF PopulateThrows
    <3>5. CASE ReleaseThrows(c) /\ ReleaseLock(c)
      BY <3>5 DEF ReleaseThrows, ReleaseLock, Resolve
    <3>6. CASE ReleaseThrows(c) /\ UNCHANGED <<lock, lockTtl>>
      BY <3>6 DEF ReleaseThrows, Resolve
    <3> QED BY <3>1, <3>2, <3>3, <3>4, <3>5, <3>6 DEF ReleaseThrows
  <2>11. CASE Meddle
    <3>1. cached' \in BOOLEAN
      BY <2>11, Zenon DEF Meddle
    <3> QED BY <2>11, <3>1 DEF Meddle
  <2>12. CASE Tick
    BY <2>12 DEF Tick
  <2>13. CASE UNCHANGED vars
    BY <2>13 DEF vars
  <2> QED
    BY <2>1, <2>2, <2>3, <2>4, <2>5, <2>6, <2>7, <2>8, <2>9, <2>10, <2>11, <2>12, <2>13
       DEF Next, Step
<1> QED BY <1>1, <1>2, PTL DEF Spec

-----------------------------------------------------------------------------
\* releaseLock is token-safe in every interleaving: a lock leaves its owner
\* by the owner's release, the PX expiry or a foreign delete only.
THEOREM TokenSafeRelease == Spec => NoForeignRelease
<1> DEFINE Kept(c) == lock = c /\ lock' # c =>
                        \/ pc[c] \in Holding /\ pc'[c] \in Ended /\ lock' = None
                        \/ lockTtl = 1 /\ lock' = None /\ pc' = pc
                        \/ meddled' # meddled
<1>1. TypeOK /\ [Next]_vars => \A c \in Contender : Kept(c)
  <2> SUFFICES ASSUME TypeOK, [Next]_vars, NEW c \in Contender, lock = c, lock' # c
               PROVE  Kept(c)
    OBVIOUS
  <2> USE StampedeAssumption DEF TypeOK, Goto, Reject, Resolve, ReleaseLock, SetLock, Holding, Ended
  <2>1. ASSUME NEW d \in Contender, Yield(d) PROVE Kept(c)
    BY <2>1 DEF Yield, At
  <2>2. ASSUME NEW d \in Contender, Release(d) PROVE Kept(c)
    BY <2>2 DEF Release, At
  <2>3. ASSUME NEW d \in Contender, CommandThrows(d) PROVE Kept(c)
    BY <2>3 DEF CommandThrows, TryLockThrows, ReadThrows, YieldThrows, PopulateThrows,
                ReleaseThrows, At
  <2>4. CASE Meddle
    BY <2>4 DEF Meddle
  <2>5. CASE Tick
    BY <2>5 DEF Tick
  <2>6. ASSUME NEW d \in Contender, Step(d), ~Yield(d), ~Release(d) PROVE Kept(c)
    BY <2>6 DEF Step, TryLock, Recheck, FetchOrigin, Populate, ReadValue, CheckDeadline,
                FinalRead, DirectFetch
  <2>7. ASSUME NEW b \in Burst, Fire(b) \/ Respond(b) \/ Crash(b) PROVE Kept(c)
    BY <2>7 DEF Fire, Respond, Crash
  <2>8. CASE UNCHANGED vars
    BY <2>8 DEF vars
  <2> QED BY <2>1, <2>2, <2>3, <2>4, <2>5, <2>6, <2>7, <2>8 DEF Next
<1>2. TypeOK /\ [Next]_vars => [\A c \in Contender : Kept(c)]_vars
  BY <1>1
<1> QED BY <1>2, TypeCorrect, PTL DEF Spec, NoForeignRelease

-----------------------------------------------------------------------------
(***************************************************************************)
(* Bounded wait.  The step a contender waits for is due when timer is 0,    *)
(* that is when left[c] - timer[c] ticks of its window are left; Late(a)    *)
(* bounds how far after the deadline a step at a can be due.                *)
(***************************************************************************)
Late(a) ==
  CASE a = "acquire"                  -> PollTicks
    [] a \in {"read", "recheck"}      -> PollTicks + Slack
    [] a \in {"check", "yield"}       -> PollTicks + 2 * Slack
    [] a = "fetch"                    -> PollTicks + OriginTicks + 2 * Slack
    [] a = "final"                    -> PollTicks + 3 * Slack
    [] a = "set"                      -> PollTicks + OriginTicks + 3 * Slack
    [] a \in {"release", "releaseErr", "direct"} -> PollTicks + OriginTicks + 4 * Slack

WaitInv ==
  \A c \in Contender : pc[c] \in Active =>
    timer[c] >= -Slack /\ left[c] - timer[c] > -Late(pc[c])

\* A contender resolves within lockMs, one poll, one fetch and five delays,
\* however many bursts overlap, commands throw or locks lapse.
THEOREM BoundedWaitHolds == Spec => []BoundedWait
<1> USE StampedeAssumption
<1>1. Init => WaitInv
  BY DEF Init, WaitInv, Active, Holding, Waiting
<1>2. TypeOK /\ WaitInv /\ [Next]_vars => WaitInv'
  <2> SUFFICES ASSUME TypeOK, WaitInv, [Next]_vars,
                      NEW c \in Contender, pc'[c] \in Active
               PROVE  (timer[c] >= -Slack /\ left[c] - timer[c] > -Late(pc[c]))'
    BY DEF WaitInv
  <2> DEFINE Goal == (timer[c] >= -Slack /\ left[c] - timer[c] > -Late(pc[c]))'
  <2> USE DEF TypeOK, WaitInv
  <2>0. CASE pc'[c] = pc[c] /\ timer'[c] = timer[c] /\ left'[c] = left[c]
    BY <2>0
  <2>1. ASSUME NEW d \in Contender, Step(d) \/ CommandThrows(d) PROVE Goal
    <3>1. CASE d # c
      BY <2>1, <2>0, <3>1 DEF Step, TryLock, Recheck, Yield, FetchOrigin, Populate, Release,
         ReadValue, CheckDeadline, FinalRead, DirectFetch, CommandThrows, TryLockThrows,
         ReadThrows, YieldThrows, PopulateThrows, ReleaseThrows, Reject, Resolve, Goto
    <3>2. CASE d = c
      <4> USE <3>2 DEF Late, At, Goto, Resolve, Reject, Active, Holding, Waiting
      <4>1. CASE TryLock(c)
        BY <4>1 DEF TryLock
      <4>2. CASE Recheck(c)
        BY <4>2 DEF Recheck
      <4>3. CASE FetchOrigin(c)
        BY <4>3 DEF FetchOrigin
      <4>4. CASE Populate(c)
        BY <4>4 DEF Populate
      <4>5. CASE ReadValue(c)
        BY <4>5 DEF ReadValue
      <4>6. CASE CheckDeadline(c)
        BY <4>6 DEF CheckDeadline
      <4>7. CASE FinalRead(c)
        BY <4>7 DEF FinalRead
      <4>8. CASE Yield(c) \/ Release(c) \/ DirectFetch(c)
        BY <4>8 DEF Yield, Release, DirectFetch
      <4>9. CASE CommandThrows(c)
        <5>1. CASE PopulateThrows(c)
          BY <4>9, <5>1 DEF CommandThrows, PopulateThrows
        <5>2. CASE TryLockThrows(c) \/ ReadThrows(c) \/ YieldThrows(c) \/ ReleaseThrows(c)
          BY <5>2 DEF TryLockThrows, ReadThrows, YieldThrows, ReleaseThrows
        <5> QED BY <4>9, <5>1, <5>2 DEF CommandThrows
      <4> QED BY <2>1, <4>1, <4>2, <4>3, <4>4, <4>5, <4>6, <4>7, <4>8, <4>9 DEF Step
    <3> QED BY <3>1, <3>2
  <2>2. ASSUME NEW b \in Burst, Fire(b) PROVE Goal
    <3>1. CASE BurstOf[c] = b
      BY <2>2, <3>1 DEF Fire, Late
    <3> QED BY <2>2, <2>0, <3>1 DEF Fire
  <2>3. ASSUME NEW b \in Burst, Respond(b) PROVE Goal
    BY <2>3, <2>0 DEF Respond
  <2>4. ASSUME NEW b \in Burst, Crash(b) PROVE Goal
    BY <2>4, <2>0 DEF Crash, Active, Holding, Waiting
  <2>5. CASE Meddle
    BY <2>5, <2>0 DEF Meddle
  <2>6. CASE Tick
    BY <2>6 DEF Tick
  <2>7. CASE UNCHANGED vars
    BY <2>7, <2>0 DEF vars
  <2> QED BY <2>1, <2>2, <2>3, <2>4, <2>5, <2>6, <2>7 DEF Next
<1>3. TypeOK /\ WaitInv => BoundedWait
  BY DEF TypeOK, WaitInv, BoundedWait, Late, Active, Holding, Waiting
<1> QED BY <1>1, <1>2, <1>3, TypeCorrect, PTL DEF Spec

-----------------------------------------------------------------------------
(***************************************************************************)
(* Single flight, when every lock outlives the fetch and nothing fails.     *)
(* While no value is stored, whoever holds the lock stores one within       *)
(* ToStore ticks: sooner than its lock lapses, and sooner than the window   *)
(* of any contender that has already lost to it closes.                     *)
(***************************************************************************)
ToStore(h) ==
  CASE pc[h] = "recheck" -> timer[h] + OriginTicks + 3 * Slack
    [] pc[h] = "fetch"   -> timer[h] + 2 * Slack
    [] pc[h] = "set"     -> timer[h] + Slack
    [] OTHER             -> 0

Storing == {"recheck", "fetch", "set"}

\* A contender whose first attempt at the lock is still to come.
Fresh(c) == pc[c] = "acquire" /\ left[c] - timer[c] >= LockTicks[BurstOf[c]]

OnTime(c) ==
  /\ pc[c] \in Active => timer[c] >= -Slack
  /\ pc[c] = "fetch" => timer[c] <= OriginTicks
  /\ pc[c] \in {"recheck", "set"} => timer[c] <= 0

HolderInv(c) ==
  /\ pc[c] \in Storing => lock = c /\ lockTtl > ToStore(c)
  /\ lock = c /\ ~cached => pc[c] \in Storing
  /\ pc[c] \in {"fetch", "set"} => ~cached

LoserInv(c) ==
  pc[c] \in {"acquire", "read", "check"} /\ ~cached =>
    Fresh(c) \/ (lock \in Contender /\ left[c] > ToStore(lock))

OutcomeInv(c) ==
  /\ pc[c] \notin {"direct", "releaseErr", "failed", "dead"}
  /\ result[c] # "waited_origin"
  /\ pc[c] \in {"release", "yield", "final"} \/ result[c] = "won_origin" => cached
  /\ response[BurstOf[c]] = "none" => pc[c] = "idle"

FlightInv ==
  /\ \A c \in Contender : OnTime(c) /\ HolderInv(c) /\ LoserInv(c) /\ OutcomeInv(c)
  /\ SingleFlight

\* The flight a lock stands for while no value is stored.
LEMMA FlightBounds ==
  ASSUME TypeOK, FlightInv, lock \in Contender, ~cached
  PROVE  /\ pc[lock] \in Storing
         /\ ToStore(lock) \in Int
         /\ 0 <= ToStore(lock)
         /\ ToStore(lock) <= OriginTicks + 3 * Slack
         /\ ToStore(lock) < lockTtl
BY StampedeAssumption
   DEF TypeOK, FlightInv, HolderInv, OnTime, ToStore, Storing, Active, Holding, Waiting

\* The steps of d leave the clauses about another contender c alone, provided
\* d neither ends the flight under way nor changes what is stored.
LEMMA OthersUndisturbed ==
  ASSUME TypeOK, FlightInv, NEW c \in Contender,
         pc'[c] = pc[c], timer'[c] = timer[c], left'[c] = left[c], result'[c] = result[c],
         UNCHANGED response,
         UNCHANGED <<lock, lockTtl, cached>>,
         lock \in Contender /\ ~cached => ToStore(lock)' <= ToStore(lock) /\ ToStore(lock)' \in Int
  PROVE  (OnTime(c) /\ HolderInv(c) /\ LoserInv(c) /\ OutcomeInv(c))'
<1>1. OnTime(c)' /\ OutcomeInv(c)'
  BY DEF FlightInv, OnTime, OutcomeInv
<1>2. HolderInv(c)'
  BY DEF FlightInv, HolderInv, ToStore
<1>3. LoserInv(c)'
  BY FlightBounds DEF TypeOK, FlightInv, LoserInv, Fresh
<1> QED BY <1>1, <1>2, <1>3

\* Each kind of step preserves the invariant.
LEMMA FlightStep ==
  ASSUME FlightFits, MaxFaults = 0, MaxMeddling = 0, TypeOK, FlightInv, [Next]_vars
  PROVE  FlightInv'
<1> USE StampedeAssumption
<1>1. ASSUME NEW b \in Burst, Fire(b) PROVE FlightInv'
  <2> USE <1>1 DEF Fire, TypeOK
  <2>1. ASSUME NEW c \in Contender
        PROVE  (OnTime(c) /\ HolderInv(c) /\ LoserInv(c) /\ OutcomeInv(c))'
    <3>1. CASE BurstOf[c] = b
      BY <3>1 DEF FlightInv, OnTime, HolderInv, LoserInv, OutcomeInv, Fresh, Storing, ToStore
    <3>2. CASE BurstOf[c] # b
      BY <3>2 DEF FlightInv, OnTime, HolderInv, LoserInv, OutcomeInv, Fresh, Storing, ToStore
    <3> QED BY <3>1, <3>2
  <2>2. SingleFlight'
    BY DEF FlightInv, SingleFlight, Fetched, OutcomeInv
  <2> QED BY <2>1, <2>2 DEF FlightInv
<1>2. CASE Tick
  <2> USE <1>2 DEF Tick, TypeOK
  <2>1. ASSUME NEW c \in Contender
        PROVE  (OnTime(c) /\ HolderInv(c) /\ OutcomeInv(c))'
    BY DEF FlightInv, OnTime, HolderInv, OutcomeInv, Storing, ToStore, Active, Holding, Waiting
  <2>2. ASSUME lock \in Contender, ~cached
        PROVE  lock' = lock /\ ToStore(lock)' = ToStore(lock) - 1
    BY <2>2, FlightBounds DEF FlightInv, OnTime, Storing, ToStore, Active, Holding, Waiting
  <2>3. ASSUME NEW c \in Contender PROVE LoserInv(c)'
    BY <2>2, FlightBounds DEF FlightInv, LoserInv, Fresh, Active, Waiting
  <2>4. SingleFlight'
    BY DEF FlightInv, SingleFlight, Fetched
  <2> QED BY <2>1, <2>3, <2>4 DEF FlightInv
<1>3. ASSUME NEW d \in Contender, Step(d) PROVE FlightInv'
  <2> USE DEF At, Goto, Resolve, TypeOK
  <2> DEFINE Clauses(c) == OnTime(c) /\ HolderInv(c) /\ LoserInv(c) /\ OutcomeInv(c)
  <2>1. CASE TryLock(d)
    <3> USE <2>1 DEF TryLock, SetLock
    <3>1. ASSUME NEW c \in Contender PROVE Clauses(c)'
      <4>1. CASE lock = None
        BY <4>1 DEF FlightFits, FlightInv, OnTime, HolderInv, LoserInv, OutcomeInv, Fresh, Storing,
                    ToStore, Active, Holding, Waiting
      <4>2. CASE lock # None /\ c # d
        BY <4>2, OthersUndisturbed DEF ToStore, FlightInv, HolderInv, Storing
      <4>3. CASE lock # None /\ c = d
        <5>1. OnTime(c)' /\ OutcomeInv(c)' /\ HolderInv(c)'
          BY <4>3 DEF FlightInv, OnTime, OutcomeInv, HolderInv, Storing
        <5>2. LoserInv(c)'
          BY <4>3, FlightBounds DEF FlightFits, FlightInv, OnTime, LoserInv, Fresh, ToStore, Storing,
                    Active, Waiting
        <5> QED BY <5>1, <5>2
      <4> QED BY <4>1, <4>2, <4>3
    <3>2. SingleFlight'
      BY DEF FlightInv, SingleFlight, Fetched
    <3> QED BY <3>1, <3>2 DEF FlightInv
  <2>2. CASE Recheck(d)
    <3> USE <2>2 DEF Recheck
    <3>1. ASSUME NEW c \in Contender PROVE Clauses(c)'
      <4>1. CASE c # d
        BY <4>1, OthersUndisturbed
           DEF FlightInv, HolderInv, OnTime, Storing, ToStore, Active, Holding
      <4>2. CASE c = d
        BY <4>2 DEF FlightInv, OnTime, HolderInv, LoserInv, OutcomeInv, Storing, ToStore,
                    Active, Holding
      <4> QED BY <4>1, <4>2
    <3>2. SingleFlight'
      BY DEF FlightInv, SingleFlight, Fetched, HolderInv, OutcomeInv, Storing
    <3> QED BY <3>1, <3>2 DEF FlightInv
  <2>3. CASE Yield(d)
    <3> USE <2>3 DEF Yield, ReleaseLock
    <3>1. ASSUME NEW c \in Contender PROVE Clauses(c)'
      BY DEF FlightInv, OnTime, HolderInv, LoserInv, OutcomeInv, Storing, ToStore, Active, Holding, Waiting
    <3>2. SingleFlight'
      BY DEF FlightInv, SingleFlight, Fetched
    <3> QED BY <3>1, <3>2 DEF FlightInv
  <2>4. CASE FetchOrigin(d)
    <3> USE <2>4 DEF FetchOrigin
    <3>1. ASSUME NEW c \in Contender PROVE Clauses(c)'
      <4>1. CASE c # d
        BY <4>1, OthersUndisturbed DEF FlightInv, HolderInv, OnTime, Storing, ToStore, Active, Holding
      <4>2. CASE c = d
        BY <4>2 DEF FlightInv, OnTime, HolderInv, LoserInv, OutcomeInv, Storing, ToStore, Active, Holding
      <4> QED BY <4>1, <4>2
    <3>2. SingleFlight'
      BY DEF FlightInv, SingleFlight, Fetched
    <3> QED BY <3>1, <3>2 DEF FlightInv
  <2>5. CASE Populate(d)
    <3> USE <2>5 DEF Populate
    <3>1. ASSUME NEW c \in Contender PROVE Clauses(c)'
      BY DEF FlightInv, OnTime, HolderInv, LoserInv, OutcomeInv, Storing, ToStore, Active, Holding, Waiting
    <3>2. SingleFlight'
      BY DEF FlightInv, SingleFlight, Fetched
    <3> QED BY <3>1, <3>2 DEF FlightInv
  <2>6. CASE Release(d)
    <3> USE <2>6 DEF Release, ReleaseLock
    <3>1. ASSUME NEW c \in Contender PROVE Clauses(c)'
      BY DEF FlightInv, OnTime, HolderInv, LoserInv, OutcomeInv, Storing, ToStore, Active, Holding, Waiting
    <3>2. SingleFlight'
      BY DEF FlightInv, SingleFlight, Fetched, OutcomeInv
    <3> QED BY <3>1, <3>2 DEF FlightInv
  <2>7. CASE ReadValue(d) \/ FinalRead(d)
    <3> USE <2>7 DEF ReadValue, FinalRead
    <3>1. ASSUME NEW c \in Contender PROVE Clauses(c)'
      <4>1. CASE c # d
        BY <4>1, OthersUndisturbed DEF FlightInv, HolderInv, Storing, ToStore
      <4>2. CASE c = d
        BY <4>2 DEF FlightInv, OnTime, HolderInv, LoserInv, OutcomeInv, Fresh, Storing, ToStore,
                    Active, Holding, Waiting
      <4> QED BY <4>1, <4>2
    <3>2. SingleFlight'
      BY DEF FlightInv, SingleFlight, Fetched, OutcomeInv
    <3> QED BY <3>1, <3>2 DEF FlightInv
  <2>8. CASE CheckDeadline(d)
    <3> USE <2>8 DEF CheckDeadline
    <3>1. ASSUME NEW c \in Contender PROVE Clauses(c)'
      <4>1. CASE c # d
        BY <4>1, OthersUndisturbed DEF FlightInv, HolderInv, Storing, ToStore
      <4>2. CASE c = d
        BY <4>2, FlightBounds DEF FlightInv, OnTime, HolderInv, LoserInv, OutcomeInv, Fresh, Storing,
                    ToStore, Active, Holding, Waiting
      <4> QED BY <4>1, <4>2
    <3>2. SingleFlight'
      BY DEF FlightInv, SingleFlight, Fetched
    <3> QED BY <3>1, <3>2 DEF FlightInv
  <2>9. CASE DirectFetch(d)
    BY <2>9 DEF DirectFetch, FlightInv, OutcomeInv
  <2> QED BY <1>3, <2>1, <2>2, <2>3, <2>4, <2>5, <2>6, <2>7, <2>8, <2>9 DEF Step
<1>4. ASSUME NEW b \in Burst, Respond(b) PROVE FlightInv'
  <2> USE <1>4 DEF Respond, TypeOK
  <2>1. ASSUME NEW c \in Contender
        PROVE  (OnTime(c) /\ HolderInv(c) /\ LoserInv(c) /\ OutcomeInv(c))'
    BY DEF FlightInv, OnTime, HolderInv, LoserInv, OutcomeInv, Fresh, ToStore
  <2>2. SingleFlight'
    BY DEF FlightInv, SingleFlight, Fetched
  <2> QED BY <2>1, <2>2 DEF FlightInv
<1>5. CASE UNCHANGED vars
  BY <1>5 DEF vars, FlightInv, OnTime, HolderInv, LoserInv, OutcomeInv, Fresh, ToStore,
              SingleFlight, Fetched
<1>6. ~Meddle /\ (\A b \in Burst : ~Crash(b)) /\ (\A c \in Contender : ~CommandThrows(c))
  BY DEF TypeOK, Meddle, Crash, CommandThrows
<1> QED BY <1>1, <1>2, <1>3, <1>4, <1>5, <1>6 DEF Next

\* Locks that outlive the fetch collapse any number of overlapping bursts,
\* of any size, into one origin fetch.
THEOREM SingleFlightHolds ==
  ASSUME FlightFits, MaxFaults = 0, MaxMeddling = 0
  PROVE  Spec => []SingleFlight
<1>1. Init => FlightInv
  BY StampedeAssumption DEF Init, FlightInv, OnTime, HolderInv, LoserInv, OutcomeInv, SingleFlight, Fetched, Storing,
         Active, Holding, Waiting
<1>2. TypeOK /\ FlightInv /\ [Next]_vars => FlightInv'
  BY FlightStep
<1>3. FlightInv => SingleFlight
  BY DEF FlightInv
<1> QED BY <1>1, <1>2, <1>3, TypeCorrect, PTL DEF Spec
-----------------------------------------------------------------------------
(***************************************************************************)
(* Refinement.  A contender has a result when it is done and not before, so *)
(* that the cases of Phase exclude one another; under FlightInv every step  *)
(* of the lab is a step of CollapsedFlight or leaves phase and stored alone. *)
(***************************************************************************)
ResultInv == \A c \in Contender : (pc[c] = "done") <=> (result[c] # "none")

\* A contender resolves with its result, and a resolved one is never fired again.
LEMMA ResultStep ==
  ASSUME MaxFaults = 0, TypeOK, FlightInv, ResultInv, [Next]_vars
  PROVE  ResultInv'
<1> USE StampedeAssumption DEF TypeOK, ResultInv
<1>1. ASSUME NEW b \in Burst, Fire(b) PROVE ResultInv'
  BY <1>1 DEF Fire, FlightInv, OutcomeInv
<1>2. ASSUME NEW b \in Burst, Respond(b) PROVE ResultInv'
  BY <1>2 DEF Respond
<1>3. ASSUME NEW c \in Contender, Yield(c) \/ Release(c) PROVE ResultInv'
  BY <1>3 DEF Yield, Release, Resolve, Goto, At
<1>4. ASSUME NEW c \in Contender, ReadValue(c) \/ FinalRead(c) \/ DirectFetch(c) PROVE ResultInv'
  BY <1>4 DEF ReadValue, FinalRead, DirectFetch, Resolve, Goto, At
<1>5. ASSUME NEW c \in Contender, Step(c), ~Yield(c), ~Release(c),
             ~ReadValue(c), ~FinalRead(c), ~DirectFetch(c)
      PROVE  ResultInv'
  BY <1>5 DEF Step, TryLock, Recheck, FetchOrigin, Populate, CheckDeadline, Goto, At
<1>6. CASE Meddle \/ Tick \/ UNCHANGED vars
  BY <1>6 DEF Meddle, Tick, vars
<1>7. (\A b \in Burst : ~Crash(b)) /\ (\A c \in Contender : ~CommandThrows(c))
  BY DEF Crash, CommandThrows
<1> QED BY <1>1, <1>2, <1>3, <1>4, <1>5, <1>6, <1>7 DEF Next

\* The step of one contender moves its own phase only.
LEMMA PhaseMoves ==
  ASSUME NEW c \in Contender,
         \A d \in Contender \ {c} : pc'[d] = pc[d] /\ result'[d] = result[d]
  PROVE  Phase' = [Phase EXCEPT ![c] = Phase'[c]]
<1>1. \A d \in Contender \ {c} : Phase'[d] = Phase[d]
  BY DEF Phase
<1>2. Phase = [d \in Contender |-> Phase[d]] /\ Phase' = [d \in Contender |-> Phase'[d]]
  BY DEF Phase
<1> QED BY <1>1, <1>2

\* Where nobody's wait and nobody's result changes, no phase does.
LEMMA PhaseKept ==
  ASSUME \A c \in Contender : pc'[c] = pc[c] /\ result'[c] = result[c]
  PROVE  Phase' = Phase
BY DEF Phase

\* Every step of the lab is a step of the single flight, or a stutter.
LEMMA FlightSimulated ==
  ASSUME FlightFits, MaxFaults = 0, MaxMeddling = 0, TypeOK, FlightInv, ResultInv, [Next]_vars
  PROVE  [Flight!Next]_(Flight!vars)
<1> USE StampedeAssumption
<1>1. FlightInv' /\ ResultInv'
  BY FlightStep, ResultStep
<1>2. ASSUME NEW b \in Burst, Fire(b) PROVE Flight!Arrive(Members(b))
  <2>1. \A c \in Members(b) : pc[c] = "idle" /\ result[c] = "none"
    BY <1>2 DEF Fire, Members, FlightInv, OutcomeInv, ResultInv
  <2>2. \A c \in Contender : Phase'[c] = IF c \in Members(b) THEN "waiting" ELSE Phase[c]
    BY <1>2, <2>1 DEF Fire, Members, Phase, TypeOK
  <2>3. Phase' = [c \in Contender |-> IF c \in Members(b) THEN "waiting" ELSE Phase[c]]
    BY <2>2 DEF Phase
  <2>4. \A c \in Members(b) : Phase[c] = "idle"
    BY <2>1 DEF Phase, Members
  <2> QED BY <1>2, <2>3, <2>4 DEF Fire, Flight!Arrive
<1>3. ASSUME NEW c \in Contender, Step(c) PROVE [Flight!Next]_(Flight!vars)
  <2> USE DEF At, Goto, Resolve, TypeOK
  <2>0. Phase' = [Phase EXCEPT ![c] = Phase'[c]]
    BY <1>3, PhaseMoves DEF Step, TryLock, Recheck, Yield, FetchOrigin, Populate, Release,
                ReadValue, CheckDeadline, FinalRead, DirectFetch
  <2>00. Phase = [d \in Contender |-> Phase[d]]
    BY DEF Phase
  <2>1. CASE TryLock(c) \/ FetchOrigin(c) \/ CheckDeadline(c)
    <3>1. Phase'[c] = Phase[c] /\ cached' = cached
      BY <2>1, <1>1 DEF TryLock, FetchOrigin, CheckDeadline, Phase, ResultInv
    <3> QED BY <3>1, <2>0, <2>00 DEF Flight!vars
  <2>2. CASE Recheck(c)
    <3>1. pc[c] = "recheck" /\ result[c] = "none" /\ result' = result /\ cached' = cached
      BY <2>2 DEF Recheck, ResultInv
    <3>2. Phase[c] = "waiting"
      BY <3>1 DEF Phase
    <3>3. CASE cached
      <4>1. Phase'[c] = "waiting"
        BY <2>2, <3>1, <3>3 DEF Recheck, Phase
      <4> QED BY <4>1, <3>1, <3>2, <2>0, <2>00 DEF Flight!vars
    <3>4. CASE ~cached
      <4>1. pc'[c] = "fetch" /\ Phase'[c] = "fetching" /\ c \in Fetched'
        BY <2>2, <3>1, <3>4 DEF Recheck, Phase, Fetched
      <4>2. ASSUME NEW d \in Contender, Phase[d] \in {"fetching", "origin"} PROVE FALSE
        <5>1. d # c
          BY <4>2, <3>2
        <5>2. d \in Fetched'
          BY <4>2, <5>1, <2>2, <3>1 DEF Recheck, Phase, Fetched
        <5> QED BY <5>1, <5>2, <4>1, <1>1 DEF FlightInv, SingleFlight
      <4>3. Flight!Fetch(c)
        BY <4>1, <4>2, <3>1, <3>2, <3>4, <2>0 DEF Flight!Fetch
      <4> QED BY <4>3 DEF Flight!Next
    <3> QED BY <3>3, <3>4
  <2>3. CASE Populate(c)
    <3>1. pc[c] = "set" /\ pc'[c] = "release" /\ cached' = TRUE
          /\ result[c] = "none" /\ result'[c] = "none"
      BY <2>3 DEF Populate, ResultInv
    <3>2. ~cached
      BY <3>1 DEF FlightInv, HolderInv
    <3>3. Phase[c] = "fetching" /\ Phase'[c] = "fetching"
      BY <3>1 DEF Phase
    <3>4. Flight!Store(c)
      BY <3>1, <3>2, <3>3, <2>0, <2>00 DEF Flight!Store
    <3> QED BY <3>4 DEF Flight!Next
  <2>4. CASE Release(c)
    <3>1. pc[c] = "release" /\ pc'[c] = "done" /\ cached' = cached
          /\ result[c] = "none" /\ result'[c] = "won_origin"
      BY <2>4 DEF Release, FlightInv, OutcomeInv, ResultInv
    <3>2. cached
      BY <3>1 DEF FlightInv, OutcomeInv
    <3>3. Phase[c] = "fetching" /\ Phase'[c] = "origin"
      BY <3>1 DEF Phase
    <3>4. Flight!Answer(c)
      BY <3>1, <3>2, <3>3, <2>0 DEF Flight!Answer
    <3> QED BY <3>4 DEF Flight!Next
  <2>5. CASE Yield(c) \/ ReadValue(c) \/ FinalRead(c)
    <3>1. Phase[c] = "waiting" /\ cached' = cached
      BY <2>5 DEF Yield, ReadValue, FinalRead, Phase, ResultInv
    <3>2. pc[c] \in {"yield", "final"} => cached
      BY DEF FlightInv, OutcomeInv
    <3>3. CASE cached
      <4>1. Phase'[c] = "hit"
        BY <2>5, <3>3 DEF Yield, ReadValue, FinalRead, Phase
      <4>2. Flight!Hit(c)
        BY <4>1, <3>1, <3>3, <2>0 DEF Flight!Hit
      <4> QED BY <4>2 DEF Flight!Next
    <3>4. CASE ~cached
      <4>1. Phase'[c] = "waiting"
        BY <2>5, <3>2, <3>4, <1>1 DEF Yield, ReadValue, FinalRead, Phase, ResultInv
      <4> QED BY <4>1, <3>1, <2>0, <2>00 DEF Flight!vars
    <3> QED BY <3>3, <3>4
  <2>6. ~DirectFetch(c)
    BY DEF DirectFetch, FlightInv, OutcomeInv
  <2> QED BY <1>3, <2>1, <2>2, <2>3, <2>4, <2>5, <2>6 DEF Step
<1>4. ASSUME NEW b \in Burst, Respond(b) PROVE UNCHANGED Flight!vars
  BY <1>4, PhaseKept DEF Respond, Flight!vars
<1>5. CASE Tick \/ UNCHANGED vars
  BY <1>5, PhaseKept DEF Tick, vars, Flight!vars
<1>6. ~Meddle /\ (\A b \in Burst : ~Crash(b)) /\ (\A c \in Contender : ~CommandThrows(c))
  BY DEF TypeOK, Meddle, Crash, CommandThrows
<1>7. ASSUME NEW b \in Burst, Fire(b) PROVE Flight!Next
  <2>1. Members(b) \in SUBSET Contender
    BY DEF Members
  <2> QED BY <1>2, <1>7, <2>1 DEF Flight!Next
<1> QED BY <1>3, <1>4, <1>5, <1>6, <1>7 DEF Next

\* The lab starts with everybody idle and nothing stored.
LEMMA FlightStarts == Init => FlightInv /\ ResultInv /\ Flight!Init
<1> USE StampedeAssumption
<1>1. Init => FlightInv
  BY DEF Init, FlightInv, OnTime, HolderInv, LoserInv, OutcomeInv, SingleFlight, Fetched, Storing,
         Active, Holding, Waiting
<1>2. Init => ResultInv
  BY DEF Init, ResultInv
<1>3. Init => Flight!Init
  BY DEF Init, Flight!Init, Phase
<1> QED BY <1>1, <1>2, <1>3

\* The safety part of FlightSpec: any number of overlapping bursts of any size
\* behave as one flight, one fetcher and then hits, step by step.
THEOREM OneFlight ==
  ASSUME FlightFits, MaxFaults = 0, MaxMeddling = 0
  PROVE  Spec => Flight!Init /\ [][Flight!Next]_(Flight!vars)
<1>1. Init => FlightInv /\ ResultInv /\ Flight!Init
  BY FlightStarts
<1>2. TypeOK /\ FlightInv /\ ResultInv /\ [Next]_vars => FlightInv' /\ ResultInv'
  BY FlightStep, ResultStep
<1>3. TypeOK /\ FlightInv /\ ResultInv /\ [Next]_vars => [Flight!Next]_(Flight!vars)
  BY FlightSimulated
<1> QED BY <1>1, <1>2, <1>3, TypeCorrect, PTL DEF Spec
=============================================================================
