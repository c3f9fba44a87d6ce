------------------------------- MODULE Stampede -------------------------------
(***************************************************************************)
(* The single-flight lab of apps/api: POST /stampede fires a burst of       *)
(* contenders for one uncached product.  Each contender races for a Redis   *)
(* lock (SET NX PX); the holder fetches the slow origin, stores the value   *)
(* and releases the lock with a compare-and-delete; the others poll.        *)
(*                                                                         *)
(* One product key, hence one lock key.  A step of a contender is one Redis *)
(* command (or one timer) together with the code that runs up to the next   *)
(* await.  Time is counted in ticks: timer[c] says when the pending step of *)
(* c is due, and a due step is taken at most Slack ticks late (network and  *)
(* event-loop delay).  Bursts may overlap and each has its own lockMs.      *)
(***************************************************************************)
EXTENDS Integers, FiniteSets

CONSTANTS
  Contender,     \* the fired requests; a contender doubles as its lock token
  Burst,         \* calls of StampedeService.run, one API process each
  BurstOf,       \* the burst a contender belongs to
  LockTicks,     \* lockMs of each burst, in ticks
  OriginTicks,   \* ORIGIN_LATENCY_MS in ticks
  PollTicks,     \* POLL_INTERVAL_MS in ticks
  Slack,         \* the most ticks a due step is late
  MaxFaults,     \* bound: Redis commands that throw, and process crashes
  MaxMeddling,   \* bound: writes of other clients to the value or the lock key
  None           \* no owner

ASSUME StampedeAssumption ==
  /\ BurstOf \in [Contender -> Burst]
  /\ LockTicks \in [Burst -> Nat \ {0}]
  /\ OriginTicks \in Nat \ {0}
  /\ PollTicks \in Nat \ {0}
  /\ Slack \in Nat
  /\ MaxFaults \in Nat
  /\ MaxMeddling \in Nat
  /\ None \notin Contender

VARIABLES
  lock,      \* owner token stored under stampede:{id}, or None
  lockTtl,   \* ticks until Redis expires the lock
  cached,    \* does product:{id} hold a value?
  pc,        \* the pending await of each contender
  timer,     \* ticks until the pending step is due; negative when late
  left,      \* deadline - now; not positive once the wait window is over
  result,    \* the ContenderResult (role and outcome) of a resolved contender
  response,  \* the HTTP response of each burst
  faults,    \* faults injected so far
  meddled    \* interferences of other clients so far

vars == <<lock, lockTtl, cached, pc, timer, left, result, response, faults, meddled>>

-----------------------------------------------------------------------------
Holding  == {"recheck", "yield", "fetch", "set", "release", "releaseErr"}
Waiting  == {"acquire", "read", "check", "final", "direct"}
Active   == Holding \union Waiting
Ended    == {"done", "failed", "dead"}
Await    == {"idle"} \union Active \union Ended
Result   == {"none", "won_origin", "waited_hit", "waited_origin"}
Response == {"none", "pending", "ok", "error", "lost"}

\* Contenders paying for an origin fetch: under the lock, or bounded out.
Fetching == {c \in Contender : pc[c] \in {"fetch", "direct"}}
\* Contenders that ever paid for one.
Fetched  == {c \in Contender : \/ pc[c] \in {"fetch", "set", "release", "releaseErr", "direct"}
                               \/ result[c] \in {"won_origin", "waited_origin"}}
Members(b) == {c \in Contender : BurstOf[c] = b}

TypeOK ==
  /\ lock \in Contender \union {None}
  /\ lockTtl \in Nat
  /\ lock # None <=> lockTtl > 0
  /\ cached \in BOOLEAN
  /\ pc \in [Contender -> Await]
  /\ timer \in [Contender -> Int]
  /\ left \in [Contender -> Int]
  /\ result \in [Contender -> Result]
  /\ response \in [Burst -> Response]
  /\ faults \in 0..MaxFaults
  /\ meddled \in 0..MaxMeddling

Init ==
  /\ lock = None
  /\ lockTtl = 0
  /\ cached = FALSE
  /\ pc = [c \in Contender |-> "idle"]
  /\ timer = [c \in Contender |-> 0]
  /\ left = [c \in Contender |-> 0]
  /\ result = [c \in Contender |-> "none"]
  /\ response = [b \in Burst |-> "none"]
  /\ faults = 0
  /\ meddled = 0

-----------------------------------------------------------------------------
\* The two Lua scripts; both are atomic in Redis.

\* Mutant: a lock whose TTL is not that of lockMs but nil.
BugNoTtl(c) == lock' = c /\ UNCHANGED lockTtl

\* acquireLock: SET key token NX PX lockMs.
SetLock(c) ==
  /\ lock' = c
  /\ lockTtl' = LockTicks[BurstOf[c]]

\* Mutant: a blind DEL, without the token comparison.
BugBlindRelease(c) == lock' = None /\ lockTtl' = 0

\* releaseLock: delete the key when it still stores the caller's token.
ReleaseLock(c) ==
  IF lock = c THEN lock' = None /\ lockTtl' = 0
              ELSE UNCHANGED <<lock, lockTtl>>

\* The await of c at a resolves; its next await is due after d ticks.
At(c, a) == pc[c] = a /\ timer[c] <= 0

Goto(c, a, d) ==
  /\ pc' = [pc EXCEPT ![c] = a]
  /\ timer' = [timer EXCEPT ![c] = d]

Resolve(c, r) ==
  /\ Goto(c, "done", 0)
  /\ result' = [result EXCEPT ![c] = r]

-----------------------------------------------------------------------------
\* POST /stampede: all contenders of the burst start in the same turn.
Fire(b) ==
  /\ response[b] = "none"
  /\ response' = [response EXCEPT ![b] = "pending"]
  /\ pc' = [c \in Contender |-> IF BurstOf[c] = b THEN "acquire" ELSE pc[c]]
  /\ timer' = [c \in Contender |-> IF BurstOf[c] = b THEN 0 ELSE timer[c]]
  /\ left' = [c \in Contender |-> IF BurstOf[c] = b THEN LockTicks[b] ELSE left[c]]
  /\ UNCHANGED <<lock, lockTtl, cached, result, faults, meddled>>

\* The acquireLock script runs for c.
TryLock(c) ==
  /\ At(c, "acquire")
  /\ \/ lock = None /\ SetLock(c) /\ Goto(c, "recheck", 0)
     \/ lock # None /\ Goto(c, "read", 0) /\ UNCHANGED <<lock, lockTtl>>
  /\ UNCHANGED <<cached, left, result, response, faults, meddled>>

\* Mutant: the winner pays the origin without looking at the cache again.
BugNoRecheck(c) ==
  /\ At(c, "recheck")
  /\ Goto(c, "fetch", OriginTicks)
  /\ UNCHANGED <<lock, lockTtl, cached, left, result, response, faults, meddled>>

\* The holder looks for a value stored by an earlier holder.
Recheck(c) ==
  /\ At(c, "recheck")
  /\ IF cached THEN Goto(c, "yield", 0) ELSE Goto(c, "fetch", OriginTicks)
  /\ UNCHANGED <<lock, lockTtl, cached, left, result, response, faults, meddled>>

\* The holder that found a value gives the lock back and reports a hit.
Yield(c) ==
  /\ At(c, "yield")
  /\ ReleaseLock(c)
  /\ Resolve(c, "waited_hit")
  /\ UNCHANGED <<cached, left, response, faults, meddled>>

\* The origin answers the holder.
FetchOrigin(c) ==
  /\ At(c, "fetch")
  /\ Goto(c, "set", 0)
  /\ UNCHANGED <<lock, lockTtl, cached, left, result, response, faults, meddled>>

\* Mutant: the holder returns the product without storing it.
BugNotStored(c) ==
  /\ At(c, "set")
  /\ Goto(c, "release", 0)
  /\ UNCHANGED <<lock, lockTtl, cached, left, result, response, faults, meddled>>

Populate(c) ==
  /\ At(c, "set")
  /\ cached' = TRUE
  /\ Goto(c, "release", 0)
  /\ UNCHANGED <<lock, lockTtl, left, result, response, faults, meddled>>

\* The finally block, after a stored value or after a failed store.
Release(c) ==
  /\ ReleaseLock(c)
  /\ \/ /\ At(c, "release")
        /\ Resolve(c, "won_origin")
        /\ UNCHANGED response
     \/ /\ At(c, "releaseErr")
        /\ Goto(c, "failed", 0)
        /\ response' = [response EXCEPT ![BurstOf[c]] = IF @ = "pending" THEN "error" ELSE @]
        /\ UNCHANGED result
  /\ UNCHANGED <<cached, left, faults, meddled>>

\* A contender that lost the lock looks for the holder's value.
ReadValue(c) ==
  /\ At(c, "read")
  /\ IF cached THEN Resolve(c, "waited_hit")
               ELSE Goto(c, "check", 0) /\ UNCHANGED result
  /\ UNCHANGED <<lock, lockTtl, cached, left, response, faults, meddled>>

\* Mutant: the poll loop without its deadline.
BugNoDeadline(c) ==
  /\ At(c, "check")
  /\ Goto(c, "acquire", PollTicks)
  /\ UNCHANGED <<lock, lockTtl, cached, left, result, response, faults, meddled>>

\* Date.now() >= deadline: break, else sleep one poll interval and try again.
CheckDeadline(c) ==
  /\ At(c, "check")
  /\ IF left[c] <= 0 THEN Goto(c, "final", 0) ELSE Goto(c, "acquire", PollTicks)
  /\ UNCHANGED <<lock, lockTtl, cached, left, result, response, faults, meddled>>

FinalRead(c) ==
  /\ At(c, "final")
  /\ IF cached THEN Resolve(c, "waited_hit")
               ELSE Goto(c, "direct", OriginTicks) /\ UNCHANGED result
  /\ UNCHANGED <<lock, lockTtl, cached, left, response, faults, meddled>>

\* The bounded-out contender fetches for itself; it stores nothing.
DirectFetch(c) ==
  /\ At(c, "direct")
  /\ Resolve(c, "waited_origin")
  /\ UNCHANGED <<lock, lockTtl, cached, left, response, faults, meddled>>

-----------------------------------------------------------------------------
\* Promise.all resolves, and after scripts.load, which may throw, run() returns the
\* timeline.
Respond(b) ==
  /\ response[b] = "pending"
  /\ \A c \in Members(b) : pc[c] = "done"
  /\ \/ response' = [response EXCEPT ![b] = "ok"] /\ UNCHANGED faults
     \/ /\ faults < MaxFaults /\ faults' = faults + 1
        /\ response' = [response EXCEPT ![b] = "error"]
  /\ UNCHANGED <<lock, lockTtl, cached, pc, timer, left, result, meddled>>

-----------------------------------------------------------------------------
\* A Redis command of c throws, after taking effect (lost reply) or not.

\* Mutant: a rejected contender that never settles its burst.
BugSilentReject(c) == Goto(c, "failed", 0) /\ UNCHANGED <<result, response>>

\* Outside populateAndRelease the error rejects the contender, and with it
\* the burst (Promise.all); the other contenders run on.
Reject(c) ==
  /\ Goto(c, "failed", 0)
  /\ response' = [response EXCEPT ![BurstOf[c]] = IF @ = "pending" THEN "error" ELSE @]
  /\ UNCHANGED result

TryLockThrows(c) ==
  /\ At(c, "acquire")
  /\ \/ lock = None /\ SetLock(c)
     \/ UNCHANGED <<lock, lockTtl>>
  /\ Reject(c)
  /\ UNCHANGED cached

ReadThrows(c) ==
  /\ \E a \in {"recheck", "read", "final"} : At(c, a)
  /\ Reject(c)
  /\ UNCHANGED <<lock, lockTtl, cached>>

YieldThrows(c) ==
  /\ At(c, "yield")
  /\ ReleaseLock(c) \/ UNCHANGED <<lock, lockTtl>>
  /\ Reject(c)
  /\ UNCHANGED cached

\* A failed store still goes through the finally block.
PopulateThrows(c) ==
  /\ At(c, "set")
  /\ cached' \in {cached, TRUE}
  /\ Goto(c, "releaseErr", 0)
  /\ UNCHANGED <<lock, lockTtl, result, response>>

\* A failed release in the finally block is logged, never propagated.
ReleaseThrows(c) ==
  /\ \/ At(c, "release") /\ Resolve(c, "won_origin") /\ UNCHANGED response
     \/ At(c, "releaseErr") /\ Reject(c)
  /\ ReleaseLock(c) \/ UNCHANGED <<lock, lockTtl>>
  /\ UNCHANGED cached

CommandThrows(c) ==
  /\ faults < MaxFaults
  /\ faults' = faults + 1
  /\ \/ TryLockThrows(c) \/ ReadThrows(c) \/ YieldThrows(c)
     \/ PopulateThrows(c) \/ ReleaseThrows(c)
  /\ UNCHANGED <<left, meddled>>

\* The API process serving b dies; what it stored in Redis stays there.
Crash(b) ==
  /\ faults < MaxFaults
  /\ faults' = faults + 1
  /\ response[b] # "none"
  /\ \E c \in Members(b) : pc[c] \in Active
  /\ pc' = [c \in Contender |-> IF BurstOf[c] = b /\ pc[c] \in Active THEN "dead" ELSE pc[c]]
  /\ response' = [response EXCEPT ![b] = IF @ = "pending" THEN "lost" ELSE @]
  /\ UNCHANGED <<lock, lockTtl, cached, timer, left, result, meddled>>

-----------------------------------------------------------------------------
\* Other clients of the shared product:{id} key: the catalog fills it, an
\* admin delete or the value's TTL empties it, a namespace flush takes the
\* lock key along.
Meddle ==
  /\ meddled < MaxMeddling
  /\ meddled' = meddled + 1
  /\ \/ cached' = TRUE /\ UNCHANGED <<lock, lockTtl>>
     \/ cached' = FALSE /\ UNCHANGED <<lock, lockTtl>>
     \/ cached' = FALSE /\ lock' = None /\ lockTtl' = 0
  /\ UNCHANGED <<pc, timer, left, result, response, faults>>

\* Mutant: the lock is set without PX.
BugNoExpiry ==
  /\ \A c \in Contender : pc[c] \in Active => timer[c] > -Slack
  /\ timer' = [c \in Contender |-> IF pc[c] \in Active THEN timer[c] - 1 ELSE timer[c]]
  /\ left' = [c \in Contender |-> IF pc[c] \in Active THEN left[c] - 1 ELSE left[c]]
  /\ UNCHANGED <<lock, lockTtl, cached, pc, result, response, faults, meddled>>

\* One tick: timers and the wait windows advance, Redis ages the lock.
Tick ==
  /\ \A c \in Contender : pc[c] \in Active => timer[c] > -Slack
  /\ timer' = [c \in Contender |-> IF pc[c] \in Active THEN timer[c] - 1 ELSE timer[c]]
  /\ left' = [c \in Contender |-> IF pc[c] \in Active THEN left[c] - 1 ELSE left[c]]
  /\ lockTtl' = IF lockTtl > 0 THEN lockTtl - 1 ELSE 0
  /\ lock' = IF lockTtl > 1 THEN lock ELSE None
  /\ UNCHANGED <<cached, pc, result, response, faults, meddled>>

Step(c) ==
  \/ TryLock(c) \/ Recheck(c) \/ Yield(c) \/ FetchOrigin(c) \/ Populate(c) \/ Release(c)
  \/ ReadValue(c) \/ CheckDeadline(c) \/ FinalRead(c) \/ DirectFetch(c)

Next ==
  \/ \E b \in Burst : Fire(b) \/ Respond(b) \/ Crash(b)
  \/ \E c \in Contender : Step(c) \/ CommandThrows(c)
  \/ Meddle
  \/ Tick

Spec == Init /\ [][Next]_vars

\* Timers fire, Redis answers or the client throws, and time passes; nothing
\* obliges a client to fire a burst, a fault to strike or others to meddle.
Fairness ==
  /\ \A c \in Contender : WF_vars(Step(c))
  /\ \A b \in Burst : WF_vars(Respond(b))
  /\ WF_vars(Tick)

FairSpec == Spec /\ Fairness

-----------------------------------------------------------------------------
(* Properties *)

\* populateAndRelease / releaseLock: a lock leaves its owner only through the
\* owner's own release, the PX expiry, or another client's delete; a holder
\* whose lock lapsed never deletes the lock of the one that took over.
NoForeignRelease ==
  [][\A c \in Contender :
       lock = c /\ lock' # c =>
         \/ pc[c] \in Holding /\ pc'[c] \in Ended /\ lock' = None
         \/ lockTtl = 1 /\ lock' = None /\ pc' = pc
         \/ meddled' # meddled]_vars

\* acquireOrWait: across every burst that overlaps, the slow origin is paid
\* for at most once when the lock outlives the fetch (see FlightFits).
SingleFlight == \A c, d \in Fetched : c = d

\* A lock with time to spare for the holder's three Redis round trips, the
\* origin and the first attempt of a contender that started before it.
FlightFits == \A b \in Burst : LockTicks[b] > OriginTicks + 4 * Slack

\* acquireOrWait, "Termination is bounded by lockMs": no contender is still
\* under way later than lockMs plus one last poll, one fetch and its commands.
BoundedWait ==
  \A c \in Contender :
    pc[c] \in Active => left[c] > -(PollTicks + OriginTicks + 5 * Slack)

\* A token left behind by a request that ended (it threw, or its process died,
\* while holding the lock) does not block the key for ever: PX frees it.
OrphanLockLapses ==
  \A c \in Contender : lock = c /\ pc[c] \in Ended ~> lock # c

\* Every fired burst is answered, or its process died: no contender hangs.
EveryBurstAnswered ==
  \A b \in Burst : response[b] = "pending" ~> response[b] # "pending"

\* stampede.service.ts:12-14 on a failed or slow holder: the losers never
\* degrade into every one of them fetching at once.
NotEveryLoserFetches ==
  \A b \in Burst :
    LET losers == {c \in Members(b) : /\ pc[c] \notin Holding \union {"failed", "dead"}
                                      /\ result[c] # "won_origin"}
    IN  Cardinality(losers) >= 2 => \E c \in losers : pc[c] # "direct"

-----------------------------------------------------------------------------
(* Refinement: what one burst promises, whatever lock it is built from. *)

Phase == [c \in Contender |->
            CASE pc[c] = "idle" -> "idle"
              [] pc[c] \in {"fetch", "set", "release", "direct"} -> "fetching"
              [] result[c] \in {"won_origin", "waited_origin"} -> "origin"
              [] result[c] = "waited_hit" -> "hit"
              [] OTHER -> "waiting"]

Flight == INSTANCE CollapsedFlight WITH Caller <- Contender, phase <- Phase, stored <- cached

\* While locks outlive the fetch and nothing fails, the burst is one flight.
FlightSpec == Flight!Spec
=============================================================================
