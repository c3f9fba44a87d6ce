--------------------------- MODULE CollapsedFlight ---------------------------
(***************************************************************************)
(* What the stampede lab promises (stampede.controller.ts, "Exactly one     *)
(* wins and fetches the slow origin; the rest wait and read the value it    *)
(* caches"): one fetcher, then hits.  No lock, no clock.                    *)
(***************************************************************************)
CONSTANT Caller

VARIABLES
  phase,   \* what each caller is doing, and where its value came from
  stored   \* has the fetched value been stored?

vars == <<phase, stored>>

Init ==
  /\ phase = [c \in Caller |-> "idle"]
  /\ stored = FALSE

\* A burst of callers arrives.
Arrive(S) ==
  /\ \A c \in S : phase[c] = "idle"
  /\ phase' = [c \in Caller |-> IF c \in S THEN "waiting" ELSE phase[c]]
  /\ UNCHANGED stored

\* The one flight: nobody fetches now or has fetched before.
Fetch(c) ==
  /\ phase[c] = "waiting"
  /\ ~stored
  /\ \A d \in Caller : phase[d] \notin {"fetching", "origin"}
  /\ phase' = [phase EXCEPT ![c] = "fetching"]
  /\ UNCHANGED stored

Store(c) ==
  /\ phase[c] = "fetching"
  /\ ~stored
  /\ stored' = TRUE
  /\ UNCHANGED phase

\* The fetcher answers only after the others can be served.
Answer(c) ==
  /\ phase[c] = "fetching"
  /\ stored
  /\ phase' = [phase EXCEPT ![c] = "origin"]
  /\ UNCHANGED stored

Hit(c) ==
  /\ phase[c] = "waiting"
  /\ stored
  /\ phase' = [phase EXCEPT ![c] = "hit"]
  /\ UNCHANGED stored

Next ==
  \/ \E S \in SUBSET Caller : Arrive(S)
  \/ \E c \in Caller : Fetch(c) \/ Store(c) \/ Answer(c) \/ Hit(c)

\* An arrived caller is served.
Served == \A c \in Caller : phase[c] = "waiting" ~> phase[c] \in {"origin", "hit"}

Spec == Init /\ [][Next]_vars /\ Served
=============================================================================
