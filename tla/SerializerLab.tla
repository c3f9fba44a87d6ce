------------------------------ MODULE SerializerLab ------------------------------
(***************************************************************************)
(* The serializer lab: SerializerView of each tab, and SerializerDemoService, *)
(* whose two endpoints write a demo key and read it back, raw and decoded,   *)
(* one command at a time.  All requests write the same keys.                 *)
(***************************************************************************)
EXTENDS Integers

CONSTANTS
  LabTab,    \* open tabs
  Payload,   \* JSON objects with at least one field
  Active,    \* CACHE_SERIALIZER, "json" or "msgpack"; the codec a tab selects is but a label
  MaxRuns    \* bound: runs submitted

VARIABLES
  store,     \* the demo keys in Redis
  jsonError, \* does the tab's form show an error?
  jobs,      \* the mutations under way
  results,   \* the data of each mutation, NoResult while it has none
  runs,      \* submitted so far
  touched    \* history: jobs whose keys another request of their kind, or a removal, has touched

serializerVars == <<store, jsonError, jobs, results, runs, touched>>

-----------------------------------------------------------------------------
DemoKey == {"last", "raw", "caveat"}
Job == LabTab \X {"roundtrip", "caveat"}
Gone  == "gone"                        \* a key that is not there; null
Dated == "dated"                       \* caveatPayload, the object with a Date
Stored == Payload \union {Dated, Gone}
Invalid == "invalid"                   \* text that is no JSON, or no object
EmptyObject == "{}"                    \* passes the form, not RoundtripBodySchema
Input == Payload \union {Invalid, EmptyObject}

ASSUME SerializerAssumption ==
  /\ Active \in {"json", "msgpack"} /\ MaxRuns \in Nat
  /\ Payload \intersect {Gone, Dated, Invalid, EmptyObject} = {}

Phase == {"idle", "set", "getRaw", "get", "setRaw", "getBypass"}
Progress == [at : Phase, mine : Stored \union {EmptyObject}, raw : Stored, decoded : Stored]
NoResult == [done |-> FALSE]
Result == [done : {TRUE}, mine : Stored, raw : Stored, decoded : Stored, bypass : Stored,
           survived : BOOLEAN]

\* Mutant: both endpoints write one id.
BugOneKey == [roundtrip |-> "last", caveat |-> "last"]

\* The ids under the prefix serializer:demo.
KeyOf == [roundtrip |-> "last", caveat |-> "caveat"]

SerializerTypeOK ==
  /\ store \in [DemoKey -> Stored]
  /\ jsonError \in [LabTab -> BOOLEAN]
  /\ jobs \in [Job -> Progress]
  /\ results \in [Job -> Result \union {NoResult}]
  /\ runs \in 0..MaxRuns /\ touched \subseteq Job

Idle == [at |-> "idle", mine |-> Gone, raw |-> Gone, decoded |-> Gone]

SerializerInit ==
  /\ store = [k \in DemoKey |-> Gone]
  /\ jsonError = [t \in LabTab |-> FALSE]
  /\ jobs = [j \in Job |-> Idle] /\ results = [j \in Job |-> NoResult]
  /\ runs = 0 /\ touched = {}

-----------------------------------------------------------------------------
(* SerializerView *)

\* mutate: the mutation's data is that of the call that starts.
Mutate(j, value) ==
  /\ runs < MaxRuns /\ runs' = runs + 1
  /\ jobs' = [jobs EXCEPT ![j] = [Idle EXCEPT !.at = "set", !.mine = value]]
  /\ results' = [results EXCEPT ![j] = NoResult]
  /\ touched' = touched \ {j}

\* handleRoundtrip, from a button that a pending mutation disables.
HandleRoundtrip(t, text) ==
  LET j == <<t, "roundtrip">> IN
  /\ jobs[j].at = "idle"
  /\ jsonError' = [jsonError EXCEPT ![t] = (text = Invalid)]
  /\ IF text = Invalid THEN UNCHANGED <<jobs, results, runs, touched>> ELSE Mutate(j, text)
  /\ UNCHANGED store

RunCaveat(t) ==
  LET j == <<t, "caveat">> IN
  /\ jobs[j].at = "idle"
  /\ Mutate(j, Dated)
  /\ UNCHANGED <<store, jsonError>>

\* An error answer: a toast, and no data.
Fails(j) ==
  /\ jobs[j].at # "idle"
  /\ jobs' = [jobs EXCEPT ![j] = Idle]
  /\ UNCHANGED <<store, jsonError, results, runs, touched>>

-----------------------------------------------------------------------------
(* SerializerDemoService *)

\* The jobs that have written and read back.
ReadingBack == {j \in Job : jobs[j].at \notin {"idle", "set"}}

\* What j writes is under the eyes of the others of its kind.
Touches(j) == touched' = touched \union {i \in ReadingBack \ {j} : i[2] = j[2]}

Finishes(j, p, bypass) ==
  /\ results' = [results EXCEPT ![j] =
       [done |-> TRUE, mine |-> p.mine, raw |-> p.raw, decoded |-> p.decoded, bypass |-> bypass,
        survived |-> Active = "msgpack" /\ p.decoded = Dated]]
  /\ jobs' = [jobs EXCEPT ![j] = Idle]

SetDemo(j) ==
  /\ jobs[j].at = "set" /\ jobs[j].mine # EmptyObject
  /\ store' = [store EXCEPT ![KeyOf[j[2]]] = jobs[j].mine]
  /\ jobs' = [jobs EXCEPT ![j].at = "getRaw"]
  /\ Touches(j)
  /\ UNCHANGED <<jsonError, results, runs>>

GetRaw(j) ==
  /\ jobs[j].at = "getRaw"
  /\ jobs' = [jobs EXCEPT ![j].at = "get", ![j].raw = store[KeyOf[j[2]]]]
  /\ UNCHANGED <<store, jsonError, results, runs, touched>>

\* The caveat ends here, and so does a round trip whose key was evicted.
GetDecoded(j) ==
  LET p == [jobs[j] EXCEPT !.decoded = store[KeyOf[j[2]]]] IN
  /\ jobs[j].at = "get"
  /\ IF j[2] = "caveat" \/ p.raw = Gone
       THEN Finishes(j, p, Gone)
       ELSE jobs' = [jobs EXCEPT ![j] = [p EXCEPT !.at = "setRaw"]] /\ UNCHANGED results
  /\ UNCHANGED <<store, jsonError, runs, touched>>

SetBypass(j) ==
  /\ jobs[j].at = "setRaw"
  /\ store' = [store EXCEPT !["raw"] = jobs[j].raw]
  /\ jobs' = [jobs EXCEPT ![j].at = "getBypass"]
  /\ Touches(j)
  /\ UNCHANGED <<jsonError, results, runs>>

GetBypass(j) ==
  /\ jobs[j].at = "getBypass"
  /\ Finishes(j, jobs[j], store["raw"])
  /\ UNCHANGED <<store, jsonError, runs, touched>>

\* A flush of the namespace, a delete, an eviction.
Removed(k) ==
  /\ store[k] # Gone
  /\ store' = [store EXCEPT ![k] = Gone]
  /\ touched' = touched \union ReadingBack
  /\ UNCHANGED <<jsonError, jobs, results, runs>>

SerializerNext ==
  \/ \E t \in LabTab :
       \/ \E text \in Input : HandleRoundtrip(t, text)
       \/ RunCaveat(t)
  \/ \E j \in Job : Fails(j) \/ SetDemo(j) \/ GetRaw(j) \/ GetDecoded(j) \/ SetBypass(j) \/ GetBypass(j)
  \/ \E k \in DemoKey : Removed(k)

SerializerSpec == SerializerInit /\ [][SerializerNext]_serializerVars

-----------------------------------------------------------------------------
\* serializer-demo.service.ts, SerializerView.tsx: what a tab shows of its last run
\* is of what that run sent.  Unless another request of the same endpoint, or a
\* removal, came between its commands, the raw string, the decoded value and the
\* bypassed string are of one payload, the one submitted; a Date is reported lost
\* only under JSON; and, whatever came between, it is reported kept only under
\* msgpack, and nothing is bypassed that was not read.
RoundTripWhole ==
  \A j \in Job : results[j].done =>
    LET r == results[j] IN
    /\ j \notin touched => /\ r.raw = r.mine /\ r.decoded = r.mine
                           /\ j[2] = "roundtrip" => r.bypass = r.mine
                           /\ j[2] = "caveat" => (r.survived <=> Active = "msgpack")
    /\ r.survived => Active = "msgpack"
    /\ r.raw = Gone => r.bypass = Gone
=============================================================================
