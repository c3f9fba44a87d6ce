-------------------------------- MODULE ErrorLab --------------------------------
(***************************************************************************)
(* The error catalogue: ErrorsView of a tab, which triggers error codes, and *)
(* ErrorsDemoService, which makes the library raise each of them, or throws  *)
(* it itself, marked as simulated.  Requests for different codes overlap.    *)
(***************************************************************************)
EXTENDS Integers, FiniteSets

CONSTANTS
  Code,          \* error codes of the catalogue
  Way,           \* how each is triggered, one of Ways
  FlushGuard,    \* the code of the production flush guard
  JsonCodec,     \* CACHE_SERIALIZER is json
  Cluster,       \* CACHE_MODE is cluster
  MaxTriggers    \* bound: requests sent

\* The triggers table: the library raises it; setRaw of a corrupt payload and a
\* get of it; set of a value JSON cannot encode; the cluster's guard; simulated.
Ways == {"raises", "corrupt", "serialize", "cluster", "simulate"}

ASSUME ErrorAssumption ==
  /\ Way \in [Code -> Ways] /\ FlushGuard \in Code
  /\ JsonCodec \in BOOLEAN /\ Cluster \in BOOLEAN /\ MaxTriggers \in Nat

VARIABLES
  corrupted,   \* is the corrupt demo key in Redis?
  triggers,    \* the requests sent so far, by number
  answers,     \* their answers, NoAnswer before
  selected,    \* trigger.variables: the code of the newest request
  response,    \* trigger.data: its answer
  isProdGuard, \* the checkbox that shows the flush guard's button
  faulted      \* history: requests that failed without the code they were for

errorVars == <<corrupted, triggers, answers, selected, response, isProdGuard, faulted>>

-----------------------------------------------------------------------------
Other == "other"       \* another code, or none of the catalogue's
NoCode == "none"
NoAnswer == [code |-> NoCode, simulated |-> FALSE]
ErrorAnswer == [code : Code \union {Other}, simulated : BOOLEAN]
TriggerNo == 1..MaxTriggers
Trigger == [code : Code, at : {"sent", "written", "answered", "done"}]

Sent == DOMAIN triggers
LastTrigger == Cardinality(Sent)
IsPending == LastTrigger > 0 /\ triggers[LastTrigger].at # "done"

ErrorTypeOK ==
  /\ corrupted \in BOOLEAN /\ isProdGuard \in BOOLEAN
  /\ Sent = 1..LastTrigger /\ LastTrigger <= MaxTriggers
  /\ triggers \in [Sent -> Trigger]
  /\ answers \in [Sent -> ErrorAnswer \union {NoAnswer}]
  /\ selected \in Code \union {NoCode}
  /\ response \in ErrorAnswer \union {NoAnswer}
  /\ faulted \subseteq Sent

ErrorInit ==
  /\ corrupted = FALSE /\ triggers = <<>> /\ answers = <<>>
  /\ selected = NoCode /\ response = NoAnswer /\ isProdGuard = FALSE /\ faulted = {}

-----------------------------------------------------------------------------
(* ErrorsView *)

\* mutate: the newest request is the one the page shows.
Mutation(c) ==
  /\ LastTrigger < MaxTriggers
  /\ triggers' = [i \in 1..(LastTrigger + 1) |->
                    IF i \in Sent THEN triggers[i] ELSE [code |-> c, at |-> "sent"]]
  /\ answers' = [i \in 1..(LastTrigger + 1) |-> IF i \in Sent THEN answers[i] ELSE NoAnswer]
  /\ selected' = c /\ response' = NoAnswer
  /\ UNCHANGED <<corrupted, isProdGuard, faulted>>

\* A row's button is disabled while the newest request is pending and its own.
TriggerRow(c) == ~(IsPending /\ selected = c) /\ Mutation(c)

ToggleProdGuard ==
  /\ isProdGuard' = ~isProdGuard
  /\ UNCHANGED <<corrupted, triggers, answers, selected, response, faulted>>

\* The button under the checkbox is never disabled.
TriggerFlushGuard == isProdGuard /\ Mutation(FlushGuard)

-----------------------------------------------------------------------------
(* ErrorsDemoService *)

Responds(i, code, simulated) ==
  /\ triggers' = [triggers EXCEPT ![i].at = "answered"]
  /\ answers' = [answers EXCEPT ![i] = [code |-> code, simulated |-> simulated]]

\* A code whose trigger is one call, or a throw of its own.
RaiseAtOnce(i) ==
  LET c == triggers[i].code IN
  /\ triggers[i].at = "sent" /\ Way[c] # "corrupt"
  /\ Responds(i, c, \/ Way[c] = "simulate"
                    \/ Way[c] = "serialize" /\ ~JsonCodec
                    \/ Way[c] = "cluster" /\ ~Cluster)
  /\ UNCHANGED <<corrupted, selected, response, isProdGuard, faulted>>

WriteCorrupt(i) ==
  /\ triggers[i].at = "sent" /\ Way[triggers[i].code] = "corrupt"
  /\ corrupted' = TRUE
  /\ triggers' = [triggers EXCEPT ![i].at = "written"]
  /\ UNCHANGED <<answers, selected, response, isProdGuard, faulted>>

\* Mutant: a trigger that does not raise is no error.
BugNotForced(i) ==
  /\ triggers[i].at = "written"
  /\ Responds(i, IF corrupted THEN triggers[i].code ELSE Other, FALSE)
  /\ UNCHANGED <<corrupted, selected, response, isProdGuard, faulted>>

\* Without the key there is nothing to decode: trigger() throws the code itself.  With it,
\* the MessagePack codec throws an error without a code.
ReadCorrupt(i) ==
  LET coded == JsonCodec \/ ~corrupted
  IN  /\ triggers[i].at = "written"
      /\ Responds(i, IF coded THEN triggers[i].code ELSE Other, ~corrupted)
      /\ faulted' = IF coded THEN faulted ELSE faulted \union {i}
      /\ UNCHANGED <<corrupted, selected, response, isProdGuard>>

\* A command of the trigger fails for a reason of its own.
CommandFails(i) ==
  /\ triggers[i].at \in {"sent", "written"} /\ Way[triggers[i].code] \in {"raises", "corrupt"}
  /\ Responds(i, Other, FALSE)
  /\ faulted' = faulted \union {i}
  /\ UNCHANGED <<corrupted, selected, response, isProdGuard>>

\* The key lapses (it has a short TTL) or is flushed.
CorruptGone ==
  /\ corrupted /\ corrupted' = FALSE
  /\ UNCHANGED <<triggers, answers, selected, response, isProdGuard, faulted>>

-----------------------------------------------------------------------------
(* The answer comes back *)

\* Mutant: whatever answer arrives is shown.
BugLastArrival(i, answer) ==
  /\ response' = answer
  /\ triggers' = [triggers EXCEPT ![i].at = "done"]
  /\ UNCHANGED <<corrupted, answers, selected, isProdGuard, faulted>>

\* Only the newest request's answer is shown; an error of the network shows none.
Settles(i, answer) ==
  /\ response' = IF i = LastTrigger THEN answer ELSE response
  /\ triggers' = [triggers EXCEPT ![i].at = "done"]
  /\ UNCHANGED <<corrupted, answers, selected, isProdGuard, faulted>>

AnswerArrives(i) == triggers[i].at = "answered" /\ Settles(i, answers[i])
NetworkFails(i)  == triggers[i].at \in {"sent", "answered"} /\ Settles(i, NoAnswer)

ErrorNext ==
  \/ \E c \in Code : TriggerRow(c)
  \/ ToggleProdGuard \/ TriggerFlushGuard \/ CorruptGone
  \/ \E i \in Sent : \/ RaiseAtOnce(i) \/ WriteCorrupt(i) \/ ReadCorrupt(i) \/ CommandFails(i)
                     \/ AnswerArrives(i) \/ NetworkFails(i)

ErrorSpec == ErrorInit /\ [][ErrorNext]_errorVars

-----------------------------------------------------------------------------
\* ErrorsView.tsx, errors-demo.service.ts: however the requests overlap and in
\* whatever order their answers come, the page never shows one code's answer under
\* another: a response is of the code selected, unless one of its commands failed or
\* the codec threw an error of its own;
\* and while a newer request is under way no older response is left to be read.
ResponseOfSelected ==
  /\ response # NoAnswer => response.code = selected \/ LastTrigger \in faulted
  /\ IsPending => response = NoAnswer
=============================================================================
