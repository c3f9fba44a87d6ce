---------------------------- MODULE ConnectionStatus ----------------------------
(***************************************************************************)
(* The badge of StatusChip and ConnectionView: the newest lifecycle event in *)
(* the live buffer wins over the polled health.  The events come from the    *)
(* library (CacheEventsBridge) over the gateway, to the tabs that are Live.  *)
(***************************************************************************)
EXTENDS CacheSocket

CONSTANT MaxSeq   \* bound: events received

ASSUME StatusAssumption == MaxSeq \in Nat

VARIABLES
  conn,    \* the API's connection to Redis: its newest lifecycle event
  health,  \* the cached answer of GET /health, "none" before the first
  probe,   \* the answers the GET /health under way may bring, {} if none is
  probed,  \* history: was that request sent since conn changed?
  polled,  \* history: was the one health answers?
  missed   \* history: was the newest event the tab did not get lost to it for good?

statusVars == <<socketVars, conn, health, probe, probed, polled, missed>>

-----------------------------------------------------------------------------
Lifecycle == {"connect", "ready", "reconnecting", "close", "end"}
Events    == Lifecycle \union {"error"}
Entry     == [kind : {"connection", "message"}, key : Events \union {"none"}, seq : 0..MaxSeq]

StatusTypeOK ==
  /\ enabled \in BOOLEAN /\ raf \in BOOLEAN /\ frame \in BOOLEAN
  /\ pending \in Seq(Entry) /\ buffer \in Seq(Entry) /\ Len(buffer) <= Capacity
  /\ seq \in 0..MaxSeq
  /\ conn \in Lifecycle
  /\ health \in {"none", "ready", "error"}
  /\ probe \in SUBSET {"ready", "error"}
  /\ probed \in BOOLEAN /\ polled \in BOOLEAN /\ missed \in BOOLEAN

StatusInit ==
  /\ SocketInit
  /\ conn = "connect" /\ missed = FALSE
  /\ health = "none" /\ probe = {} /\ probed = FALSE /\ polled = FALSE

\* The lifecycle of the library's connection: it ends only when the API does.
Follows ==
  [connect |-> {"ready", "close"}, ready |-> {"close"}, close |-> {"reconnecting", "end"},
   reconnecting |-> {"connect", "close"}, end |-> {}]

\* gateway.emitConnectionEvent: to the tab if it is Live, to nobody otherwise.
Emit(event) ==
  IF enabled THEN seq < MaxSeq /\ Receive("connection", event) ELSE UNCHANGED socketVars

\* A poll asks isHealthy and a ping, which wait for a connection that is not ready; it
\* may fail or find Redis degraded on a ready one.
Answers == IF conn = "ready" THEN {"ready", "error"} ELSE {"error"}

ConnectionChanges ==
  /\ \E event \in Follows[conn] : conn' = event /\ Emit(event)
  /\ probe' = IF probe = {} THEN {} ELSE probe \union Answers'
  /\ probed' = FALSE /\ polled' = FALSE
  /\ missed' = ~enabled
  /\ UNCHANGED health

\* An error event changes no state: a failed attempt to connect, and also a
\* Pub/Sub handler that throws (POST /pubsub/throw) on a healthy connection.
ErrorReported ==
  /\ Emit("error")
  /\ UNCHANGED <<conn, health, probe, probed, polled, missed>>

\* Messages and expiries share the buffer.
OtherEvent ==
  /\ seq < MaxSeq /\ Receive("message", "none")
  /\ UNCHANGED <<conn, health, probe, probed, polled, missed>>

GoLive == Enable /\ UNCHANGED <<conn, health, probe, probed, polled, missed>>

\* What was pending is lost.
StopLive ==
  /\ Disable
  /\ missed' = (missed \/ \E i \in 1..Len(pending) : pending[i].key \in Lifecycle)
  /\ UNCHANGED <<conn, health, probe, probed, polled>>

ShowFrame == Flush /\ UNCHANGED <<conn, health, probe, probed, polled, missed>>

\* The refetch interval of the health query; one request of a key at a time.
PollHealth ==
  /\ probe = {}
  /\ probe' = Answers /\ probed' = TRUE
  /\ UNCHANGED <<socketVars, conn, health, polled, missed>>

HealthArrives ==
  /\ health' \in probe
  /\ polled' = probed
  /\ probe' = {} /\ probed' = FALSE
  /\ UNCHANGED <<socketVars, conn, missed>>

StatusNext ==
  \/ ConnectionChanges \/ ErrorReported \/ OtherEvent
  \/ GoLive \/ StopLive \/ ShowFrame \/ PollHealth \/ HealthArrives

StatusSpec == StatusInit /\ [][StatusNext]_statusVars

-----------------------------------------------------------------------------
(* The badge *)

Newest(S) == CHOOSE i \in S : \A j \in S : j <= i
ConnectionEvents == {i \in 1..Len(buffer) : buffer[i].kind = "connection"}

\* Mutant: the oldest event of the buffer.
BugFirst == IF ConnectionEvents = {} THEN "none"
            ELSE buffer[CHOOSE i \in ConnectionEvents : \A j \in ConnectionEvents : i <= j].key

\* findLast, over the buffer
LastConnection == IF ConnectionEvents = {} THEN "none" ELSE buffer[Newest(ConnectionEvents)].key

\* eventToConnectionState
StateOf ==
  [ready |-> "ready", connect |-> "connecting", reconnecting |-> "reconnecting",
   close |-> "closed", end |-> "end", error |-> "error"]

Badge == IF LastConnection # "none" THEN StateOf[LastConnection]
         ELSE IF health # "none" THEN health ELSE "connecting"

\* StatusChip.tsx, ConnectionView.tsx: once the frame has run and an answer to a poll
\* of this connection is there, the badge says what the connection is, whatever else
\* went through the buffer and however late earlier answers came, or it says "error",
\* which a failed poll or an error event does of a ready connection too; unless it
\* rests on an event that a later one, which did not reach the tab, has belied.
BadgeTracks ==
  pending = <<>> /\ polled /\ (missed => LastConnection = "none") =>
    Badge \in {StateOf[conn], "error"}
=============================================================================
