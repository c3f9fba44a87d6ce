----------------------------- MODULE CacheSocket -----------------------------
(***************************************************************************)
(* The dashboard's live feed: useCacheSocket and its RingBuffer.  While the *)
(* Live toggle is on, socket events queue up in a pending array, and one    *)
(* animation frame at a time moves them into a bounded, drop-oldest buffer. *)
(***************************************************************************)
EXTENDS Naturals, Sequences

CONSTANT Capacity   \* BUFFER_CAPACITY

ASSUME CapacityAssumption == Capacity \in Nat \ {0}

VARIABLES
  enabled,  \* the Live toggle, and with it the open socket
  pending,  \* events received since the last flush
  raf,      \* does the hook believe a frame is scheduled?
  frame,    \* has the browser a frame callback for it?
  buffer,   \* the ring, oldest first
  seq       \* the next event's identity; never reset

socketVars == <<enabled, pending, raf, frame, buffer, seq>>

SocketInit ==
  /\ enabled = FALSE
  /\ pending = <<>>
  /\ raf = FALSE
  /\ frame = FALSE
  /\ buffer = <<>>
  /\ seq = 0

\* Mutant: the oldest entries stay, the newest are dropped.
BugTrimNewest(s) == SubSeq(s, 1, IF Len(s) > Capacity THEN Capacity ELSE Len(s))

\* Mutant: nothing is ever dropped.
BugNoTrim(s) == s

\* trim(): the newest Capacity entries.
Trim(s) == SubSeq(s, IF Len(s) > Capacity THEN Len(s) - Capacity + 1 ELSE 1, Len(s))

\* Mutant: identities start again with every connection.
BugSeqReset == enabled' = TRUE /\ seq' = 0

Connect == enabled' = TRUE /\ UNCHANGED seq

\* The effect runs: a new socket, an empty pending array, no frame.
Enable ==
  /\ ~enabled
  /\ Connect
  /\ pending' = <<>> /\ raf' = FALSE
  /\ UNCHANGED <<frame, buffer>>

\* Its cleanup: the frame is cancelled, the socket closed; what is pending is lost.
Disable ==
  /\ enabled
  /\ enabled' = FALSE
  /\ frame' = (frame /\ ~raf)
  /\ pending' = <<>> /\ raf' = FALSE
  /\ UNCHANGED <<buffer, seq>>

\* schedule(): an event of the socket is queued, at most one frame requested.
Receive(kind, key) ==
  /\ enabled
  /\ pending' = Append(pending, [kind |-> kind, key |-> key, seq |-> seq])
  /\ seq' = seq + 1
  /\ frame' = (frame \/ ~raf)
  /\ raf' = TRUE
  /\ UNCHANGED <<enabled, buffer>>

\* Mutant: raf keeps the handle of the frame that has run.
BugRafKept ==
  /\ frame
  /\ frame' = FALSE
  /\ buffer' = Trim(buffer \o pending)
  /\ pending' = <<>>
  /\ UNCHANGED <<enabled, raf, seq>>

\* flush(): the frame callback runs.
Flush ==
  /\ frame
  /\ frame' = FALSE
  /\ buffer' = Trim(buffer \o pending)
  /\ pending' = <<>>
  /\ raf' = FALSE
  /\ UNCHANGED <<enabled, seq>>
=============================================================================
