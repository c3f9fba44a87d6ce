------------------------------ MODULE RefCounted ------------------------------
(***************************************************************************)
(* What ref-counted subscriptions promise (phase-08 task P8-4: the app's    *)
(* ref count mirrors the library's): a channel has one listener while       *)
(* somebody holds it, and loses it after the last holder left.  A shutdown  *)
(* stops the listeners it finds; holders that come while it waits are       *)
(* forgotten, and their listeners are not stopped.                          *)
(***************************************************************************)
EXTENDS Naturals

CONSTANT Channel

VARIABLES
  stage,      \* "open", "closing" or "closed"
  holders,    \* callers holding each channel
  listeners,  \* library listeners forwarding each channel
  due         \* channels whose listener the shutdown has still to stop

vars == <<stage, holders, listeners, due>>

Init ==
  /\ stage = "open"
  /\ holders = [c \in Channel |-> 0]
  /\ listeners = [c \in Channel |-> 0]
  /\ due = {}

\* Only listeners a shutdown has forgotten may be there before the first holder.
First(c) ==
  /\ holders[c] = 0
  /\ stage # "closed" => listeners[c] = 0
  /\ holders' = [holders EXCEPT ![c] = 1]
  /\ listeners' = [listeners EXCEPT ![c] = @ + 1]
  /\ UNCHANGED <<stage, due>>

Join(c) ==
  /\ holders[c] > 0
  /\ holders' = [holders EXCEPT ![c] = @ + 1]
  /\ UNCHANGED <<stage, listeners, due>>

\* The last holder leaves before its listener is gone.
Leave(c) ==
  /\ holders[c] > 0
  /\ holders' = [holders EXCEPT ![c] = @ - 1]
  /\ UNCHANGED <<stage, listeners, due>>

Silence(c) ==
  /\ holders[c] = 0 /\ listeners[c] > 0
  /\ listeners' = [listeners EXCEPT ![c] = @ - 1]
  /\ due' = due \ {c}
  /\ UNCHANGED <<stage, holders>>

\* A shutdown begins: each listener there is has to go, whoever holds its channel.
Close ==
  /\ stage = "open" /\ stage' = "closing"
  /\ due' = {c \in Channel : listeners[c] > 0}
  /\ UNCHANGED <<holders, listeners>>

Stop(c) ==
  /\ c \in due
  /\ listeners' = [listeners EXCEPT ![c] = @ - 1]
  /\ due' = due \ {c}
  /\ UNCHANGED <<stage, holders>>

\* It ends: every holder is forgotten.
Forget ==
  /\ stage = "closing" /\ due = {}
  /\ stage' = "closed"
  /\ holders' = [c \in Channel |-> 0]
  /\ UNCHANGED <<listeners, due>>

Next ==
  \/ Close \/ Forget
  \/ \E c \in Channel : First(c) \/ Join(c) \/ Leave(c) \/ Silence(c) \/ Stop(c)

\* Nobody holds the channel any more: its delivery stops, unless a shutdown forgets it.
Silenced ==
  \A c \in Channel :
    holders[c] = 0 /\ stage # "closed" ~> listeners[c] = 0 \/ holders[c] > 0 \/ stage = "closed"

\* What a shutdown has found is stopped.
Stopped == \A c \in Channel : c \in due ~> c \notin due

Spec == Init /\ [][Next]_vars /\ Silenced /\ Stopped
=============================================================================
