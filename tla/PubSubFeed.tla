------------------------------ MODULE PubSubFeed ------------------------------
(***************************************************************************)
(* A message from POST /pubsub/publish to the rows of the Pub/Sub page: Redis *)
(* hands it to every open subscription that covers its channel, the bridge's  *)
(* handlers pass each copy to the gateway, which tells the tabs that are Live, *)
(* and PublishCard shows how many there were.  PubSubBridge counts who holds a *)
(* subscription; here one is open or not.  Redis and the library are external. *)
(***************************************************************************)
EXTENDS CacheSocket, FiniteSets

CONSTANTS
  Channel,       \* channels
  Subscription,  \* exact and pattern subscriptions
  Covers,        \* the channels each covers
  Throwing,      \* those whose handler throws
  MaxMsgs,       \* bound: messages published
  MaxCuts        \* bound: losses of the subscriber's connection

ASSUME FeedAssumption ==
  /\ Channel # {} /\ IsFiniteSet(Subscription)
  /\ Covers \in [Subscription -> SUBSET Channel] /\ Throwing \subseteq Subscription
  /\ MaxMsgs \in Nat /\ MaxCuts \in Nat

VARIABLES
  open,       \* subscriptions that have their handler
  reachable,  \* is the subscriber's connection up?
  published,  \* the subscriptions each message was handed to
  sending,    \* messages on their way to the API, with the copies not yet handled
  card,       \* PublishCard: its mutation, the channel it is for, the message it made
  cuts,
  whole       \* history: messages none of whose copies was lost to the tab

feedVars == <<socketVars, open, reachable, published, sending, card, cuts, whole>>

-----------------------------------------------------------------------------
Message == 1..MaxMsgs
None    == 0

\* PublishCard without a number to show.
NoAnswer == [at |-> "idle", channel |-> CHOOSE c \in Channel : TRUE, msg |-> None]

FeedTypeOK ==
  /\ enabled \in BOOLEAN /\ raf \in BOOLEAN /\ frame \in BOOLEAN
  /\ pending \in Seq([kind : {"message", "connection"}, key : Message \union {None}, seq : Nat])
  /\ Len(buffer) <= Capacity
  /\ open \subseteq Subscription /\ reachable \in BOOLEAN
  /\ published \in Seq(SUBSET Subscription) /\ Len(published) <= MaxMsgs
  /\ sending \in Seq([msg : Message, to : SUBSET Subscription])
  /\ card \in [at : {"idle", "posted", "answered"}, channel : Channel, msg : 0..MaxMsgs]
  /\ cuts \in 0..MaxCuts /\ whole \subseteq 1..Len(published)

\* onModuleInit has subscribed.
FeedInit ==
  /\ SocketInit
  /\ open = Subscription /\ reachable = TRUE
  /\ published = <<>> /\ sending = <<>>
  /\ card = NoAnswer
  /\ cuts = 0 /\ whole = {}

\* Copies of message m on the socket, or in the buffer.
Copies(m, s) == Cardinality({i \in DOMAIN s : s[i].kind = "message" /\ s[i].key = m})

-----------------------------------------------------------------------------
(* Subscriptions, as the requests of all tabs leave them *)

Subscribe(s) ==
  /\ s \notin open /\ open' = open \union {s}
  /\ UNCHANGED <<socketVars, reachable, published, sending, card, cuts, whole>>

\* The copies on their way to the handler find none.
Unsubscribe(s) ==
  /\ s \in open /\ open' = open \ {s}
  /\ whole' = {m \in whole : \A i \in DOMAIN sending : sending[i].msg = m => s \notin sending[i].to}
  /\ UNCHANGED <<socketVars, reachable, published, sending, card, cuts>>

CutLink ==
  /\ reachable /\ cuts < MaxCuts
  /\ reachable' = FALSE /\ cuts' = cuts + 1 /\ sending' = <<>>
  /\ whole' = whole \ {sending[i].msg : i \in DOMAIN sending}
  /\ UNCHANGED <<socketVars, open, published, card>>

\* The subscriber connects again, and subscribes again.
MendLink ==
  /\ ~reachable /\ reachable' = TRUE
  /\ UNCHANGED <<socketVars, open, published, sending, card, cuts, whole>>

-----------------------------------------------------------------------------
(* Publishing *)

\* Redis answers how many subscriptions the message was handed to.
PublishAt(channel) ==
  LET to == IF reachable THEN {s \in open : channel \in Covers[s]} ELSE {}
      m  == Len(published) + 1
  IN  /\ m <= MaxMsgs
      /\ published' = Append(published, to)
      /\ sending' = IF to = {} THEN sending ELSE Append(sending, [msg |-> m, to |-> to])
      /\ whole' = whole \union {m}

\* Another tab publishes, or POST /pubsub/throw does.
PublishElsewhere(channel) ==
  /\ PublishAt(channel)
  /\ UNCHANGED <<socketVars, open, reachable, card, cuts>>

\* handlePublish; the button is disabled while the mutation is pending.  A payload
\* that is no JSON is not sent, and the last answer stays.
HandlePublish(channel) ==
  /\ card.at # "posted"
  /\ card' = [at |-> "posted", channel |-> channel, msg |-> None]
  /\ UNCHANGED <<socketVars, open, reachable, published, sending, cuts, whole>>

ServePublish ==
  /\ card.at = "posted" /\ card.msg = None
  /\ PublishAt(card.channel)
  /\ card' = [card EXCEPT !.msg = Len(published) + 1]
  /\ UNCHANGED <<socketVars, open, reachable, cuts>>

\* The message may be out when the answer fails.
AnswerPublish ==
  /\ card.at = "posted"
  /\ \/ card.msg # None /\ card' = [NoAnswer EXCEPT !.at = "answered", !.msg = card.msg]
     \/ card' = NoAnswer
  /\ UNCHANGED <<socketVars, open, reachable, published, sending, cuts, whole>>

\* PublishCard's "delivered to": the number in the answer.
Delivered == Cardinality(published[card.msg])

-----------------------------------------------------------------------------
(* Delivery *)

\* gateway.emitMessage and the library's report of a handler that threw.
EmitToTab(kind, key) ==
  IF enabled THEN Receive(kind, key) ELSE UNCHANGED socketVars

\* Mutant: the messages overtake one another.
BugAnyTurn == IF sending = <<>> THEN {} ELSE DOMAIN sending

\* One connection: messages are handled in the order Redis sent them.
Turn == IF sending = <<>> THEN {} ELSE {1}

\* forward, forwardPattern and the demo handler, which throws.
DeliverCopy(i, s) ==
  LET m    == sending[i].msg
      rest == sending[i].to \ {s}
  IN  /\ reachable /\ s \in sending[i].to
      /\ sending' = IF rest = {} THEN SubSeq(sending, 1, i - 1) \o SubSeq(sending, i + 1, Len(sending))
                                 ELSE [sending EXCEPT ![i] = [msg |-> m, to |-> rest]]
      /\ IF s \notin open THEN UNCHANGED <<socketVars, whole>>
         ELSE IF s \in Throwing THEN EmitToTab("connection", None) /\ UNCHANGED whole
         ELSE EmitToTab("message", m) /\ whole' = IF enabled THEN whole ELSE whole \ {m}
      /\ UNCHANGED <<open, reachable, published, card, cuts>>

DeliverNext == \E i \in Turn : \E s \in sending[i].to : DeliverCopy(i, s)

-----------------------------------------------------------------------------
(* The tab *)

\* Messages none of whose copies is in a left out.
Kept(all, left) == {m \in whole : Copies(m, left) = Copies(m, all)}

ToggleLive ==
  /\ Enable \/ Disable
  /\ whole' = Kept(buffer \o pending, buffer \o pending')
  /\ UNCHANGED <<open, reachable, published, sending, card, cuts>>

FlushFeed ==
  /\ Flush
  /\ whole' = Kept(buffer \o pending, buffer')
  /\ UNCHANGED <<open, reachable, published, sending, card, cuts>>

FeedNext ==
  \/ \E s \in Subscription : Subscribe(s) \/ Unsubscribe(s)
  \/ CutLink \/ MendLink
  \/ \E channel \in Channel : PublishElsewhere(channel) \/ HandlePublish(channel)
  \/ ServePublish \/ AnswerPublish \/ DeliverNext
  \/ ToggleLive \/ FlushFeed

FeedSpec == FeedInit /\ [][FeedNext]_feedVars

-----------------------------------------------------------------------------
\* What the tab has got, oldest first, and the page's rows: the messages in it.
Stream == buffer \o pending
Rows   == {i \in DOMAIN Stream : Stream[i].kind = "message"}

Underway(m) == UNION {sending[i].to : i \in {j \in DOMAIN sending : sending[j].msg = m}}

\* Copies of message m that must have been emitted by now.
Due(m) == (published[m] \ Underway(m)) \ Throwing

\* pubsub.bridge.service.ts, PubSubView.tsx: the rows are the published messages in
\* their order, and a message has a row for each subscription it was handed to, at
\* most; exactly that many, but for the handlers that throw, when the tab was Live
\* and the connection up until all were delivered, nobody unsubscribed and no row
\* was dropped.  What PublishCard says then is what the feed shows.
MessagesArrive ==
  /\ \A i, j \in Rows : i < j => Stream[i].key <= Stream[j].key
  /\ \A m \in 1..Len(published) :
       /\ Copies(m, Stream) <= Cardinality(Due(m))
       /\ m \in whole => Copies(m, Stream) = Cardinality(Due(m))
  /\ card.at = "answered" /\ card.msg \in whole /\ Underway(card.msg) = {} =>
       Copies(card.msg, Stream) = Delivered - Cardinality(published[card.msg] \intersect Throwing)
=============================================================================
