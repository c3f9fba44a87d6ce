---------------------------- MODULE MCPubSubBridge ----------------------------
(* Small instances of PubSubBridge for TLC. *)
EXTENDS PubSubBridge, TLC

CONSTANTS t1, t2, pattern, orders

Tabs == {t1, t2}
Turns == Permutations(Tabs)

\* A boot default, and a channel that only tabs subscribe.
MixedChannels == {pattern, orders}
MixedRows == {<<pattern, TRUE>>, <<orders, FALSE>>}
PatternDefault == <<<<pattern, TRUE>>>>
\* The boot default alone.
OneChannel == {pattern}
OneRow == {<<pattern, TRUE>>}

OnlyOrders == {orders}
=============================================================================
