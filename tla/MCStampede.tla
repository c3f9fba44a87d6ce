------------------------------ MODULE MCStampede ------------------------------
(* Small instances of Stampede for TLC. *)
EXTENDS Stampede, TLC

CONSTANTS a1, a2, a3, c1

\* Two overlapping bursts: A of two contenders, C of one.
TwoBursts == {"A", "C"}
ThreeContenders == {a1, a2, c1}
InTwoBursts == [c \in ThreeContenders |-> IF c = c1 THEN "C" ELSE "A"]

\* One burst of three.
OneBurst == {"A"}
BurstOfThree == {a1, a2, a3}
InOneBurst == [c \in BurstOfThree |-> "A"]
Permute3 == Permutations(BurstOfThree)

\* The lock TTL (lockMs) of each burst, in ticks.
Lock31 == [b \in TwoBursts |-> IF b = "A" THEN 3 ELSE 1]
Lock7  == [b \in {"A"} |-> 7]
Lock77 == [b \in TwoBursts |-> 7]
=============================================================================
