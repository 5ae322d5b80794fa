------------------------------ MODULE MCLogWatch ------------------------------
(* Instances of LogWatch for TLC. *)
EXTENDS LogWatch, TLC

OneShard == {"log"}
TwoShards == {"old", "new"}
OneValue == {"v"}
TwoValues == {"v", "w"}
OneSub == {1}
OldShard == {"old"}

\* Subscriptions are interchangeable: nothing depends on the order of their ids.
SubSymmetry == Permutations(SubId)

\* Every entry matches "v"; only even entries match the other values.
MCHits == [o \in Shard |-> [i \in Index |-> IF i % 2 = 0 THEN Value ELSE Value \cap {"v"}]]

\* No entry of any shard, the second one of each, or the first one of "old".
NoEntry == [o \in Shard |-> {}]
SecondEntry == [o \in Shard |-> {1} \cap Index]
FirstOfOld == [o \in Shard |-> IF o = "old" THEN {0} \cap Index ELSE {}]
==============================================================================
