---------------------------- MODULE MCMonitorLoop ----------------------------
(* Instances of MonitorLoop for TLC. *)
EXTENDS MonitorLoop

\* A user configures a start, an end, or both, inside a tile or at the end of one.
SomeRanges == {<<0, None>>, <<2, None>>, <<None, 1>>, <<0, 1>>, <<0, 2>>}
==============================================================================
