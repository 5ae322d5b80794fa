------------------------------ MODULE RangeRead ------------------------------
(***************************************************************************)
(* What GetEntriesByIndexRange promises its callers, without bundles: the  *)
(* call answers in one step, with the consecutive entries after start up   *)
(* to one of ReadEnds, in the log as it is in that step. A range between   *)
(* two checkpoints is never refused for want of entries; a fault may break *)
(* any call before it answers. TileReader implements it.                   *)
(***************************************************************************)
EXTENDS Tiles

CONSTANTS MaxSize, PrunesBundles

VARIABLES
  size,               \* size of the log
  state,              \* of the call: idle, reading, returned, failed, broken
  byUser, start, end, \* its arguments, as in TileReader
  result              \* what it returned

callVars == <<state, byUser, start, end, result>>
vars == <<size, callVars>>

Init ==
  /\ size \in 0..MaxSize
  /\ state = "idle" /\ byUser = FALSE /\ start = -1 /\ end = -1 /\ result = <<>>

Grow ==
  /\ \E n \in size + 1 .. MaxSize : size' = n
  /\ UNCHANGED callVars

\* Empty and reversed ranges need no answer of the log.
Ask(s, e, user) ==
  /\ state = "idle"
  /\ user \/ (s < size /\ e < size)
  /\ start' = s /\ end' = e /\ byUser' = user
  /\ state' = CASE s > e -> "failed"
                [] s = e -> "returned"
                [] OTHER -> "reading"
  /\ UNCHANGED <<size, result>>

\* Only a discarded bundle makes the answer to a range between checkpoints overshoot.
Answer ==
  /\ state = "reading" /\ state' = "returned"
  /\ \E last \in ReadEnds(end, size) :
       /\ last = end \/ byUser \/ PrunesBundles
       /\ result' = [k \in 1..(last - start) |-> start + k]
  /\ UNCHANGED <<size, byUser, start, end>>

\* The log ends before the range, or within the tile of an end that is no checkpoint's.
Refuse ==
  /\ state = "reading" /\ state' = "failed"
  /\ byUser
  /\ end >= size \/ TileEnd(GetTileIndex(end)) > size
  /\ UNCHANGED <<size, byUser, start, end, result>>

\* A request failed or an entry did not decode: no part of the range is returned.
Break ==
  /\ state = "reading" /\ state' = "broken"
  /\ UNCHANGED <<size, byUser, start, end, result>>

Return ==
  /\ state \in {"returned", "failed", "broken"}
  /\ state' = "idle" /\ byUser' = FALSE /\ start' = -1 /\ end' = -1 /\ result' = <<>>
  /\ UNCHANGED size

Next ==
  \/ Grow
  \/ \E s, e \in -1..(MaxSize - 1), user \in BOOLEAN : Ask(s, e, user)
  \/ Answer \/ Refuse \/ Break \/ Return

Spec == Init /\ [][Next]_vars
==============================================================================
