------------------------------- MODULE MCLogin --------------------------------
(* Instances of Login for TLC. *)
EXTENDS Login, TLC

\* Nothing orders the requests or the addresses.
Interchangeable == Permutations(Request) \cup Permutations(Email)
==============================================================================
