-------------------------- MODULE MCSubscriptionAPI ---------------------------
(* Instances of SubscriptionAPI for TLC. *)
EXTENDS SubscriptionAPI, TLC

\* Nothing orders the requests, the users or the names.
Interchangeable == Permutations(Request) \cup Permutations(User) \cup Permutations(Name)
==============================================================================
