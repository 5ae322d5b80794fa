------------------------------ MODULE MCNotifier ------------------------------
(* Instances of Notifier for TLC. *)
EXTENDS Notifier

TwoSubs == {1, 2}

\* A mailbox that refuses every mail, and a host that now and then answers in vain.
HostAnswers ==
  [d \in Dest |-> IF d \in Mailbox THEN {"refused"} ELSE {"accepted", "lost"}]
==============================================================================
