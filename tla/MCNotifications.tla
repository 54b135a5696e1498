-------------------------- MODULE MCNotifications --------------------------
(* A small instance of Notifications for TLC. *)
EXTENDS Notifications, TLC

Symmetric == Permutations(Senders) \cup Permutations(Workers) \cup Permutations(Reachable)
=============================================================================
