---------------------------- MODULE MCContainers ----------------------------
(* Containers for TLC: two containers that match and one that does not. *)
EXTENDS Containers

CONSTANTS c1, c2, c3, n1, n2

\* One container may be started again.
MCLives == [c \in Containers |-> IF c = c1 THEN 2 ELSE 1]
=============================================================================
