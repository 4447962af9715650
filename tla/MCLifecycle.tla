---------------------------- MODULE MCLifecycle ----------------------------
(* Lifecycle for TLC: two probes, and the files an operator may write. *)
EXTENDS Lifecycle

CONSTANTS p1, p2

MCProbes == {p1, p2}
V(hot, cold) == [hot |-> hot, cold |-> cold]
File(probes, includes) == [probes |-> probes, includes |-> includes, bad |-> FALSE]
Two(v, w) == [p \in MCProbes |-> IF p = p1 THEN v ELSE w]
One(v) == [p \in {p1} |-> v]

Base     == File(Two(V(1, 1), V(1, 1)), 1)
\* A hot-swappable change of one probe, another change of the other, and, from
\* HotEdit to ColdEdit, both.
HotEdit  == File(Two(V(2, 1), V(1, 1)), 1)
ColdEdit == File(Two(V(1, 1), V(1, 2)), 1)
\* Another included file.
Include  == File(Two(V(1, 1), V(1, 1)), 2)
\* A probe less, and a hot-swappable change of the one that is left.
Removed    == File(One(V(1, 1)), 1)
RemovedHot == File(One(V(2, 1)), 1)
Bad        == [Base EXCEPT !.bad = TRUE]

MCFiles == {Base, HotEdit, ColdEdit, Include, Removed, Bad}
MCHot == {Removed, RemovedHot}
MCAdd == {Base, Removed}
=============================================================================
