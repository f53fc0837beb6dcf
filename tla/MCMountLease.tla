---------------------------- MODULE MCMountLease ----------------------------
(* One container, addressed by its name and by its id.                       *)
EXTENDS MountLease

CONSTANTS s1, s2, q1, c1

MCSessions == {s1, s2}
MCRequests == {q1}
MCContainers == {c1}

TwoRefs == {"name", "id"}
ToTheContainer == [r \in Refs |-> c1]
=============================================================================
