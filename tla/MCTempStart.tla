----------------------------- MODULE MCTempStart -----------------------------
(* One container, two SFTP sessions and a file-manager request.              *)
EXTENDS TempStart

CONSTANTS s1, s2, q1, c1

MCSessions == {s1, s2}
MCRequests == {q1}
MCContainers == {c1}

OneRef == {"name"}
ToTheContainer == [r \in Refs |-> c1]
=============================================================================
