--------------------------- MODULE MCTaskManager ---------------------------
(* Model checking instances of TaskManager: the bounds come from the cfg. *)
EXTENDS TaskManager
=============================================================================
