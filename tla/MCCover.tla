------------------------------ MODULE MCCover ------------------------------
(* Cover on a small instance, whose sets are in the cfg files: two coroutines,  *)
(* of which one may wait for the lock while the other waits for a task.  There  *)
(* is no symmetry reduction, which would not be sound for liveness.             *)
EXTENDS Cover
=============================================================================
