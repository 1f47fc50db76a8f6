------------------------------ MODULE MCMotion ------------------------------
(* The instance of Motion that TLC checks. *)
EXTENDS Motion
=============================================================================
