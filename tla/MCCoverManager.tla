--------------------------- MODULE MCCoverManager ---------------------------
(* CoverManager on small instances, whose sets are in the cfg files: two users    *)
(* who get in each other's way, and two covers.                                   *)
EXTENDS CoverManager
=============================================================================
