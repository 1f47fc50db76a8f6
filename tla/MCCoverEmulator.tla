-------------------------- MODULE MCCoverEmulator --------------------------
(* CoverEmulator on a small instance, whose sets are in the cfg file: three      *)
(* requests, so that one may wait for each lock while the third moves the cover. *)
EXTENDS CoverEmulator
=============================================================================
