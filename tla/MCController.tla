---------------------------- MODULE MCController ----------------------------
(* Controller on small instances: two connections, with commands of one or of    *)
(* both in flight, and configurations of up to two covers, right and wrong ones. *)
EXTENDS Controller

\* A step of 1 is too short for a drop of 1770, and 1001 is no position
MCItems == [name : {"screen", "mask"}, addr : {2, 3}, step : {1, 10}, drop : {1770},
            initial : {Nothing, 400, 1001}, preset : {Nothing, 500, 1001}]

\* ... the last one for a cover that no file lists
MCOverrides == [name : {"screen", "mask"}, pos : {0, 1001}]
                   \cup {[name |-> "screen", pos |-> Nothing], [name |-> "door", pos |-> 0]}

\* The configuration that comes with the emulator, and one that lists no cover
MCDefaultItems == {[name |-> "screen", addr |-> 2, step |-> 10, drop |-> 1770,
                    initial |-> Nothing, preset |-> Nothing]}
=============================================================================
