----------------------------- MODULE MCObservers -----------------------------
(* The instances of Observers that TLC checks: an image that is wider than high, and *)
(* one so narrow that the image of a wide aspect ratio is too low to be seen.        *)
EXTENDS Observers, TLC

MCImageDefs == {[border |-> 0, height |-> 12, aspect |-> 16],
                [border |-> 3, height |-> 30, aspect |-> 3]}

\* Neither notifiers nor watchers are named in Observers
MCSymmetry == Permutations(Notifiers) \cup Permutations(Watchers)
=============================================================================
