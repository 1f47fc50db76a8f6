------------------------- MODULE MCSerialConnection -------------------------
(* SerialConnection on small instances, whose sets are in the cfg files. *)
EXTENDS SerialConnection, TLC

\* Clients that connect are interchangeable, those that do not are too, and so are
\* links and readers: used in the run without liveness
Symmetry == Permutations(Connectors) \cup Permutations(Clients \ Connectors)
                \cup Permutations(Links) \cup Permutations(Readers)
=============================================================================
