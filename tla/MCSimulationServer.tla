------------------------- MODULE MCSimulationServer -------------------------
(* Instances of SimulationServer for TLC. *)
EXTENDS SimulationServer, TLC

\* Run ids are interchangeable: nothing in the code compares them but for equality.
RunSymmetry == Permutations(Runs)
=============================================================================
