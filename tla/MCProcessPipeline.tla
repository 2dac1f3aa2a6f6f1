------------------------- MODULE MCProcessPipeline -------------------------
(* Two jobs or requests of the lawsuit at a time, as many after each other  *)
(* as one likes.                                                            *)
EXTENDS ProcessPipeline, TLC

CONSTANTS c1, c2

MCFaults == {"dies", "full"}
NoFaults == {}

\* Which of the concurrent calls does it is all the same.
CallSymmetry == Permutations(Calls)
=============================================================================
