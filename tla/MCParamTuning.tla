--------------------------- MODULE MCParamTuning ---------------------------
(* Model values for the parameter round trip.                              *)
EXTENDS ParamTuning, TLC

CONSTANTS h1, h2

MCOneHandler  == {h1}
MCTwoHandlers == {h1, h2}

(* The server starts one thread per request; they run the same code.       *)
MCSymmetry == Permutations(MCTwoHandlers)
=============================================================================
