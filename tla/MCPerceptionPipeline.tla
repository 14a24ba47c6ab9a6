------------------------ MODULE MCPerceptionPipeline ------------------------
(* Model values for the perception pipeline.                               *)
EXTENDS PerceptionPipeline, TLC

CONSTANTS w1, w2, b1, b2

MCWorkers   == {w1, w2}
MCBuffers   == {b1, b2}
MCOneBuffer == {b1}

(* Workers run the same loop and buffers are used alike.                   *)
MCSymmetry == Permutations(MCWorkers) \cup Permutations(MCBuffers)
=============================================================================
