------------------------- MODULE MCZeroCopyRuntime -------------------------
(* Model values for the zero-copy runtime alone.                           *)
EXTENDS ZeroCopyRuntime, TLC

CONSTANTS w1, w2, b1, b2

MCWorkers   == {w1, w2}
MCBuffers   == {b1, b2}
MCOneBuffer == {b1}

(* Workers run the same loop and buffers are used alike.                   *)
MCSymmetry == Permutations(MCWorkers) \cup Permutations(MCBuffers)
=============================================================================
