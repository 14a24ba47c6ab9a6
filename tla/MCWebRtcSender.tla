---------------------------- MODULE MCWebRtcSender ----------------------------
(* Model values for the WebRTC sender.                                     *)
EXTENDS WebRtcSender, TLC

CONSTANTS o1, o2

MCOffers == {o1, o2}

(* Offers are handled alike.                                               *)
MCSymmetry == Permutations(MCOffers)
=============================================================================
