------------------------------ MODULE StickOwner ------------------------------
(***************************************************************************)
(* What RcOverride promises the pilot, without polls, latches or threads.  *)
(* The sticks are the pilot's, or the companion's after the override is    *)
(* known to be on, or are being released after it is known to be off.      *)
(* While they are the pilot's, a frame may be withdrawn but none prepared. *)
(***************************************************************************)
VARIABLES owner, frame

Frames == {"none", "sticks", "command"}

Init == owner = "pilot" /\ frame = "none"

TakeOver == owner # "companion" /\ owner' = "companion" /\ UNCHANGED frame

LetGo ==
  /\ owner = "companion" /\ owner' \in {"releasing", "pilot"}
  /\ UNCHANGED frame

Released == owner = "releasing" /\ owner' = "pilot" /\ UNCHANGED frame

Prepare ==
  /\ owner # "pilot" /\ frame' \in Frames
  /\ UNCHANGED owner

Withdraw == frame' = "none" /\ UNCHANGED owner

Next == TakeOver \/ LetGo \/ Released \/ Prepare \/ Withdraw

Spec == Init /\ [][Next]_<<owner, frame>>
=============================================================================
