---------------------------- MODULE SlotLifecycle ----------------------------
(***************************************************************************)
(* What the slot pool promises, whatever threads and locks implement it:   *)
(* every slot goes free -> filling -> full -> reading -> free, one thread  *)
(* at a time, frames are numbered in the order they are filled, and they   *)
(* are taken up for reading in that order.                                 *)
(***************************************************************************)
EXTENDS Naturals

CONSTANT SlotIds

VARIABLES
  owner,    (* who may touch the slot                                      *)
  frame,    (* the frame it holds when it is full or being read            *)
  filled,   (* frames filled so far                                        *)
  taken     (* the last frame somebody began to read                       *)

lifecycleVars == <<owner, frame, filled, taken>>

LifecycleInit ==
  /\ owner = [s \in SlotIds |-> "free"]
  /\ frame = [s \in SlotIds |-> 0]
  /\ filled = 0
  /\ taken = 0

Acquire(s) ==
  /\ owner[s] = "free"
  /\ owner' = [owner EXCEPT ![s] = "filling"]
  /\ UNCHANGED <<frame, filled, taken>>

Abandon(s) ==
  /\ owner[s] = "filling"
  /\ owner' = [owner EXCEPT ![s] = "free"]
  /\ UNCHANGED <<frame, filled, taken>>

Fill(s) ==
  /\ owner[s] = "filling"
  /\ owner' = [owner EXCEPT ![s] = "full"]
  /\ frame' = [frame EXCEPT ![s] = filled + 1]
  /\ filled' = filled + 1
  /\ UNCHANGED taken

(* Frames are read in order, each by one reader.                           *)
Take(s) ==
  /\ owner[s] = "full"
  /\ frame[s] > taken
  /\ owner' = [owner EXCEPT ![s] = "reading"]
  /\ taken' = frame[s]
  /\ UNCHANGED <<frame, filled>>

GiveBack(s) ==
  /\ owner[s] = "reading"
  /\ owner' = [owner EXCEPT ![s] = "free"]
  /\ frame' = [frame EXCEPT ![s] = 0]
  /\ UNCHANGED <<filled, taken>>

(* Shutdown: nobody is inside a slot, and what is full is thrown away.     *)
Discard ==
  /\ \A s \in SlotIds : owner[s] \in {"free", "full"}
  /\ owner' = [s \in SlotIds |-> "free"]
  /\ frame' = [s \in SlotIds |-> 0]
  /\ UNCHANGED <<filled, taken>>

LifecycleNext ==
  \/ \E s \in SlotIds :
       Acquire(s) \/ Abandon(s) \/ Fill(s) \/ Take(s) \/ GiveBack(s)
  \/ Discard

LifecycleSpec == LifecycleInit /\ [][LifecycleNext]_lifecycleVars
=============================================================================
