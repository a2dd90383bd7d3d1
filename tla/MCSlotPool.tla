----------------------------- MODULE MCSlotPool -----------------------------
(* Messages are compared and stored only, so they may be exchanged.        *)
EXTENDS SlotPool, TLC

MsgSymmetry == Permutations(Msgs)
=============================================================================
