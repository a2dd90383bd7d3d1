------------------------------- MODULE Common -------------------------------
(* What all parts of the request path share: the slots, the VMCF messages. *)
EXTENDS Integers

CONSTANTS
  MAX_REQUEST_COUNT, \* number of request slots of the inside proxy (128)
  Msgs,              \* VMCF message ids the client machines use
  NoMsg,             \* the msgId 0 of an unused slot
  NULL               \* the null request pointer

Slots == 0 .. MAX_REQUEST_COUNT - 1

ASSUME CountAssumption == MAX_REQUEST_COUNT \in Nat /\ MAX_REQUEST_COUNT >= 2
ASSUME NullAssumption == NULL \notin Slots
ASSUME NoMsgAssumption == NoMsg \notin Msgs
=============================================================================
