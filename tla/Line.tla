-------------------------------- MODULE Line --------------------------------
(***************************************************************************)
(* The DIALed 3270 connection between the inside proxy (cms/ioproxy.c) and *)
(* the outside proxy (Dialed3270HostConnector.java): two streams of        *)
(* records, each in order.  The WCC byte of a write and the AID byte of an *)
(* input tell what a record is.                                            *)
(***************************************************************************)
EXTENDS Common, Sequences

VARIABLES
  toOut, \* what the 3270 device has written and the outside not yet read
  toIn   \* what the outside has written and no READ has fetched

OutKinds == {"WELCOME", "WILL_SEND", "SEND_PACKET", "ACK", "RESET", "STATE",
             "CPREAD", "DIALED", "DATA"}
InKinds  == {"WELCOME", "WANT_SEND", "ACK", "ACK_WANT_SEND",
             "DATA", "DATA_WANT_SEND", "CLEAR", "DIAL"}

(* slot and msg are those of a data packet; msg stands for the user name   *)
(* and the user words that identify the request.                           *)
Token(k) == [kind |-> k, slot |-> NULL, msg |-> NoMsg]
Packet(k, s, m) == [kind |-> k, slot |-> s, msg |-> m]

LineTypeOK ==
  /\ toOut \in Seq([kind : OutKinds, slot : Slots \cup {NULL},
                    msg : Msgs \cup {NoMsg}])
  /\ toIn \in Seq([kind : InKinds, slot : Slots \cup {NULL},
                   msg : Msgs \cup {NoMsg}])
=============================================================================
