------------------------------- MODULE MCLink -------------------------------
(* Messages are compared and stored only, so they may be exchanged; not    *)
(* used where liveness is checked.                                         *)
EXTENDS Link, Sequences, TLC

MsgSymmetry == Permutations(Msgs)

(* Bound: after handleExt was overtaken, up to the NULL request and past   *)
(* it, there are few records and few requests on the way.                  *)
FewWhenOvertaken ==
  overtaken => Len(toOut) + Len(toIn) <= 2 /\ Len(waiting) + Cardinality(working) <= 1

-----------------------------------------------------------------------------
(* Link leaves out the contents of packets; that they arrive is evaluated  *)
(* here for small packets.  With its header of 12 bytes a packet ends a    *)
(* chunk with 2 and with 9 bytes of data.                                  *)
Coding == INSTANCE Codec

Contents ==
  UNION {[1 .. n -> {1, 255}] : n \in 0 .. 3}
    \cup {[i \in 1 .. n |-> IF i = k THEN 255 ELSE 127] : n \in 8 .. 10, k \in 0 .. 10}

Packets ==
  {[slot |-> <<0, 127>>, userWord1 |-> <<255, 128, 127, 0>>, userWord2 |-> <<0, 129, 255, 1>>,
    data |-> d] : d \in Contents}

(* The inside proxy, which decodes in place, gets what the outside proxy   *)
(* has encoded, in both encodings.                                         *)
ASSUME PacketArrives ==
  \A p \in Packets, binary \in BOOLEAN :
    Coding!received(Coding!transmit(p, binary), binary) = p

(* The 7-to-8 encoding is free of the bytes telnet escapes, and the        *)
(* longest packet fits into recvBuffer.                                    *)
ASSUME PacketFits ==
  LET length(n) == 8 * ((n + 12) \div 7 + 1)
  IN /\ \A p \in Packets :
          LET wire == Coding!transmit(p, FALSE)
          IN /\ \A i \in DOMAIN wire : wire[i] \in 0 .. 127
             /\ Len(wire) = length(Len(p.data))
     /\ length(Coding!MAX_PACKET_LEN) + Coding!NotEncoded <= Coding!RecvBufferLen
=============================================================================
