------------------------------- MODULE Codec --------------------------------
(***************************************************************************)
(* How a response is put on the 3270 line and taken from it:               *)
(* RequestResponse.transmit of Dialed3270HostConnector.java, with the two  *)
(* encodings, against endReceivePacket of ioproxy.c, which decodes in      *)
(* place.  The AID, the cursor position and the user in front of it are    *)
(* not encoded and left out, so that positions start at 0 behind them.     *)
(*                                                                         *)
(* A packet has a slot (2 bytes), two user words (4 bytes each) and data.  *)
(***************************************************************************)
EXTENDS Integers, Sequences

MAX_PACKET_LEN == 2048
RecvBufferLen  == 2560
NotEncoded     == 11    \* bytes of AID, cursor position and user

-----------------------------------------------------------------------------
(* The outside proxy.                                                      *)

(* Chunks of seven bytes without their highest bits, then a byte with the  *)
(* highest bits, that of the first byte in 0x40.                           *)
resetEncoder(out) ==
  [out |-> out, encodedBytes |-> <<>>, escapeByte |-> 0, escapeMask |-> 64]

endChunk(e) == resetEncoder(e.out \o e.encodedBytes \o <<e.escapeByte>>)

write(e, b) ==
  LET f == [out |-> e.out, encodedBytes |-> Append(e.encodedBytes, b % 128),
            escapeByte |-> IF b >= 128 THEN e.escapeByte + e.escapeMask ELSE e.escapeByte,
            escapeMask |-> e.escapeMask \div 2]
  IN IF Len(f.encodedBytes) >= 7 THEN endChunk(f) ELSE f

(* The open chunk is filled up and written, also if there is nothing in it. *)
flush(e) ==
  endChunk([e EXCEPT !.encodedBytes =
              [i \in 1 .. 7 |-> IF i <= Len(@) THEN @[i] ELSE 0]])

encoded(bytes) ==
  LET e[i \in 0 .. Len(bytes)] ==
        IF i = 0 THEN resetEncoder(<<>>) ELSE write(e[i - 1], bytes[i])
  IN e[Len(bytes)]

(* In the binary mode a byte 0xFF is written twice.                        *)
writeBinary(out, b) == IF b = 255 THEN out \o <<255, 255>> ELSE Append(out, b)

escaped(bytes) ==
  LET out[i \in 0 .. Len(bytes)] ==
        IF i = 0 THEN <<>> ELSE writeBinary(out[i - 1], bytes[i])
  IN out[Len(bytes)]

content(p) ==
  p.slot \o p.userWord1 \o p.userWord2
    \o <<Len(p.data) \div 256, Len(p.data) % 256>> \o p.data

transmit(p, binary) ==
  IF binary THEN escaped(content(p)) ELSE flush(encoded(content(p))).out

-----------------------------------------------------------------------------
(* The telnet connection of the device (external): 0xFF doubled is one     *)
(* byte of data.                                                           *)
unescapeByte(s, b) ==
  IF b = 255 /\ s.esc THEN [out |-> s.out, esc |-> FALSE]
  ELSE [out |-> Append(s.out, b), esc |-> b = 255]

unescape(wire) ==
  LET s[i \in 0 .. Len(wire)] ==
        IF i = 0 THEN [out |-> <<>>, esc |-> FALSE] ELSE unescapeByte(s[i - 1], wire[i])
  IN s[Len(wire)].out

-----------------------------------------------------------------------------
(* The inside proxy.                                                       *)

(* recvBuffer behind its first 11 bytes; what is behind the data is old.   *)
at(buffer, i) == IF i < Len(buffer) THEN buffer[i + 1] ELSE 0

(* The loop is left when there is nothing left.                            *)
decodeByte(d) ==
  LET b    == at(d.buffer, d.block)
      high == (d.blockModif \div d.mask) % 2 = 1
      next == [buffer |-> [d.buffer EXCEPT ![d.dest + 1] = IF high /\ b < 128 THEN b + 128 ELSE b],
               dest |-> d.dest + 1, block |-> d.block + 1, blockModif |-> d.blockModif,
               mask |-> d.mask \div 2, dlen |-> d.dlen]
  IN IF d.dlen <= 0 THEN d
     ELSE IF d.mask > 1 THEN next
     ELSE [next EXCEPT !.block = @ + 1,
                       !.blockModif = at(next.buffer, next.block + 8),
                       !.mask = 64, !.dlen = @ - 8]

(* There are less bytes than there were before they were decoded.          *)
decode(buffer) ==
  LET d[i \in 0 .. Len(buffer)] ==
        IF i = 0
        THEN [buffer |-> buffer, dest |-> 0, block |-> 0, blockModif |-> at(buffer, 7),
              mask |-> 64, dlen |-> Len(buffer)]
        ELSE decodeByte(d[i - 1])
  IN d[Len(buffer)].buffer

(* recvDataLen counts 10 bytes in front of the data, which are 12.         *)
received(wire, binary) ==
  LET dlen   == Len(wire)
      buffer == IF binary THEN unescape(wire) ELSE decode(wire)
      recvLen == IF binary THEN Len(buffer) ELSE ((dlen + 7) \div 8) * 7
      xmitDataLen == 256 * buffer[11] + buffer[12]
      recvDataLen == recvLen - 10
      len == IF recvDataLen < xmitDataLen THEN recvDataLen ELSE xmitDataLen
  IN [slot |-> SubSeq(buffer, 1, 2), userWord1 |-> SubSeq(buffer, 3, 6),
      userWord2 |-> SubSeq(buffer, 7, 10), data |-> SubSeq(buffer, 13, 12 + len)]
=============================================================================
