----------------------------- MODULE LinkProofs -----------------------------
(***************************************************************************)
(* What holds of the two proxies together for every number of slots,       *)
(* messages, records in one read and restarts of the outside proxy, with   *)
(* device interrupts in the external handler, until one of them overtakes  *)
(* it; a reconnection does not fall into it (~ResetDuringExt, as for the   *)
(* pool).                                                                  *)
(*                                                                         *)
(* LinkInv is the inductive invariant.  Its control part is about the      *)
(* records that cross on the line: they are at most three per direction,   *)
(* and the state of the transmission state machine says which ones; so a   *)
(* lemma per handler follows each record from the end that writes it to    *)
(* the one that reads it (Control).  On the way, the link is shown to take *)
(* only steps of the slot pool (RefinesStep).  Then comes where the        *)
(* requests are: each transmitted slot is in one place (OnePlace); and     *)
(* what follows from the invariant.                                        *)
(***************************************************************************)
EXTENDS Link, SlotPoolProofs

-----------------------------------------------------------------------------
(* The records on the line without the request to dump the state.          *)

(* What the inside proxy writes, and what the outside proxy writes.        *)
OutRecords == [kind : OutKinds, slot : Slots \cup {NULL}, msg : Msgs \cup {NoMsg}]
InRecords  == [kind : InKinds, slot : Slots \cup {NULL}, msg : Msgs \cup {NoMsg}]

(* At most one of the records is a request to dump the state.              *)
AtMostOneState(s) ==
  \A i, j \in DOMAIN s : s[i].kind = "STATE" /\ s[j].kind = "STATE" => i = j

(* The handshakes of a line are records.                                   *)
LEMMA HandshakesType ==
  ASSUME NEW s \in Seq(OutRecords)
  PROVE  /\ Handshakes(s) \in Seq(OutRecords)
         /\ Len(Handshakes(s)) <= Len(s)
         /\ Len(s) = 0 => Handshakes(s) = s
<1>1. CASE \E i \in DOMAIN s : s[i].kind = "STATE"
  <2> DEFINE p == CHOOSE i \in DOMAIN s : s[i].kind = "STATE"
  <2>1. p \in DOMAIN s
    BY <1>1
  <2>2. Handshakes(s) = [i \in 1 .. Len(s) - 1 |-> s[IF i < p THEN i ELSE i + 1]]
    BY <1>1 DEF Handshakes
  <2>3. Len(s) - 1 \in Nat
    BY <2>1
  <2>4. \A i \in 1 .. Len(s) - 1 : s[IF i < p THEN i ELSE i + 1] \in OutRecords
    BY <2>1
  <2> HIDE DEF p
  <2>5. Handshakes(s) \in [1 .. Len(s) - 1 -> OutRecords]
    BY <2>2, <2>4
  <2> QED
    BY <2>3, <2>5, <2>1
<1>2. CASE ~ \E i \in DOMAIN s : s[i].kind = "STATE"
  BY <1>2 DEF Handshakes
<1> QED
  BY <1>1, <1>2

(* With a STATE at position p the handshakes are the other records.        *)
LEMMA HandshakesAt ==
  ASSUME NEW s \in Seq(OutRecords), AtMostOneState(s),
         NEW p \in DOMAIN s, s[p].kind = "STATE"
  PROVE  /\ Len(Handshakes(s)) = Len(s) - 1
         /\ \A i \in 1 .. Len(s) - 1 :
              /\ i < p => Handshakes(s)[i] = s[i]
              /\ i >= p => Handshakes(s)[i] = s[i + 1]
<1> DEFINE q == CHOOSE i \in DOMAIN s : s[i].kind = "STATE"
<1>1. q \in DOMAIN s /\ s[q].kind = "STATE"
  OBVIOUS
<1>2. q = p
  BY <1>1 DEF AtMostOneState
<1>3. Handshakes(s) = [i \in 1 .. Len(s) - 1 |-> s[IF i < q THEN i ELSE i + 1]]
  BY DEF Handshakes
<1>4. Handshakes(s) = [i \in 1 .. Len(s) - 1 |-> s[IF i < p THEN i ELSE i + 1]]
  BY <1>2, <1>3
<1>5. Len(s) - 1 \in Nat
  OBVIOUS
<1> QED
  BY <1>4, <1>5, HandshakesType

(* Without one they are all records.                                       *)
LEMMA HandshakesNone ==
  ASSUME NEW s, \A i \in DOMAIN s : s[i].kind # "STATE"
  PROVE  Handshakes(s) = s
BY DEF Handshakes

(* Sequences with the same elements are the same.                          *)
LEMMA SameRecords ==
  ASSUME NEW s \in Seq(OutRecords), NEW t \in Seq(OutRecords), Len(s) = Len(t),
         \A i \in 1 .. Len(s) : s[i] = t[i]
  PROVE  s = t
OBVIOUS

(* A record is written.                                                    *)
LEMMA Appended ==
  ASSUME NEW s \in Seq(OutRecords), NEW r \in OutRecords
  PROVE  /\ Append(s, r) \in Seq(OutRecords)
         /\ Len(Append(s, r)) = Len(s) + 1
         /\ \A i \in 1 .. Len(s) : Append(s, r)[i] = s[i]
         /\ Append(s, r)[Len(s) + 1] = r
OBVIOUS

(* The oldest record is read.                                              *)
LEMMA Tailed ==
  ASSUME NEW s \in Seq(OutRecords), s # <<>>
  PROVE  /\ Tail(s) \in Seq(OutRecords)
         /\ Len(s) > 0
         /\ Head(s) = s[1]
         /\ Len(Tail(s)) = Len(s) - 1
         /\ \A i \in 1 .. Len(s) - 1 : Tail(s)[i] = s[i + 1]
OBVIOUS

(* A handshake is written.                                                 *)
LEMMA HandshakesAppend ==
  ASSUME NEW s \in Seq(OutRecords), AtMostOneState(s),
         NEW r \in OutRecords, r.kind # "STATE"
  PROVE  /\ Handshakes(Append(s, r)) = Append(Handshakes(s), r)
         /\ AtMostOneState(Append(s, r))
<1>0. PICK t : t = Append(s, r)
  OBVIOUS
<1>1. t \in Seq(OutRecords) /\ Len(t) = Len(s) + 1 /\ t[Len(s) + 1] = r
      /\ \A i \in 1 .. Len(s) : t[i] = s[i]
  BY <1>0, Appended
<1>2. AtMostOneState(t)
  BY <1>1 DEF AtMostOneState
<1>3. CASE \E p \in DOMAIN s : s[p].kind = "STATE"
  <2>1. PICK p \in DOMAIN s : s[p].kind = "STATE"
    BY <1>3
  <2>2. p \in DOMAIN t /\ t[p].kind = "STATE"
    BY <1>1, <2>1
  <2>3. PICK h : h = Handshakes(t)
    OBVIOUS
  <2>4. PICK g : g = Handshakes(s)
    OBVIOUS
  <2>5. /\ Len(h) = Len(t) - 1
        /\ \A i \in 1 .. Len(t) - 1 : (i < p => h[i] = t[i]) /\ (i >= p => h[i] = t[i + 1])
    BY <1>1, <1>2, <2>2, <2>3, HandshakesAt
  <2>6. /\ Len(g) = Len(s) - 1
        /\ \A i \in 1 .. Len(s) - 1 : (i < p => g[i] = s[i]) /\ (i >= p => g[i] = s[i + 1])
    BY <2>1, <2>4, HandshakesAt
  <2>7. h \in Seq(OutRecords) /\ g \in Seq(OutRecords)
    BY <1>1, <2>3, <2>4, HandshakesType
  <2>8. Append(g, r) \in Seq(OutRecords) /\ Len(Append(g, r)) = Len(s)
        /\ Append(g, r)[Len(s)] = r /\ \A i \in 1 .. Len(s) - 1 : Append(g, r)[i] = g[i]
    BY <2>6, <2>7, Appended
  <2>9. ASSUME NEW i \in 1 .. Len(h) PROVE h[i] = Append(g, r)[i]
    <3>1. i \in 1 .. Len(s) /\ i \in 1 .. Len(t) - 1 /\ i + 1 \in 1 .. Len(t)
      BY <1>1, <2>5, <2>9
    <3>2. CASE i = Len(s)
      BY <3>1, <3>2, <1>1, <2>1, <2>5, <2>8
    <3>3. CASE i # Len(s)
      <4>1. i \in 1 .. Len(s) - 1 /\ i + 1 \in 1 .. Len(s)
        BY <3>1, <3>3
      <4>2. Append(g, r)[i] = g[i]
        BY <4>1, <2>8
      <4> QED
        BY <3>1, <4>1, <4>2, <1>1, <2>1, <2>5, <2>6
    <3> QED
      BY <3>2, <3>3
  <2>10. h = Append(g, r)
    <3>1. Len(h) = Len(Append(g, r))
      BY <1>1, <2>5, <2>8
    <3> QED
      BY <3>1, <2>7, <2>8, <2>9, SameRecords
  <2> QED
    BY <1>0, <1>2, <2>3, <2>4, <2>10
<1>4. CASE ~ \E p \in DOMAIN s : s[p].kind = "STATE"
  <2>1. \A i \in DOMAIN t : t[i].kind # "STATE"
    BY <1>1, <1>4
  <2> QED
    BY <1>0, <2>1, <1>2, <1>4, HandshakesNone
<1> QED
  BY <1>3, <1>4

(* STATE is written.                                                       *)
LEMMA HandshakesAppendState ==
  ASSUME NEW s \in Seq(OutRecords), \A i \in DOMAIN s : s[i].kind # "STATE",
         NEW r \in OutRecords, r.kind = "STATE"
  PROVE  /\ Handshakes(Append(s, r)) = Handshakes(s)
         /\ AtMostOneState(Append(s, r))
<1>0. PICK t : t = Append(s, r)
  OBVIOUS
<1>1. t \in Seq(OutRecords) /\ Len(t) = Len(s) + 1 /\ t[Len(s) + 1] = r
      /\ \A i \in 1 .. Len(s) : t[i] = s[i]
  BY <1>0, Appended
<1>2. AtMostOneState(t)
  BY <1>1 DEF AtMostOneState
<1>3. Len(s) + 1 \in DOMAIN t /\ t[Len(s) + 1].kind = "STATE"
  BY <1>1
<1>4. /\ Len(Handshakes(t)) = Len(t) - 1
      /\ \A i \in 1 .. Len(t) - 1 : i < Len(s) + 1 => Handshakes(t)[i] = t[i]
  BY <1>1, <1>2, <1>3, HandshakesAt
<1>5. Handshakes(t) \in Seq(OutRecords)
  BY <1>1, HandshakesType
<1>6. Handshakes(t) = s
  BY <1>1, <1>4, <1>5, SameRecords
<1> QED
  BY <1>0, <1>2, <1>6, HandshakesNone

(* The oldest record is read.                                              *)
LEMMA HandshakesTail ==
  ASSUME NEW s \in Seq(OutRecords), AtMostOneState(s), s # <<>>
  PROVE  /\ AtMostOneState(Tail(s))
         /\ Head(s).kind = "STATE" => Handshakes(Tail(s)) = Handshakes(s)
         /\ Head(s).kind # "STATE" =>
              /\ Handshakes(s) # <<>>
              /\ Handshakes(s)[1] = Head(s)
              /\ Handshakes(Tail(s)) = Tail(Handshakes(s))
<1>0. PICK t : t = Tail(s)
  OBVIOUS
<1>1. t \in Seq(OutRecords) /\ Len(t) = Len(s) - 1 /\ Head(s) = s[1] /\ Len(s) > 0
      /\ \A i \in 1 .. Len(s) - 1 : t[i] = s[i + 1]
  BY <1>0, Tailed
<1>a. ASSUME NEW i \in DOMAIN t
      PROVE  i \in 1 .. Len(s) - 1 /\ i + 1 \in DOMAIN s /\ t[i] = s[i + 1]
  BY <1>1
<1>b. 1 \in DOMAIN s
  BY <1>1
<1>2. AtMostOneState(t)
  <2> SUFFICES ASSUME NEW i \in DOMAIN t, NEW j \in DOMAIN t,
                      t[i].kind = "STATE", t[j].kind = "STATE"
               PROVE  i = j
    BY DEF AtMostOneState
  <2>1. i + 1 = j + 1
    BY <1>a DEF AtMostOneState
  <2> QED
    BY <2>1, <1>a
<1>3. CASE s[1].kind = "STATE"
  <2>1. ASSUME NEW i \in DOMAIN t PROVE t[i].kind # "STATE"
    <3>1. i + 1 # 1
      BY <1>a
    <3> QED
      BY <3>1, <1>a, <1>b, <1>3 DEF AtMostOneState
  <2>2. /\ Len(Handshakes(s)) = Len(s) - 1
        /\ \A i \in 1 .. Len(s) - 1 : i >= 1 => Handshakes(s)[i] = s[i + 1]
    BY <1>b, <1>3, HandshakesAt
  <2>3. Handshakes(s) \in Seq(OutRecords)
    BY HandshakesType
  <2>4. t = Handshakes(s)
    BY <1>1, <2>2, <2>3, SameRecords
  <2> QED
    BY <1>0, <1>1, <1>2, <1>3, <2>1, <2>4, HandshakesNone
<1>4. CASE s[1].kind # "STATE"
  <2>1. CASE \E p \in DOMAIN s : s[p].kind = "STATE"
    <3>1. PICK p \in DOMAIN s : s[p].kind = "STATE"
      BY <2>1
    <3>2. p > 1 /\ p - 1 \in DOMAIN t /\ t[p - 1].kind = "STATE"
      <4>1. p # 1 /\ p \in 1 .. Len(s)
        BY <3>1, <1>4
      <4>2. p > 1 /\ p - 1 \in 1 .. Len(s) - 1 /\ (p - 1) + 1 = p
        BY <4>1
      <4> QED
        BY <3>1, <4>2, <1>1
    <3>3. PICK h : h = Handshakes(t)
      OBVIOUS
    <3>4. PICK g : g = Handshakes(s)
      OBVIOUS
    <3>5. /\ Len(h) = Len(t) - 1
          /\ \A i \in 1 .. Len(t) - 1 :
               (i < p - 1 => h[i] = t[i]) /\ (i >= p - 1 => h[i] = t[i + 1])
      BY <1>1, <1>2, <3>2, <3>3, HandshakesAt
    <3>6. /\ Len(g) = Len(s) - 1
          /\ \A i \in 1 .. Len(s) - 1 : (i < p => g[i] = s[i]) /\ (i >= p => g[i] = s[i + 1])
      BY <3>1, <3>4, HandshakesAt
    <3>7. h \in Seq(OutRecords) /\ g \in Seq(OutRecords)
      BY <1>1, <3>3, <3>4, HandshakesType
    <3>8. Len(g) > 0 /\ g # <<>> /\ g[1] = s[1]
      BY <3>1, <3>2, <3>6, <3>7
    <3>9. Tail(g) \in Seq(OutRecords) /\ Len(Tail(g)) = Len(g) - 1
          /\ \A i \in 1 .. Len(g) - 1 : Tail(g)[i] = g[i + 1]
      BY <3>7, <3>8, Tailed
    <3>10. ASSUME NEW i \in 1 .. Len(h) PROVE h[i] = Tail(g)[i]
      <4>1. /\ i \in 1 .. Len(t) - 1 /\ i \in DOMAIN t
            /\ i \in 1 .. Len(g) - 1 /\ i + 1 \in 1 .. Len(s) - 1
        BY <1>1, <3>5, <3>6
      <4>2. Tail(g)[i] = g[i + 1] /\ t[i] = s[i + 1]
        BY <4>1, <3>9, <1>a
      <4>3. CASE i < p - 1
        BY <4>1, <4>2, <4>3, <3>1, <3>5, <3>6
      <4>4. CASE i >= p - 1
        <5>1. i + 1 \in DOMAIN t /\ i + 1 >= p
          BY <4>1, <4>4, <1>1, <3>1
        <5>2. h[i] = t[i + 1] /\ t[i + 1] = s[(i + 1) + 1] /\ g[i + 1] = s[(i + 1) + 1]
          BY <4>1, <4>4, <5>1, <3>5, <3>6, <1>a
        <5> QED
          BY <5>2, <4>2
      <4> QED
        BY <4>1, <4>3, <4>4, <3>1
    <3>11. h = Tail(g)
      BY <1>1, <3>5, <3>6, <3>7, <3>9, <3>10, SameRecords
    <3> QED
      BY <1>0, <1>1, <1>2, <1>4, <3>3, <3>4, <3>8, <3>11
  <2>2. CASE ~ \E p \in DOMAIN s : s[p].kind = "STATE"
    <3>1. \A i \in DOMAIN t : t[i].kind # "STATE"
      BY <1>1, <2>2
    <3> QED
      BY <1>0, <3>1, <1>1, <1>2, <2>2, <1>4, HandshakesNone
  <2> QED
    BY <2>1, <2>2
<1> QED
  BY <1>3, <1>4

-----------------------------------------------------------------------------
(* The slot pool within the link.                                          *)

(* SlotPoolProofs, for the pool as the link shows it.                      *)
PoolProofs == INSTANCE SlotPoolProofs WITH
  extPc <- IF extPc \in {"enter", "startIO"} THEN "check" ELSE extPc

(* The pool of the link and the pool of the theorems about it are the      *)
(* same.                                                                   *)
LEMMA SamePoolInv == Pool!PoolInv <=> PoolProofs!PoolInv
BY DEF Pool!PoolInv, Pool!PoolTypeOK, Pool!OneOwner, Pool!RingsHoldSlots, Pool!ExtHoldsSlot,
   Pool!MsgsMatchOwners, Pool!InRing, Pool!FreePos, Pool!Arc, Pool!Slots, Pool!RingEntry,
   Pool!QueuePos, Pool!After, Pool!RING_NEXT, Pool!InQueue, Pool!InExt, Pool!ExtSteps,
   PoolProofs!PoolInv, PoolProofs!PoolTypeOK, PoolProofs!OneOwner, PoolProofs!RingsHoldSlots,
   PoolProofs!ExtHoldsSlot, PoolProofs!MsgsMatchOwners, PoolProofs!InRing, PoolProofs!FreePos,
   PoolProofs!Arc, PoolProofs!Slots, PoolProofs!RingEntry, PoolProofs!QueuePos, PoolProofs!After,
   PoolProofs!RING_NEXT, PoolProofs!InQueue, PoolProofs!InExt, PoolProofs!ExtSteps

(* So are their steps.                                                     *)
LEMMA SamePoolStep ==
  [Pool!PoolNext]_(Pool!poolVars) <=> [PoolProofs!PoolNext]_(PoolProofs!poolVars)
BY DEF Pool!PoolNext, Pool!ExtNext, Pool!DevNext, Pool!handleExt, Pool!rejectOutOfSlots,
   Pool!getSlot, Pool!takeSlot, Pool!advanceCurrFree, Pool!fillRequest, Pool!enqueueRequest,
   Pool!publishRequest, Pool!extReturn, Pool!getNextRequestToSend, Pool!replyAndFree,
   Pool!freeSlot, Pool!resetAllRequests, Pool!havingRequest, Pool!RING_NEXT, Pool!Slots,
   Pool!poolVars, Pool!freeVars, Pool!queueVars, Pool!extVars, PoolProofs!PoolNext,
   PoolProofs!ExtNext, PoolProofs!DevNext, PoolProofs!handleExt, PoolProofs!rejectOutOfSlots,
   PoolProofs!getSlot, PoolProofs!takeSlot, PoolProofs!advanceCurrFree, PoolProofs!fillRequest,
   PoolProofs!enqueueRequest, PoolProofs!publishRequest, PoolProofs!extReturn,
   PoolProofs!getNextRequestToSend, PoolProofs!replyAndFree, PoolProofs!freeSlot,
   PoolProofs!resetAllRequests, PoolProofs!havingRequest, PoolProofs!RING_NEXT, PoolProofs!Slots,
   PoolProofs!poolVars, PoolProofs!freeVars, PoolProofs!queueVars, PoolProofs!extVars

(* Steps of the pool keep the invariant of the pool.                       *)
LEMMA PoolStep ==
  ASSUME Pool!PoolInv, [Pool!PoolNext]_(Pool!poolVars), ~ResetDuringExt
  PROVE  Pool!PoolInv'
<1>1. Pool!PoolInv <=> PoolProofs!PoolInv
  BY SamePoolInv
<1>2. Pool!PoolInv' <=> PoolProofs!PoolInv'
  BY DEF Pool!PoolInv, Pool!PoolTypeOK, Pool!OneOwner, Pool!RingsHoldSlots, Pool!ExtHoldsSlot,
     Pool!MsgsMatchOwners, Pool!InRing, Pool!FreePos, Pool!Arc, Pool!Slots, Pool!RingEntry,
     Pool!QueuePos, Pool!After, Pool!RING_NEXT, Pool!InQueue, Pool!InExt, Pool!ExtSteps,
     PoolProofs!PoolInv, PoolProofs!PoolTypeOK, PoolProofs!OneOwner, PoolProofs!RingsHoldSlots,
     PoolProofs!ExtHoldsSlot, PoolProofs!MsgsMatchOwners, PoolProofs!InRing, PoolProofs!FreePos,
     PoolProofs!Arc, PoolProofs!Slots, PoolProofs!RingEntry, PoolProofs!QueuePos,
     PoolProofs!After, PoolProofs!RING_NEXT, PoolProofs!InQueue, PoolProofs!InExt,
     PoolProofs!ExtSteps
<1>3. [PoolProofs!PoolNext]_(PoolProofs!poolVars)
  BY SamePoolStep
<1> QED
  BY <1>1, <1>2, <1>3, PoolProofs!NextInv, CountAssumption, NullAssumption, NoMsgAssumption,
     ResetAssumption DEF Slots, PoolProofs!Slots

(* A response is in transit from the head of the queue of responses.       *)
LEMMA ResponseIsSent ==
  ASSUME LinkInv, toIn # <<>>, toIn[1].kind \in {"DATA", "DATA_WANT_SEND"}
  PROVE  toIn[1].slot \in sent /\ toIn[1].msg = msgId[toIn[1].slot]
<1>1. 1 \in DOMAIN toIn /\ ~Returned
  BY DEF LinkInv, TypeOK, LineTypeOK, Returned
<1>2. waiting # <<>> /\ toIn[1].slot = waiting[1].slot /\ toIn[1].msg = waiting[1].msg
  BY <1>1 DEF LinkInv, OnePlace, ResponseOnLine
<1>3. 1 \in DOMAIN waiting
  BY <1>2 DEF LinkInv, TypeOK, OutTypeOK
<1> QED
  BY <1>1, <1>2, <1>3 DEF LinkInv, OnePlace, ResponsesQueued, IsSent

(* Every step of the link is a step of the slot pool, or none.             *)
LEMMA RefinesStep ==
  ASSUME LinkInv, [Next]_vars
  PROVE  [Pool!PoolNext]_(Pool!poolVars)
<1> USE DEF Pool!PoolNext, Pool!poolVars, Pool!freeVars, Pool!queueVars, Pool!extVars,
            poolVars, freeVars, queueVars, extVars
<1>1. CASE extEnqueues
  <2> USE DEF Pool!ExtNext
  <2>1. ASSUME NEW m \in Msgs, handleExt(m) PROVE Pool!handleExt(m)
    BY <2>1 DEF handleExt, Pool!handleExt
  <2>2. rejectOutOfSlots => Pool!rejectOutOfSlots
    BY DEF rejectOutOfSlots, Pool!rejectOutOfSlots
  <2>3. getSlot => Pool!getSlot
    BY DEF getSlot, Pool!getSlot
  <2>4. takeSlot => Pool!takeSlot
    BY DEF takeSlot, Pool!takeSlot
  <2>5. advanceCurrFree => Pool!advanceCurrFree
    BY DEF advanceCurrFree, Pool!advanceCurrFree, RING_NEXT, Pool!RING_NEXT
  <2>6. fillRequest => Pool!fillRequest
    BY DEF fillRequest, Pool!fillRequest
  <2>7. enqueueRequest => Pool!enqueueRequest
    BY DEF enqueueRequest, Pool!enqueueRequest, RING_NEXT, Pool!RING_NEXT
  <2>8. publishRequest => Pool!publishRequest
    BY DEF publishRequest, Pool!publishRequest
  <2> QED
    BY <1>1, <2>1, <2>2, <2>3, <2>4, <2>5, <2>6, <2>7, <2>8 DEF extEnqueues
<1>2. CASE extCheckIdle \/ extEnterTransmitPrep \/ extStartIO
  BY <1>2 DEF extCheckIdle, extEnterTransmitPrep, extStartIO, extStep, Pool!ExtNext,
     Pool!extReturn
<1>3. CASE UNCHANGED poolVars
  BY <1>3
<1>4. CASE getNextRequestToSend
  BY <1>4 DEF getNextRequestToSend, Pool!getNextRequestToSend, Pool!DevNext, havingRequest,
     Pool!havingRequest, RING_NEXT, Pool!RING_NEXT
<1>5. CASE replyAndFree(toIn[1].slot) /\ toIn # <<>> /\ toIn[1].kind \in {"DATA", "DATA_WANT_SEND"}
  <2>1. toIn[1].slot \in sent
    BY <1>5, ResponseIsSent
  <2>2. Pool!replyAndFree(toIn[1].slot)
    BY <1>5 DEF replyAndFree, freeSlot, Pool!replyAndFree, Pool!freeSlot, RING_NEXT,
       Pool!RING_NEXT
  <2> QED
    BY <2>1, <2>2 DEF Pool!DevNext
<1>6. CASE resetAllRequests /\ (extPc = "none" \/ ResetDuringExt)
  BY <1>6 DEF resetAllRequests, Pool!resetAllRequests, Pool!DevNext, Slots, Pool!Slots
<1>7. CASE endReceivePacket
  <2>1. CASE UNCHANGED poolVars
    BY <2>1, <1>3
  <2>2. ASSUME NEW f \in BOOLEAN, receive(toIn[1], f), toIn # <<>>, ~UNCHANGED poolVars
        PROVE  \/ getNextRequestToSend
               \/ replyAndFree(toIn[1].slot) /\ toIn[1].kind \in {"DATA", "DATA_WANT_SEND"}
               \/ resetAllRequests /\ (extPc = "none" \/ ResetDuringExt)
    BY <2>2 DEF receive, onWantSend, onWelcome, onAck, onAckInTransmitPrep, onAckWantSend,
       onClear, onDial, onData
  <2>3. ASSUME NEW k \in 1 .. MaxCoalesce, k <= Len(toIn),
               receive(toIn[1], k >= 2 /\ toIn[2].kind = "WANT_SEND")
        PROVE  [Pool!PoolNext]_(Pool!poolVars)
    <3>1. toIn # <<>>
      BY <2>3
    <3>2. (k >= 2 /\ toIn[2].kind = "WANT_SEND") \in BOOLEAN
      OBVIOUS
    <3> QED
      BY <2>1, <2>2, <2>3, <3>1, <3>2, <1>4, <1>5, <1>6
  <2> QED
    BY <1>7, <2>1, <2>3 DEF endReceivePacket
<1> QED
  BY <1>1, <1>2, <1>3, <1>7 DEF Next, vars, Inside, Outside, ExtHandler, extStat, devintHandler,
     beginReceivePacket, endWrite

-----------------------------------------------------------------------------
(* What is on the line before and after a record is written or read.       *)

(* The line has few records.                                               *)
LEMMA ShortTail ==
  ASSUME NEW s \in Seq(OutRecords)
  PROVE  /\ Len(s) = 1 => Tail(s) = <<>>
         /\ Len(s) = 2 => Len(Tail(s)) = 1 /\ Tail(s)[1] = s[2]
         /\ Len(s) = 3 => Len(Tail(s)) = 2 /\ Tail(s)[1] = s[2] /\ Tail(s)[2] = s[3]
<1> SUFFICES ASSUME s # <<>>
             PROVE  /\ Len(s) = 1 => Tail(s) = <<>>
                    /\ Len(s) = 2 => Len(Tail(s)) = 1 /\ Tail(s)[1] = s[2]
                    /\ Len(s) = 3 => Len(Tail(s)) = 2 /\ Tail(s)[1] = s[2] /\ Tail(s)[2] = s[3]
  OBVIOUS
<1>1. PICK t : t = Tail(s)
  OBVIOUS
<1>2. t \in Seq(OutRecords) /\ Len(t) = Len(s) - 1 /\ \A i \in 1 .. Len(s) - 1 : t[i] = s[i + 1]
  BY <1>1, Tailed
<1>3. Len(s) = 1 => t = <<>>
  BY <1>2
<1>4. Len(s) = 2 => Len(t) = 1 /\ t[1] = s[1 + 1]
  BY <1>2
<1>5. Len(s) = 3 => Len(t) = 2 /\ t[1] = s[1 + 1] /\ t[2] = s[2 + 1]
  BY <1>2
<1> QED
  BY <1>1, <1>3, <1>4, <1>5

(* The inside proxy writes a handshake or a request.                       *)
LEMMA Wrote ==
  ASSUME TypeOK, OneState, NEW r \in OutRecords, r.kind # "STATE",
         toOut' = Append(toOut, r)
  PROVE  /\ OneState'
         /\ outbound = <<>> => One(outbound', r.kind)
         /\ \A a : One(outbound, a) => Two(outbound', a, r.kind)
         /\ \A a, b : Two(outbound, a, b) => Three(outbound', a, b, r.kind)
<1>1. toOut \in Seq(OutRecords) /\ AtMostOneState(toOut)
  BY DEF TypeOK, LineTypeOK, OutRecords, OneState, AtMostOneState
<1>2. outbound' = Append(outbound, r) /\ OneState'
  BY <1>1, HandshakesAppend DEF outbound, OneState, AtMostOneState
<1>3. outbound \in Seq(OutRecords)
  BY <1>1, HandshakesType DEF outbound
<1> QED
  BY <1>2, <1>3 DEF One, Two, Three

(* The inside proxy asks for a dump.                                       *)
LEMMA WroteState ==
  ASSUME TypeOK, \A i \in DOMAIN toOut : toOut[i].kind # "STATE",
         toOut' = Append(toOut, Token("STATE"))
  PROVE  OneState' /\ outbound' = outbound
<1>1. toOut \in Seq(OutRecords) /\ Token("STATE") \in OutRecords /\ Token("STATE").kind = "STATE"
  BY DEF TypeOK, LineTypeOK, OutRecords, Token, OutKinds
<1> QED
  BY <1>1, HandshakesAppendState DEF outbound, OneState, AtMostOneState

(* The outside proxy reads a handshake or a request, or a STATE.           *)
LEMMA Read ==
  ASSUME TypeOK, OneState, toOut # <<>>, toOut' = Tail(toOut)
  PROVE  /\ OneState'
         /\ Head(toOut).kind = "STATE" => outbound' = outbound
         /\ Head(toOut).kind # "STATE" =>
              /\ outbound # <<>>
              /\ \A a : One(outbound, a) => a = Head(toOut).kind /\ outbound' = <<>>
              /\ \A a, b : Two(outbound, a, b) => a = Head(toOut).kind /\ One(outbound', b)
              /\ \A a, b, c : Three(outbound, a, b, c) =>
                   a = Head(toOut).kind /\ Two(outbound', b, c)
<1>1. toOut \in Seq(OutRecords) /\ AtMostOneState(toOut)
  BY DEF TypeOK, LineTypeOK, OutRecords, OneState, AtMostOneState
<1>2. OneState' /\ (Head(toOut).kind = "STATE" => outbound' = outbound)
  BY <1>1, HandshakesTail DEF outbound, OneState, AtMostOneState
<1>3. CASE Head(toOut).kind # "STATE"
  <2>1. outbound # <<>> /\ outbound[1] = Head(toOut) /\ outbound' = Tail(outbound)
    BY <1>1, <1>3, HandshakesTail DEF outbound
  <2>2. outbound \in Seq(OutRecords)
    BY <1>1, HandshakesType DEF outbound
  <2>3. \A a : One(outbound, a) => a = Head(toOut).kind /\ outbound' = <<>>
    BY <2>1, <2>2, ShortTail DEF One
  <2>4. \A a, b : Two(outbound, a, b) => a = Head(toOut).kind /\ One(outbound', b)
    BY <2>1, <2>2, ShortTail DEF One, Two
  <2>5. \A a, b, c : Three(outbound, a, b, c) => a = Head(toOut).kind /\ Two(outbound', b, c)
    BY <2>1, <2>2, ShortTail DEF Three, Two
  <2> QED
    BY <1>2, <1>3, <2>1, <2>3, <2>4, <2>5
<1> QED
  BY <1>2, <1>3

(* The outside proxy writes a record.                                      *)
LEMMA WroteIn ==
  ASSUME TypeOK, NEW r \in InRecords, toIn' = Append(toIn, r)
  PROVE  /\ toIn = <<>> => One(toIn', r.kind)
         /\ \A a : One(toIn, a) => Two(toIn', a, r.kind)
<1>1. toIn \in Seq(InRecords)
  BY DEF TypeOK, LineTypeOK, InRecords
<1> QED
  BY <1>1 DEF One, Two

(* The first k records are read.                                           *)
LEMMA Dropped ==
  ASSUME NEW s \in Seq(InRecords), NEW k \in Nat \ {0}, k <= Len(s)
  PROVE  /\ DOMAIN SubSeq(s, k + 1, Len(s)) = 1 .. Len(s) - k
         /\ Len(SubSeq(s, k + 1, Len(s))) = Len(s) - k
         /\ \A i \in DOMAIN SubSeq(s, k + 1, Len(s)) :
              SubSeq(s, k + 1, Len(s))[i] = s[i + k] /\ i + k \in DOMAIN s
<1>1. PICK t : t = SubSeq(s, k + 1, Len(s))
  OBVIOUS
<1>2. Len(s) \in Nat
  OBVIOUS
<1>3. /\ t \in Seq(InRecords) /\ Len(t) = Len(s) - k
      /\ \A i \in 1 .. Len(s) - k : t[i] = s[k + i]
  BY <1>1, <1>2
<1>4. \A i \in 1 .. Len(s) - k : k + i = i + k /\ i + k \in 1 .. Len(s)
  BY <1>2
<1>5. DOMAIN t = 1 .. Len(s) - k /\ DOMAIN s = 1 .. Len(s)
  BY <1>3
<1>6. \A i \in DOMAIN t : t[i] = s[i + k] /\ i + k \in DOMAIN s
  BY <1>3, <1>4, <1>5
<1> QED
  BY <1>1, <1>3, <1>5, <1>6

(* The inside proxy reads k records.                                       *)
LEMMA ReadIn ==
  ASSUME TypeOK, NEW k \in Nat \ {0}, k <= Len(toIn), toIn' = SubSeq(toIn, k + 1, Len(toIn))
  PROVE  /\ toIn # <<>>
         /\ \A a : One(toIn, a) => a = toIn[1].kind /\ toIn' = <<>> /\ k = 1
         /\ \A a, b : Two(toIn, a, b) =>
              /\ a = toIn[1].kind /\ b = toIn[2].kind
              /\ \/ k = 1 /\ One(toIn', b)
                 \/ k = 2 /\ toIn' = <<>>
<1>1. toIn \in Seq(InRecords) /\ Len(toIn) \in Nat
  BY DEF TypeOK, LineTypeOK, InRecords
<1>2. toIn # <<>>
  BY <1>1
<1>3. /\ toIn' \in Seq(InRecords) /\ Len(toIn') = Len(toIn) - k
      /\ \A i \in 1 .. Len(toIn) - k : toIn'[i] = toIn[k + i]
  BY <1>1
<1>4. \A a : One(toIn, a) => a = toIn[1].kind /\ toIn' = <<>> /\ k = 1
  BY <1>1, <1>3 DEF One
<1>5. \A a, b : Two(toIn, a, b) =>
              /\ a = toIn[1].kind /\ b = toIn[2].kind
              /\ \/ k = 1 /\ One(toIn', b)
                 \/ k = 2 /\ toIn' = <<>>
  <2>1. Len(toIn) = 2 /\ k = 1 => toIn'[1] = toIn[2] /\ Len(toIn') = 1
    BY <1>1, <1>3
  <2>2. Len(toIn) = 2 /\ k = 2 => toIn' = <<>>
    BY <1>1, <1>3
  <2>3. Len(toIn) = 2 => k = 1 \/ k = 2
    BY <1>1
  <2> QED
    BY <2>1, <2>2, <2>3 DEF One, Two
<1> QED
  BY <1>2, <1>4, <1>5

-----------------------------------------------------------------------------
(* Types.                                                                  *)

(* A token is a record of both directions, if its kind is one of them.     *)
LEMMA TokenType ==
  /\ \A k \in OutKinds : Token(k) \in OutRecords /\ Token(k).kind = k
  /\ \A k \in InKinds : Token(k) \in InRecords /\ Token(k).kind = k
BY DEF Token, OutRecords, InRecords

(* A packet is one, too.                                                   *)
LEMMA PacketType ==
  ASSUME NEW s \in Slots, NEW m \in Msgs \cup {NoMsg}
  PROVE  /\ Packet("DATA", s, m) \in OutRecords
         /\ \A k \in {"DATA", "DATA_WANT_SEND"} : Packet(k, s, m) \in InRecords
BY DEF Packet, OutRecords, InRecords, OutKinds, InKinds

(* What the types rest on, overtaken or not: those of the pool, and that   *)
(* packets name a slot.                                                    *)
Carries(s, kinds) == \A i \in DOMAIN s : s[i].kind \in kinds => s[i].slot \in Slots

Addressed == Carries(toOut, {"DATA"}) /\ Carries(toIn, {"DATA", "DATA_WANT_SEND"})

Typed == TypeOK /\ Pool!PoolTypeOK /\ Addressed

(* The inside proxy keeps the types.                                       *)
LEMMA InsideTypes ==
  ASSUME Typed, Inside
  PROVE  TypeOK'
<1>1. /\ toOut \in Seq(OutRecords) /\ toIn \in Seq(InRecords) /\ OutTypeOK
      /\ pstate \in PStates /\ inRecv \in BOOLEAN /\ devBusy \in BOOLEAN
  BY DEF Typed, TypeOK, LineTypeOK, IoTypeOK, OutRecords, InRecords
<1>2. OutTypeOK'
  BY <1>1 DEF Inside, outVars, flagVars, lossVars, OutTypeOK
<1>3. SUFFICES /\ toOut' \in Seq(OutRecords) /\ toIn' \in Seq(InRecords)
               /\ pstate' \in PStates /\ inRecv' \in BOOLEAN /\ devBusy' \in BOOLEAN
  BY <1>2 DEF TypeOK, LineTypeOK, IoTypeOK, OutRecords, InRecords
<1>4. \A k \in OutKinds : Append(toOut, Token(k)) \in Seq(OutRecords)
  BY <1>1, TokenType
<1>5. \A s \in Slots : Append(toOut, Packet("DATA", s, msgId[s])) \in Seq(OutRecords)
  <2>1. \A s \in Slots : msgId[s] \in Msgs \cup {NoMsg}
    BY DEF Typed, Pool!PoolTypeOK, Slots, Pool!Slots
  <2> QED
    BY <1>1, <2>1, PacketType
<1>6. CASE extEnqueues \/ extCheckIdle
  BY <1>1, <1>6 DEF extEnqueues, extCheckIdle, ioVars
<1>7. CASE extEnterTransmitPrep
  BY <1>1, <1>7 DEF extEnterTransmitPrep, PStates, devVars
<1>8. CASE extStartIO \/ extStat
  BY <1>1, <1>4, <1>8 DEF extStartIO, extStat, doSIO, OutKinds, devVars
<1>9. CASE beginReceivePacket
  BY <1>1, <1>9 DEF beginReceivePacket
<1> USE DEF doSIOAtEnd, noSIOAtEnd, enter_iWELCOME, enter_iTRANSMITPREP, enter_iRECEIVING,
            enter_iIDLE, enter_iRESET, enter_iRECONNECT_CPREAD, enter_iRECONNECT_DIALED
<1>10. CASE endWrite
  BY <1>1, <1>4, <1>10 DEF endWrite, deviceEnd, Settled, PStates, OutKinds
<1>11. CASE endReceivePacket
  <2>1. inRecv' \in BOOLEAN
    BY <1>11 DEF endReceivePacket
  <2>2. CASE toIn = <<>> /\ noSIOAtEnd /\ UNCHANGED <<poolVars, pstate, toIn>>
    BY <2>1, <2>2, <1>1
  <2>3. ASSUME NEW k \in 1 .. MaxCoalesce, k <= Len(toIn), NEW f \in BOOLEAN,
               toIn' = SubSeq(toIn, k + 1, Len(toIn)), receive(toIn[1], f)
        PROVE  /\ toOut' \in Seq(OutRecords) /\ toIn' \in Seq(InRecords)
               /\ pstate' \in PStates /\ devBusy' \in BOOLEAN
    <3>1. toIn' \in Seq(InRecords)
      BY <1>1, <2>3
    <3>2. CASE onWantSend \/ onWelcome \/ onAckWantSend \/ onClear \/ onDial
      BY <1>1, <1>4, <3>1, <3>2 DEF onWantSend, onWelcome, onAckWantSend, onClear, onDial,
         PStates, OutKinds
    <3>3. CASE onData(toIn[1], TRUE) \/ onData(toIn[1], FALSE)
      BY <1>1, <1>4, <3>1, <3>3 DEF onData, PStates, OutKinds
    <3>4. CASE onAck(f)
      <4>1. nextRequest # NULL => nextRequest \in Slots
        <5>1. reqQueue \in [Slots -> Slots \cup {NULL}] /\ reqLastOut \in Slots
          BY DEF Typed, Pool!PoolTypeOK, Slots, Pool!Slots
        <5> QED
          BY <5>1, NextInRing DEF nextRequest
      <4> QED
        BY <1>1, <1>4, <1>5, <3>1, <3>4, <4>1 DEF onAck, onAckInTransmitPrep, enter_iTRANSMITTING,
           PStates, OutKinds
    <3> QED
      BY <2>3, <3>2, <3>3, <3>4 DEF receive
  <2> QED
    BY <1>11, <2>1, <2>2, <2>3 DEF endReceivePacket
<1> QED
  BY <1>6, <1>7, <1>8, <1>9, <1>10, <1>11 DEF Inside, ExtHandler, devintHandler

(* So does the outside proxy.                                              *)
LEMMA OutsideTypes ==
  ASSUME Typed, Outside
  PROVE  TypeOK'
<1>1. /\ toOut \in Seq(OutRecords) /\ toIn \in Seq(InRecords) /\ IoTypeOK
      /\ waiting \in Seq(Requests) /\ working \in SUBSET Requests
      /\ phase \in {"up", "start", "start2", "clear", "dial"}
      /\ sending \in BOOLEAN /\ mayRequestSend \in BOOLEAN /\ pendingRequestSend \in BOOLEAN
      /\ reconnects \in 0 .. MaxReconnects /\ restarts \in 0 .. MaxRestarts
  BY DEF Typed, TypeOK, LineTypeOK, OutTypeOK, OutRecords, InRecords
<1>2. IoTypeOK'
  BY <1>1 DEF Outside, IoTypeOK
<1> DEFINE OutTyped ==
      /\ toOut' \in Seq(OutRecords) /\ toIn' \in Seq(InRecords)
      /\ waiting' \in Seq(Requests) /\ working' \in SUBSET Requests
      /\ phase' \in {"up", "start", "start2", "clear", "dial"}
      /\ sending' \in BOOLEAN /\ mayRequestSend' \in BOOLEAN /\ pendingRequestSend' \in BOOLEAN
      /\ reconnects' \in 0 .. MaxReconnects /\ restarts' \in 0 .. MaxRestarts
<1>3. SUFFICES OutTyped
  BY <1>2 DEF TypeOK, LineTypeOK, OutTypeOK, OutRecords, InRecords
<1>4. \A k \in InKinds : Append(toIn, Token(k)) \in Seq(InRecords) /\ <<Token(k)>> \in Seq(InRecords)
  BY <1>1, TokenType
<1>5. toOut # <<>> => Tail(toOut) \in Seq(OutRecords) /\ Head(toOut) \in OutRecords
  BY <1>1
<1>6. finishFirstQueued \in Seq(Requests)
  BY <1>1 DEF finishFirstQueued
<1>7. CASE receiveRecord
  <2>1. /\ toOut' \in Seq(OutRecords) /\ UNCHANGED <<phase, lossVars>>
        /\ Head(toOut) \in OutRecords
    BY <1>5, <1>7 DEF receiveRecord
  <2>2. CASE handleHandshake(Head(toOut)) /\ Head(toOut).kind # "SEND_PACKET"
    BY <1>1, <1>4, <1>6, <2>1, <2>2 DEF handleHandshake, onWillSend, onHostAck, onHostWelcome,
       onReset, onState, flags, write, flagVars, lossVars, InKinds
  <2>3. CASE onSendPacket
    <3>1. CASE finishFirstQueued = <<>>
      BY <1>1, <1>6, <2>1, <2>3, <3>1 DEF onSendPacket, sendFirstQueued, lossVars
    <3>2. CASE finishFirstQueued # <<>>
      <4>1. Head(finishFirstQueued) \in Requests
        BY <1>6, <3>2
      <4>2. \A k \in {"DATA", "DATA_WANT_SEND"} :
              Append(toIn, Packet(k, Head(finishFirstQueued).slot, Head(finishFirstQueued).msg)) \in Seq(InRecords)
        BY <1>1, <4>1, PacketType DEF Requests
      <4> QED
        BY <1>1, <1>6, <2>1, <2>3, <3>2, <4>2 DEF onSendPacket, sendFirstQueued, write, lossVars
    <3> QED
      BY <3>1, <3>2
  <2>4. CASE Head(toOut).kind = "DATA" /\ onRequest(Head(toOut))
    <3>1. [slot |-> Head(toOut).slot, msg |-> Head(toOut).msg] \in Requests
      <4>1. 1 \in DOMAIN toOut /\ Head(toOut) = toOut[1]
        BY <1>1, <1>7 DEF receiveRecord
      <4>2. Head(toOut).slot \in Slots
        BY <2>4, <4>1 DEF Typed, Addressed, Carries
      <4> QED
        BY <2>1, <4>2 DEF Requests, OutRecords
    <3> QED
      BY <1>1, <1>4, <2>1, <2>4, <3>1 DEF onRequest, flags, write, lossVars, InKinds
  <2> QED
    BY <1>7, <2>2, <2>3, <2>4 DEF receiveRecord, handleHandshake
<1>8. ASSUME NEW r \in working, sendResponse(r)
      PROVE  OutTyped
  <2>1. r \in Requests
    BY <1>1, <1>8
  <2>2. waiting' \in Seq(Requests)
    BY <1>1, <1>8, <2>1 DEF sendResponse
  <2>3. "WANT_SEND" \in InKinds
    BY DEF InKinds
  <2>4. toIn' \in Seq(InRecords) /\ pendingRequestSend' \in BOOLEAN
    BY <1>1, <1>4, <1>8, <2>3 DEF sendResponse, write
  <2>5. working' \in SUBSET Requests
    BY <1>1, <1>8 DEF sendResponse
  <2> QED
    BY <1>1, <1>8, <2>2, <2>4, <2>5 DEF sendResponse, lossVars
<1>9. CASE restartProxy
  <2>1. restarts' \in 0 .. MaxRestarts
    BY <1>1, <1>9, LossAssumption DEF restartProxy
  <2>2. toIn' \in Seq(InRecords) /\ toOut' \in Seq(OutRecords)
    <3>1. "CLEAR" \in InKinds
      BY DEF InKinds
    <3>2. <<Token("CLEAR")>> \in Seq(InRecords)
      BY <3>1, <1>4
    <3> QED
      BY <1>9, <3>2 DEF restartProxy, reconnect
  <2>3. waiting' \in Seq(Requests) /\ working' \in SUBSET Requests
    BY <1>9 DEF restartProxy
  <2>4. phase' = "start" /\ ~sending' /\ ~mayRequestSend' /\ ~pendingRequestSend'
        /\ sending' \in BOOLEAN /\ mayRequestSend' \in BOOLEAN /\ pendingRequestSend' \in BOOLEAN
    BY <1>9 DEF restartProxy, reconnect, flags
  <2>5. reconnects' = reconnects
    BY <1>9 DEF restartProxy
  <2> QED
    BY <1>1, <2>1, <2>2, <2>3, <2>4, <2>5
<1>10. CASE clearAgain
  BY <1>1, <1>4, <1>10 DEF clearAgain, write, flagVars, lossVars, InKinds
<1>11. CASE connect
  BY <1>1, <1>4, <1>5, <1>11 DEF connect, checkStartScreens, clearCurrentScreen, dialToVm,
     connectStep, write, lossVars, InKinds
<1> QED
  BY <1>7, <1>8, <1>9, <1>10, <1>11 DEF Outside, OutNext

-----------------------------------------------------------------------------
(* What the state machine relies on of the slot pool.                      *)

(* enqueueRequest leaves a request in the queue.                           *)
LEMMA Published ==
  ASSUME LinkInv, publishRequest
  PROVE  havingRequest'
<1>2. PoolProofs!PoolInv
  BY SamePoolInv DEF LinkInv
<1>3. extPc = "publish"
  BY DEF publishRequest
<1>4. PoolProofs!RING_NEXT(reqLastIn) # reqLastOut
  BY <1>2, <1>3, PoolProofs!QueueNotFull, CountAssumption, NullAssumption, NoMsgAssumption,
     ResetAssumption DEF Slots, PoolProofs!Slots
<1>5. extIdx = PoolProofs!RING_NEXT(reqLastIn)
  BY <1>2, <1>3 DEF PoolProofs!PoolInv, PoolProofs!ExtHoldsSlot
<1> QED
  BY <1>4, <1>5 DEF publishRequest, havingRequest

(* The request getNextRequestToSend returns is that of a waiting slot.     *)
LEMMA NextIsWaiting ==
  ASSUME LinkInv, havingRequest
  PROVE  nextRequest \in Slots /\ nextRequest # NULL /\ nextRequest \notin sent
<1>1. /\ reqQueue \in [Slots -> Slots \cup {NULL}] /\ reqLastOut \in Slots /\ reqLastIn \in Slots
      /\ \A i \in Pool!QueuePos : reqQueue[i] \in Slots
      /\ \A s \in Slots : Pool!InQueue(s) => s \notin sent
  BY DEF LinkInv, Pool!PoolInv, Pool!PoolTypeOK, Pool!RingsHoldSlots, Pool!OneOwner, Slots,
     Pool!Slots
<1>2. Pool!QueuePos = After(reqLastOut, reqLastIn)
  BY DEF Pool!QueuePos, Pool!After, Pool!Arc, Pool!Slots, Pool!RING_NEXT, After, Arc, Slots,
     RING_NEXT
<1>3. RING_NEXT(reqLastOut) \in Pool!QueuePos
  BY <1>1, <1>2, AfterAdvanceLow DEF havingRequest
<1> QED
  BY <1>1, <1>3, NullAssumption DEF nextRequest, Pool!InQueue

(* A line is not described in two ways.                                    *)
LEMMA Distinct ==
  ASSUME NEW s
  PROVE  /\ \A a : One(s, a) => s # <<>>
         /\ \A a, b : Two(s, a, b) => s # <<>>
         /\ \A a, b, c : Three(s, a, b, c) => s # <<>>
         /\ \A a, b : One(s, a) /\ One(s, b) => a = b
         /\ \A a, b, c : ~(One(s, a) /\ Two(s, b, c))
         /\ \A a, b, c, d : ~(One(s, a) /\ Three(s, b, c, d))
         /\ \A a, b, c, d : Two(s, a, b) /\ Two(s, c, d) => a = c /\ b = d
         /\ \A a, b, c, d, e : ~(Two(s, a, b) /\ Three(s, c, d, e))
BY DEF One, Two, Three

-----------------------------------------------------------------------------
(* The handshakes, step by step of the inside proxy.                       *)

(* Steps that neither write nor read a record.                             *)
LEMMA SameLine ==
  ASSUME LinkInv, outbound' = outbound, UNCHANGED <<toIn, outVars>>,
         havingRequest => havingRequest',
         pstate \in {"INITIAL", "iWELCOME"} => UNCHANGED pstate,
         Idling => Idling', Preparing => Preparing', Transmitting => Transmitting',
         Receiving => Receiving', Resetting => Resetting'
  PROVE  /\ LineUp => LineUp'
         /\ IdleLine => IdleLine'
         /\ SendingHead'
<1>1. SendingHead'
  BY DEF LinkInv, Control, SendingHead, outVars, flagVars
<1>2. /\ IdleLine => IdleLine'
      /\ PrepLine => PrepLine'
      /\ TransmitLine => TransmitLine'
      /\ ReceiveLine => ReceiveLine'
      /\ ResetLine => ResetLine'
      /\ WelcomeLine => WelcomeLine'
  BY DEF outVars, flagVars, Held, IdleLine, PrepLine, TransmitLine, ReceiveLine, ResetLine,
     WelcomeLine
<1> QED
  BY <1>1, <1>2 DEF LineUp

(* The same while there is no connection.                                  *)
LEMMA SameDown ==
  ASSUME LineDown, UNCHANGED <<toOut, toIn, outVars>>,
         pstate = "INITIAL" => UNCHANGED pstate
  PROVE  LineDown'
BY DEF LineDown, outVars, flagVars, Held

(* The inside proxy writes to an outside proxy that skips it.              *)
LEMMA WroteDown ==
  ASSUME LinkInv, LineDown, UNCHANGED <<toIn, outVars>>,
         NEW r \in OutRecords, r.kind \notin {"DATA", "DIALED"}, toOut' = Append(toOut, r),
         \/ pstate = "INITIAL" /\ r.kind = "STATE" /\ UNCHANGED pstate
         \/ pstate # "INITIAL"
  PROVE  LineDown'
<1>1. toOut \in Seq(OutRecords) /\ toIn \in Seq(InRecords)
  BY DEF LinkInv, TypeOK, LineTypeOK, OutRecords, InRecords
<1>2. /\ DOMAIN toOut' = 1 .. Len(toOut) + 1 /\ DOMAIN toOut = 1 .. Len(toOut) /\ Len(toOut) \in Nat
      /\ Len(toOut') = Len(toOut) + 1 /\ toOut'[Len(toOut) + 1] = r
      /\ \A i \in DOMAIN toOut : toOut'[i] = toOut[i]
  BY <1>1, Appended
<1>3. ASSUME NEW i \in DOMAIN toOut', toOut'[i].kind \in {"DATA", "DIALED"}
      PROVE  i \in DOMAIN toOut /\ toOut'[i] = toOut[i]
  BY <1>2, <1>3
<1>4. ASSUME NEW i \in DOMAIN toOut', toOut'[i].kind = "DIALED"
      PROVE  /\ phase' = "dial" /\ toIn' = <<>> /\ pstate' = "INITIAL"
             /\ \A j \in i + 1 .. Len(toOut') : toOut'[j].kind = "STATE"
  <2>1. i \in DOMAIN toOut /\ toOut[i].kind = "DIALED"
    BY <1>3, <1>4
  <2>2. /\ phase = "dial" /\ toIn = <<>> /\ pstate = "INITIAL"
        /\ \A j \in i + 1 .. Len(toOut) : toOut[j].kind = "STATE"
    BY <2>1 DEF LineDown
  <2>3. r.kind = "STATE" /\ UNCHANGED pstate
    BY <2>2
  <2>4. \A j \in i + 1 .. Len(toOut') : toOut'[j].kind = "STATE"
    BY <1>2, <2>1, <2>2, <2>3
  <2> QED
    BY <2>2, <2>3, <2>4 DEF outVars
<1>5. \A i \in DOMAIN toOut' : toOut'[i].kind # "DATA"
  BY <1>3 DEF LineDown
<1>6. /\ waiting' = <<>> /\ working' = {} /\ ~sending' /\ Held'
      /\ \A i \in DOMAIN toIn' : toIn'[i].kind \in {"CLEAR", "DIAL"}
  BY DEF LineDown, outVars, flagVars, Held
<1>7. ASSUME NEW i \in DOMAIN toIn', toIn'[i].kind = "DIAL"
      PROVE  /\ phase' = "dial" /\ i = Len(toIn')
             /\ \A j \in DOMAIN toOut' : toOut'[j].kind # "DIALED"
  BY <1>3, <1>7 DEF LineDown, outVars
<1> QED
  BY <1>4, <1>5, <1>6, <1>7 DEF LineDown

(* The line is asked for the next request: the WILL_SEND follows what was  *)
(* on the idle line.                                                       *)
LEMMA WroteWillSend ==
  ASSUME LinkInv, IdleLine, toOut' = Append(toOut, Token("WILL_SEND")), UNCHANGED <<toIn, outVars>>
  PROVE  OneState' /\ PrepLine' /\ SendingHead'
<1>1. Token("WILL_SEND") \in OutRecords /\ Token("WILL_SEND").kind = "WILL_SEND"
  BY TokenType DEF OutKinds
<1>2. /\ OneState'
      /\ outbound = <<>> => One(outbound', "WILL_SEND")
      /\ \A a : One(outbound, a) => Two(outbound', a, "WILL_SEND")
      /\ \A a, b : Two(outbound, a, b) => Three(outbound', a, b, "WILL_SEND")
  BY <1>1, Wrote DEF LinkInv, Control
<1>3. PrepLine'
  BY <1>2 DEF IdleLine, PrepLine, Held, outVars, flagVars
<1>4. SendingHead'
  <2> SUFFICES ASSUME sending PROVE SendingHead'
    BY DEF SendingHead, outVars, flagVars
  <2>1. waiting # <<>> /\ toIn = <<>> /\ One(outbound, "ACK")
    BY Distinct DEF LinkInv, Control, SendingHead, IdleLine
  <2> QED
    BY <1>2, <2>1 DEF SendingHead, outVars, flagVars
<1> QED
  BY <1>2, <1>3, <1>4

(* The external interrupt handler keeps the handshakes in order.           *)
LEMMA ExtControl ==
  ASSUME LinkInv, ExtHandler, UNCHANGED outVars, ~Overtaking
  PROVE  Control'
<1>0. OneState /\ LineOK /\ SendingHead /\ Announces /\ TypeOK
  BY DEF LinkInv, Control
<1>1. CASE extEnqueues
  <2>1. havingRequest => havingRequest'
    BY <1>1, Published DEF extEnqueues, handleExt, rejectOutOfSlots, getSlot, takeSlot,
       advanceCurrFree, fillRequest, enqueueRequest, havingRequest, queueVars
  <2>2. UNCHANGED <<pstate, inRecv, devBusy, toOut, toIn>> /\ outbound' = outbound
    BY <1>1 DEF extEnqueues, ioVars, outbound
  <2>3. Announces'
    <3>1. extPc' \notin {"enter", "startIO"}
      BY <1>1 DEF extEnqueues, handleExt, rejectOutOfSlots, getSlot, takeSlot, advanceCurrFree,
         fillRequest, enqueueRequest, publishRequest
    <3> QED
      BY <1>0, <2>1, <2>2, <3>1 DEF Announces, Preparing
  <2>4. LineOK' /\ SendingHead'
    BY <1>0, <2>1, <2>2, SameLine, SameDown DEF LineOK, Idling, Preparing, Transmitting,
       Receiving, Resetting, outVars
  <2> QED
    BY <1>0, <2>2, <2>3, <2>4 DEF Control, OneState
<1>2. CASE extCheckIdle
  <2>1. UNCHANGED <<pstate, inRecv, devBusy, toOut, toIn>> /\ outbound' = outbound /\ UNCHANGED havingRequest
    BY <1>2 DEF extCheckIdle, extStep, ioVars, outbound, havingRequest, queueVars
  <2>2. Announces'
    BY <1>0, <1>2, <2>1 DEF extCheckIdle, extStep, Announces, Preparing, Overtaking
  <2>3. LineOK' /\ SendingHead'
    BY <1>0, <2>1, SameLine, SameDown DEF LineOK, Idling, Preparing, Transmitting, Receiving,
       Resetting, outVars
  <2> QED
    BY <1>0, <2>1, <2>2, <2>3 DEF Control, OneState
<1>3. CASE extEnterTransmitPrep
  <2>1. UNCHANGED <<inRecv, devBusy, toOut, toIn>> /\ outbound' = outbound /\ UNCHANGED havingRequest
    BY <1>3 DEF extEnterTransmitPrep, extStep, devVars, outbound, havingRequest, queueVars
  <2>2. pstate = "IDLE" /\ pstate' = "iTRANSMITPREP" /\ havingRequest /\ extPc' = "startIO"
    BY <1>0, <1>3 DEF extEnterTransmitPrep, extStep, Announces
  <2>3. phase = "up" => IdleLine
    BY <1>0, <2>2 DEF LineOK, LineUp, WelcomeLine, Idling, Preparing, Transmitting, Receiving,
       Resetting
  <2>4. IdleLine => IdleLine'
    BY <2>1 DEF IdleLine, Held, outVars, flagVars
  <2>5. SendingHead'
    BY <1>0, <2>1 DEF SendingHead, outVars, flagVars
  <2>6. LineOK'
    BY <1>0, <2>1, <2>2, <2>3, <2>4, SameDown DEF LineOK, LineUp, Preparing, outVars
  <2>7. Announces'
    BY <2>1, <2>2, <2>3, <2>4 DEF Announces, Preparing, Writing, outVars
  <2> QED
    BY <1>0, <2>1, <2>5, <2>6, <2>7 DEF Control, OneState
<1>4. CASE extStartIO
  <2>1. UNCHANGED <<pstate, inRecv, toIn>> /\ UNCHANGED havingRequest /\ extPc' = "none"
    BY <1>4 DEF extStartIO, extStep, havingRequest, queueVars
  <2>2. Preparing /\ havingRequest /\ (phase = "up" => IdleLine)
    BY <1>0, <1>4 DEF extStartIO, extStep, Announces
  <2>3. Announces'
    BY <2>1, <2>2 DEF Announces, Preparing, Writing
  <2>4. CASE devBusy
    <3>1. UNCHANGED toOut /\ outbound' = outbound
      BY <1>4, <2>4 DEF extStartIO, doSIO, devVars, outbound
    <3> QED
      BY <1>0, <2>1, <2>3, <3>1, SameLine, SameDown DEF Control, OneState, LineOK, Idling,
         Preparing, Transmitting, Receiving, Resetting, outVars
  <2>5. CASE ~devBusy
    <3>1. toOut' = Append(toOut, Token("WILL_SEND"))
      BY <1>4, <2>5 DEF extStartIO, doSIO
    <3>2. CASE phase = "up"
      BY <2>1, <2>2, <2>3, <3>1, <3>2, WroteWillSend DEF Control, LineOK, LineUp, Preparing,
         outVars
    <3>3. CASE phase # "up"
      <4>1. Token("WILL_SEND") \in OutRecords /\ Token("WILL_SEND").kind = "WILL_SEND"
        BY TokenType DEF OutKinds
      <4>2. OneState'
        BY <1>0, <3>1, <4>1, Wrote
      <4>3. LineDown'
        BY <1>0, <2>1, <2>2, <3>1, <3>3, <4>1, WroteDown DEF LineOK, Preparing
      <4>4. ~sending'
        BY <4>3 DEF LineDown
      <4> QED
        BY <2>3, <3>3, <4>2, <4>3, <4>4 DEF Control, LineOK, SendingHead, outVars
    <3> QED
      BY <3>2, <3>3
  <2> QED
    BY <2>4, <2>5
<1>5. CASE extStat
  <2>1. UNCHANGED <<pstate, inRecv, toIn, extPc>> /\ UNCHANGED havingRequest /\ extPc = "none"
    BY <1>5 DEF extStat, havingRequest, poolVars, queueVars, extVars
  <2>2. Announces'
    <3>1. pstate \in Writing => devBusy'
      BY <1>0, <1>5 DEF extStat, doSIO, devVars, Announces
    <3> QED
      BY <1>0, <2>1, <3>1 DEF Announces, Preparing
  <2>3. OneState' /\ outbound' = outbound
    <3>1. CASE devBusy
      BY <1>0, <1>5, <3>1 DEF extStat, doSIO, devVars, outbound, OneState
    <3>2. CASE ~devBusy
      BY <1>0, <1>5, <3>2, WroteState DEF extStat, doSIO
    <3> QED
      BY <3>1, <3>2
  <2>4. (LineUp => LineUp') /\ SendingHead'
    BY <2>1, <2>3, SameLine DEF Idling, Preparing, Transmitting, Receiving, Resetting
  <2>5. LineDown => LineDown'
    <3>1. CASE devBusy
      BY <1>5, <2>1, <3>1, SameDown DEF extStat, doSIO, devVars
    <3>2. CASE ~devBusy
      <4>1. Token("STATE") \in OutRecords /\ Token("STATE").kind = "STATE"
        BY TokenType DEF OutKinds
      <4> QED
        BY <1>5, <2>1, <3>2, <4>1, WroteDown DEF extStat, doSIO
    <3> QED
      BY <3>1, <3>2
  <2> QED
    BY <1>0, <2>2, <2>3, <2>4, <2>5 DEF Control, LineOK, outVars
<1> QED
  BY <1>1, <1>2, <1>3, <1>4, <1>5 DEF ExtHandler

(* What a write of the state machine does to the line: k follows the       *)
(* handshakes that are there.                                              *)
Sends(k) ==
  /\ OneState'
  /\ devBusy' = TRUE
  /\ outbound = <<>> => One(outbound', k)
  /\ \A a : One(outbound, a) => Two(outbound', a, k)
  /\ \A a, b : Two(outbound, a, b) => Three(outbound', a, b, k)

(* The transitions of the state machine, as seen on the line.              *)
LEMMA Entered ==
  ASSUME LinkInv
  PROVE  /\ enter_iWELCOME => pstate' = "iWELCOME" /\ Sends("WELCOME")
         /\ enter_iTRANSMITPREP => pstate' = "iTRANSMITPREP" /\ Sends("WILL_SEND")
         /\ enter_iRECEIVING => pstate' = "iRECEIVING" /\ Sends("SEND_PACKET")
         /\ enter_iIDLE => pstate' = "iIDLE" /\ Sends("ACK")
         /\ enter_iRESET => pstate' = "iRESET" /\ Sends("RESET")
         /\ \A s \in Slots : enter_iTRANSMITTING(s) => pstate' = "iTRANSMITTING" /\ Sends("DATA")
         /\ noSIOAtEnd => OneState' /\ outbound' = outbound /\ devBusy' = FALSE
<1>0. TypeOK /\ OneState
  BY DEF LinkInv, Control
<1>1. ASSUME NEW k \in OutKinds \ {"STATE"}, doSIOAtEnd(Token(k))
      PROVE  Sends(k)
  <2>1. Token(k) \in OutRecords /\ Token(k).kind = k
    BY TokenType
  <2> QED
    BY <1>0, <1>1, <2>1, Wrote DEF doSIOAtEnd, Sends
<1>2. ASSUME NEW s \in Slots, enter_iTRANSMITTING(s)
      PROVE  pstate' = "iTRANSMITTING" /\ Sends("DATA")
  <2>1. msgId[s] \in Msgs \cup {NoMsg}
    BY DEF LinkInv, Pool!PoolInv, Pool!PoolTypeOK, Slots, Pool!Slots
  <2>2. Packet("DATA", s, msgId[s]) \in OutRecords /\ Packet("DATA", s, msgId[s]).kind = "DATA"
    BY <2>1, PacketType DEF Packet
  <2> QED
    BY <1>0, <1>2, <2>2, Wrote DEF enter_iTRANSMITTING, doSIOAtEnd, Sends
<1>3. noSIOAtEnd => OneState' /\ outbound' = outbound /\ devBusy' = FALSE
  BY <1>0 DEF noSIOAtEnd, OneState, outbound
<1>4. {"WELCOME", "WILL_SEND", "SEND_PACKET", "ACK", "RESET"} \subseteq OutKinds \ {"STATE"}
  BY DEF OutKinds
<1> QED
  BY <1>1, <1>2, <1>3, <1>4 DEF enter_iWELCOME, enter_iTRANSMITPREP, enter_iRECEIVING,
     enter_iIDLE, enter_iRESET

(* endReceivePacket while the connection is up: each record is one the     *)
(* state it arrives in was prepared for.                                   *)
LEMMA ReceivedUp ==
  ASSUME LinkInv, phase = "up", UNCHANGED outVars, inRecv,
         NEW k \in Nat \ {0}, k <= Len(toIn), toIn' = SubSeq(toIn, k + 1, Len(toIn)),
         NEW f \in BOOLEAN, k = 1 => ~f, k = 2 /\ toIn[2].kind # "WANT_SEND" => ~f,
         receive(toIn[1], f)
  PROVE  OneState' /\ LineUp' /\ SendingHead' /\ (Preparing' => havingRequest')
<1>0. LineUp /\ SendingHead /\ (Preparing => havingRequest) /\ pstate \notin Writing
  BY DEF LinkInv, Control, LineOK, Announces
<1>1. /\ toIn # <<>>
      /\ \A a : One(toIn, a) => a = toIn[1].kind /\ toIn' = <<>> /\ ~f
      /\ \A a, b : Two(toIn, a, b) =>
           /\ a = toIn[1].kind
           /\ \/ One(toIn', b) /\ ~f
              \/ toIn' = <<>> /\ (b # "WANT_SEND" => ~f)
  <2>1. TypeOK
    BY DEF LinkInv
  <2>2. /\ toIn # <<>>
        /\ \A a : One(toIn, a) => a = toIn[1].kind /\ toIn' = <<>> /\ k = 1
        /\ \A a, b : Two(toIn, a, b) =>
             /\ a = toIn[1].kind /\ b = toIn[2].kind
             /\ \/ k = 1 /\ One(toIn', b)
                \/ k = 2 /\ toIn' = <<>>
    BY <2>1, ReadIn
  <2> QED
    BY <2>2
<1>2. /\ toIn[1].kind = "WANT_SEND" => onWantSend
      /\ toIn[1].kind = "WELCOME" => onWelcome
      /\ toIn[1].kind = "ACK" => onAck(f)
      /\ toIn[1].kind = "ACK_WANT_SEND" => onAckWantSend
      /\ toIn[1].kind = "DATA" => onData(toIn[1], FALSE)
      /\ toIn[1].kind = "DATA_WANT_SEND" => onData(toIn[1], TRUE)
  BY DEF receive
<1>3. toIn[1].kind \notin {"DATA", "DATA_WANT_SEND"} => ~sending
  BY <1>0, <1>1 DEF SendingHead
<1>4. ~sending => SendingHead'
  BY DEF SendingHead, outVars, flagVars
<1>5. UNCHANGED poolVars => UNCHANGED havingRequest
  BY DEF havingRequest, poolVars, queueVars
<1>6. havingRequest => nextRequest \in Slots /\ nextRequest # NULL
  BY NextIsWaiting
<1> USE DEF Held, outVars, flagVars
<1>10. CASE WelcomeLine
  <2>1. pstate = "INITIAL" /\ outbound = <<>> /\ One(toIn, "WELCOME")
    BY <1>0, <1>10, <1>1 DEF WelcomeLine
  <2>2. enter_iWELCOME /\ ~sending /\ toIn' = <<>>
    BY <1>1, <1>2, <1>3, <2>1 DEF onWelcome
  <2> QED
    BY <1>4, <1>10, <2>1, <2>2, Entered DEF Sends, LineUp, WelcomeLine, Preparing
<1>11. CASE Idling /\ IdleLine
  <2>1. pstate = "IDLE" /\ outbound = <<>> /\ Held /\ waiting # <<>>
        /\ (One(toIn, "WANT_SEND") \/ One(toIn, "ACK_WANT_SEND"))
    BY <1>0, <1>1, <1>11 DEF Idling, Writing, IdleLine
  <2>2. toIn' = <<>> /\ ~sending
    BY <1>1, <1>3, <2>1
  <2>3. CASE One(toIn, "WANT_SEND")
    <3>1. enter_iRECEIVING
      BY <1>1, <1>2, <2>1, <2>3 DEF onWantSend
    <3> QED
      BY <1>4, <2>1, <2>2, <3>1, Entered DEF Sends, LineUp, Receiving, ReceiveLine, Preparing
  <2>4. CASE One(toIn, "ACK_WANT_SEND")
    <3>1. enter_iRESET
      BY <1>1, <1>2, <2>1, <2>4 DEF onAckWantSend
    <3> QED
      BY <1>4, <2>1, <2>2, <3>1, Entered DEF Sends, LineUp, Resetting, ResetLine, Preparing
  <2> QED
    BY <2>1, <2>3, <2>4
<1>12. CASE Preparing /\ (IdleLine \/ PrepLine)
  <2>0. pstate \in {"iTRANSMITPREP", "TRANSMITPREP"} /\ havingRequest
    BY <1>0, <1>12 DEF Preparing
  <2>1. \/ toIn[1].kind = "WANT_SEND"
        \/ toIn[1].kind = "ACK_WANT_SEND"
        \/ toIn[1].kind = "ACK"
    BY <1>1, <1>12 DEF IdleLine, PrepLine
  <2>2. ~sending
    BY <1>3, <2>1
  <2>3. CASE toIn[1].kind = "WANT_SEND"
    <3>1. /\ Held /\ waiting # <<>>
          /\ \/ outbound = <<>> /\ (toIn' = <<>> \/ One(toIn', "ACK"))
             \/ One(outbound, "WILL_SEND") /\ toIn' = <<>>
      BY <1>1, <1>12, <2>3 DEF IdleLine, PrepLine
    <3>2. CASE pstate = "TRANSMITPREP"
      <4>1. enter_iTRANSMITPREP /\ UNCHANGED poolVars
        BY <1>2, <2>3, <3>2 DEF onWantSend
      <4> QED
        BY <1>4, <1>5, <2>0, <2>2, <3>1, <4>1, Entered DEF Sends, LineUp, PrepLine, Preparing
    <3>3. CASE pstate = "iTRANSMITPREP"
      <4>1. enter_iRESET /\ UNCHANGED poolVars
        BY <1>2, <2>3, <3>3 DEF onWantSend
      <4> QED
        BY <1>4, <1>5, <2>0, <2>2, <3>1, <4>1, Entered DEF Sends, LineUp, Resetting, ResetLine,
           Preparing
    <3> QED
      BY <2>0, <3>2, <3>3
  <2>4. CASE toIn[1].kind = "ACK_WANT_SEND"
    <3>1. /\ Held /\ waiting # <<>>
          /\ \/ outbound = <<>> /\ (toIn' = <<>> \/ One(toIn', "ACK"))
             \/ One(outbound, "WILL_SEND") /\ toIn' = <<>>
      BY <1>1, <1>12, <2>4 DEF IdleLine, PrepLine
    <3>2. enter_iRESET /\ UNCHANGED poolVars
      BY <1>2, <2>0, <2>4 DEF onAckWantSend
    <3> QED
      BY <1>4, <1>5, <2>0, <2>2, <3>1, <3>2, Entered DEF Sends, LineUp, Resetting, ResetLine,
         Preparing
  <2>5. CASE toIn[1].kind = "ACK"
    <3>1. /\ Held
          /\ \/ outbound = <<>> /\ toIn' = <<>>
             \/ /\ waiting # <<>>
                /\ \/ outbound = <<>> /\ One(toIn', "ACK")
                   \/ One(outbound, "WILL_SEND") /\ toIn' = <<>>
      BY <1>1, <1>12, <2>5 DEF IdleLine, PrepLine
    <3>2. CASE pstate = "TRANSMITPREP"
      <4>1. nextRequest \in Slots /\ enter_iTRANSMITTING(nextRequest)
        BY <1>2, <1>6, <2>0, <2>5, <3>2 DEF onAck, onAckInTransmitPrep
      <4> QED
        BY <1>4, <2>2, <3>1, <4>1, Entered DEF Sends, LineUp, Transmitting, TransmitLine,
           Preparing
    <3>3. CASE pstate = "iTRANSMITPREP"
      <4>1. noSIOAtEnd /\ UNCHANGED <<poolVars, pstate>>
        BY <1>2, <2>5, <3>3 DEF onAck, onAckInTransmitPrep
      <4> QED
        BY <1>4, <1>5, <2>0, <2>2, <3>1, <4>1, Entered DEF LineUp, IdleLine, PrepLine, Preparing
    <3> QED
      BY <2>0, <3>2, <3>3
  <2> QED
    BY <2>1, <2>3, <2>4, <2>5
<1>13. CASE Transmitting /\ TransmitLine
  <2>0. pstate = "TRANSMITTING"
    BY <1>0, <1>13 DEF Transmitting, Writing
  <2>1. toIn[1].kind = "ACK" \/ toIn[1].kind = "ACK_WANT_SEND"
    BY <1>1, <1>13 DEF TransmitLine
  <2>2. ~sending
    BY <1>3, <2>1
  <2>3. CASE toIn[1].kind = "ACK_WANT_SEND"
    <3>1. Held /\ waiting # <<>> /\ outbound = <<>> /\ toIn' = <<>>
      BY <1>1, <1>13, <2>3 DEF TransmitLine
    <3>2. enter_iRECEIVING
      BY <1>2, <2>0, <2>3 DEF onAckWantSend
    <3> QED
      BY <1>4, <2>2, <3>1, <3>2, Entered DEF Sends, LineUp, Receiving, ReceiveLine, Preparing
  <2>4. CASE toIn[1].kind = "ACK"
    <3>1. \/ outbound = <<>> /\ toIn' = <<>> /\ ~f
          \/ /\ Held /\ waiting # <<>>
             /\ \/ One(outbound, "DATA") /\ toIn' = <<>> /\ ~f
                \/ /\ outbound = <<>>
                   /\ \/ (One(toIn', "ACK_WANT_SEND") \/ One(toIn', "WANT_SEND")) /\ ~f
                      \/ toIn' = <<>>
      BY <1>1, <1>13, <2>4 DEF TransmitLine
    <3>2. CASE havingRequest
      <4>1. enter_iTRANSMITPREP /\ UNCHANGED poolVars
        BY <1>2, <2>0, <2>4, <3>2 DEF onAck, onAckInTransmitPrep
      <4> QED
        BY <1>4, <1>5, <2>2, <3>1, <3>2, <4>1, Entered DEF Sends, LineUp, PrepLine, Preparing
    <3>3. CASE ~havingRequest /\ f
      <4>1. enter_iRECEIVING
        BY <1>2, <2>0, <2>4, <3>3 DEF onAck, onAckInTransmitPrep
      <4> QED
        BY <1>4, <2>2, <3>1, <3>3, <4>1, Entered DEF Sends, LineUp, Receiving, ReceiveLine,
           Preparing
    <3>4. CASE ~havingRequest /\ ~f
      <4>1. pstate' = "IDLE" /\ noSIOAtEnd
        BY <1>2, <2>0, <2>4, <3>4 DEF onAck, onAckInTransmitPrep
      <4> QED
        BY <1>4, <2>2, <3>1, <4>1, Entered DEF LineUp, Idling, IdleLine, Preparing
    <3> QED
      BY <3>2, <3>3, <3>4
  <2> QED
    BY <2>1, <2>3, <2>4
<1>14. CASE Receiving /\ ReceiveLine
  <2>0. pstate = "RECEIVING"
    BY <1>0, <1>14 DEF Receiving, Writing
  <2>1. /\ Held /\ sending /\ outbound = <<>> /\ toIn' = <<>>
        /\ \/ toIn[1].kind = "DATA"
           \/ toIn[1].kind = "DATA_WANT_SEND" /\ Len(waiting) > 1
    BY <1>1, <1>14 DEF ReceiveLine
  <2>2. waiting # <<>>
    BY <1>0, <2>1 DEF SendingHead
  <2>3. CASE toIn[1].kind = "DATA"
    <3>1. enter_iIDLE
      BY <1>2, <2>0, <2>3 DEF onData
    <3> QED
      BY <2>1, <2>2, <3>1, Entered DEF Sends, LineUp, Idling, IdleLine, SendingHead, Preparing
  <2>4. CASE toIn[1].kind = "DATA_WANT_SEND" /\ Len(waiting) > 1
    <3>1. enter_iRECEIVING
      BY <1>2, <2>0, <2>4 DEF onData
    <3> QED
      BY <2>1, <2>2, <2>4, <3>1, Entered DEF Sends, LineUp, Receiving, ReceiveLine, SendingHead,
         Preparing
  <2> QED
    BY <2>1, <2>3, <2>4
<1>15. CASE Resetting /\ ResetLine
  <2>0. pstate = "RESET"
    BY <1>0, <1>15 DEF Resetting, Writing
  <2>1. toIn[1].kind = "ACK" \/ toIn[1].kind = "ACK_WANT_SEND"
    BY <1>1, <1>15 DEF ResetLine
  <2>2. ~sending /\ Held /\ waiting # <<>>
    BY <1>3, <1>15, <2>1 DEF ResetLine
  <2>3. CASE toIn[1].kind = "ACK_WANT_SEND"
    <3>1. outbound = <<>> /\ toIn' = <<>>
      BY <1>1, <1>15, <2>3 DEF ResetLine
    <3>2. enter_iRECEIVING
      BY <1>2, <2>0, <2>3 DEF onAckWantSend
    <3> QED
      BY <1>4, <2>2, <3>1, <3>2, Entered DEF Sends, LineUp, Receiving, ReceiveLine, Preparing
  <2>4. CASE toIn[1].kind = "ACK"
    <3>1. /\ ~f
          /\ \/ outbound = <<>> /\ (One(toIn', "ACK_WANT_SEND") \/ toIn' = <<>>)
             \/ havingRequest /\ One(outbound, "RESET") /\ toIn' = <<>>
      BY <1>1, <1>15, <2>4 DEF ResetLine
    <3>2. CASE havingRequest
      <4>1. enter_iTRANSMITPREP /\ UNCHANGED poolVars
        BY <1>2, <2>0, <2>4, <3>2 DEF onAck, onAckInTransmitPrep
      <4> QED
        BY <1>4, <1>5, <2>2, <3>1, <3>2, <4>1, Entered DEF Sends, LineUp, PrepLine, Preparing
    <3>3. CASE ~havingRequest
      <4>1. pstate' = "IDLE" /\ noSIOAtEnd
        BY <1>2, <2>0, <2>4, <3>1, <3>3 DEF onAck, onAckInTransmitPrep
      <4> QED
        BY <1>4, <2>2, <3>1, <3>3, <4>1, Entered DEF LineUp, Idling, IdleLine, Preparing
    <3> QED
      BY <3>2, <3>3
  <2> QED
    BY <2>1, <2>3, <2>4
<1> QED
  BY <1>0, <1>10, <1>11, <1>12, <1>13, <1>14, <1>15 DEF LineUp

(* endReceivePacket while a new outside proxy is connecting: CLEAR, DIAL.  *)
LEMMA ReceivedDown ==
  ASSUME LinkInv, phase # "up", UNCHANGED outVars,
         NEW k \in Nat \ {0}, k <= Len(toIn), toIn' = SubSeq(toIn, k + 1, Len(toIn)),
         NEW f \in BOOLEAN, receive(toIn[1], f)
  PROVE  OneState' /\ LineDown' /\ devBusy' = TRUE /\ ~Preparing'
<1>0. OneState /\ LineDown /\ TypeOK
  BY DEF LinkInv, Control, LineOK
<1>1. /\ toOut \in Seq(OutRecords) /\ toIn \in Seq(InRecords) /\ Len(toIn) \in Nat /\ Len(toOut) \in Nat
      /\ DOMAIN toOut = 1 .. Len(toOut) /\ DOMAIN toIn = 1 .. Len(toIn)
      /\ 1 \in DOMAIN toIn /\ toIn # <<>>
  BY <1>0 DEF TypeOK, LineTypeOK, OutRecords, InRecords
<1>2. /\ DOMAIN toIn' = 1 .. Len(toIn) - k /\ Len(toIn') = Len(toIn) - k
      /\ \A i \in DOMAIN toIn' : toIn'[i] = toIn[i + k] /\ i + k \in DOMAIN toIn
  BY <1>1, Dropped
<1>3. toIn[1].kind \in {"CLEAR", "DIAL"}
  BY <1>0, <1>1 DEF LineDown
<1>4. \A i \in DOMAIN toOut : toOut[i].kind # "DIALED"
  BY <1>0, <1>1 DEF LineDown
<1>5. onClear \/ onDial
  BY <1>3 DEF receive
<1>6. PICK r \in OutRecords :
        /\ toOut' = Append(toOut, r) /\ devBusy' = TRUE /\ pstate' \notin {"iTRANSMITPREP", "TRANSMITPREP"}
        /\ r.kind \in {"CPREAD", "RESET", "DIALED"}
        /\ r.kind = "DIALED" => pstate' = "INITIAL" /\ toIn[1].kind = "DIAL"
  <2>1. /\ \A d \in {"CPREAD", "RESET", "DIALED"} : Token(d) \in OutRecords /\ Token(d).kind = d
    BY TokenType DEF OutKinds
  <2>2. CASE onClear
    BY <2>1, <2>2 DEF onClear, enter_iRECONNECT_CPREAD, doSIOAtEnd
  <2>3. CASE onDial
    <3>1. toIn[1].kind = "DIAL" \/ onClear
      BY <1>3 DEF receive
    <3>2. CASE enter_iRESET
      BY <2>1, <3>2 DEF enter_iRESET, doSIOAtEnd
    <3>3. CASE enter_iRECONNECT_DIALED
      BY <2>1, <2>2, <3>1, <3>3 DEF enter_iRECONNECT_DIALED, doSIOAtEnd
    <3> QED
      BY <2>3, <3>2, <3>3 DEF onDial
  <2> QED
    BY <1>5, <2>2, <2>3
<1>7. OneState'
  BY <1>0, <1>6, Wrote
<1>8. /\ DOMAIN toOut' = 1 .. Len(toOut) + 1 /\ Len(toOut') = Len(toOut) + 1
      /\ toOut'[Len(toOut) + 1] = r
      /\ \A i \in DOMAIN toOut : toOut'[i] = toOut[i]
  BY <1>1, <1>6, Appended
<1>9. ASSUME NEW i \in DOMAIN toOut' PROVE toOut'[i].kind # "DATA"
  BY <1>0, <1>1, <1>6, <1>8 DEF LineDown
<1>10. ASSUME NEW i \in DOMAIN toOut', toOut'[i].kind = "DIALED"
       PROVE  /\ phase' = "dial" /\ toIn' = <<>> /\ pstate' = "INITIAL"
              /\ \A j \in i + 1 .. Len(toOut') : toOut'[j].kind = "STATE"
  <2>1. i = Len(toOut) + 1 /\ r.kind = "DIALED"
    BY <1>1, <1>4, <1>8, <1>10
  <2>2. pstate' = "INITIAL" /\ toIn[1].kind = "DIAL"
    BY <1>6, <2>1
  <2>3. phase = "dial" /\ 1 = Len(toIn)
    BY <1>0, <1>1, <2>2 DEF LineDown
  <2>4. toIn' = <<>>
    BY <1>1, <2>3
  <2>5. \A j \in i + 1 .. Len(toOut') : toOut'[j].kind = "STATE"
    BY <1>1, <1>8, <2>1
  <2> QED
    BY <2>2, <2>3, <2>4, <2>5 DEF outVars
<1>11. ASSUME NEW i \in DOMAIN toIn'
       PROVE  /\ toIn'[i].kind \in {"CLEAR", "DIAL"}
              /\ toIn'[i].kind = "DIAL" =>
                   /\ phase' = "dial" /\ i = Len(toIn')
                   /\ \A j \in DOMAIN toOut' : toOut'[j].kind # "DIALED"
  <2>1. i + k \in DOMAIN toIn /\ toIn'[i] = toIn[i + k] /\ i \in Nat
    BY <1>2
  <2>2. toIn'[i].kind \in {"CLEAR", "DIAL"}
    BY <1>0, <2>1 DEF LineDown
  <2>3. toIn'[i].kind = "DIAL" => phase = "dial" /\ i + k = Len(toIn)
    BY <1>0, <2>1 DEF LineDown
  <2>4. i + k = Len(toIn) => i = Len(toIn')
    <3>1. Len(toIn') = Len(toIn) - k
      BY <1>2
    <3>2. i + k = Len(toIn) => i = Len(toIn) - k
      BY <1>1, <2>1
    <3> QED
      BY <3>1, <3>2
  <2>5. i \in 1 .. Len(toIn')
    BY <1>2
  <2>6. toIn' # <<>>
    BY <2>5
  <2> QED
    BY <1>10, <2>2, <2>3, <2>4, <2>6 DEF outVars
<1>12. waiting' = <<>> /\ working' = {} /\ ~sending' /\ Held'
  BY <1>0 DEF LineDown, outVars, flagVars, Held
<1>13. LineDown'
  BY <1>9, <1>10, <1>11, <1>12 DEF LineDown
<1> QED
  BY <1>6, <1>7, <1>13 DEF Preparing

(* Where handleExt has seen IDLE and its WILL_SEND is still to come, a     *)
(* record that is received overtakes it.                                   *)
LEMMA ReadingOvertakes ==
  ASSUME LinkInv, toIn # <<>>, NEW f \in BOOLEAN, receive(toIn[1], f),
         extPc \in {"enter", "startIO"} => pstate' \in {pstate, Settled(pstate)}
  PROVE  extPc \notin {"enter", "startIO"}
<1> SUFFICES ASSUME extPc \in {"enter", "startIO"} PROVE FALSE
  OBVIOUS
<1>1. pstate \in {"IDLE", "iTRANSMITPREP", "TRANSMITPREP"} /\ pstate' \in {pstate, Settled(pstate)}
  BY DEF LinkInv, Control, Announces, Preparing
<1>2. 1 \in DOMAIN toIn
  BY DEF LinkInv, TypeOK, LineTypeOK
<1>3. CASE phase = "up"
  <2>1. IdleLine
    BY <1>3 DEF LinkInv, Control, Announces, LineOK, LineUp, WelcomeLine, Idling, Preparing,
       Transmitting, Receiving, Resetting
  <2>2. toIn[1].kind \in {"WANT_SEND", "ACK_WANT_SEND"}
    BY <2>1 DEF IdleLine, One
  <2> QED
    BY <1>1, <2>2 DEF receive, onWantSend, onAckWantSend, enter_iRECEIVING, enter_iTRANSMITPREP,
       enter_iRESET, Settled
<1>4. CASE phase # "up"
  <2>1. toIn[1].kind \in {"CLEAR", "DIAL"}
    BY <1>2, <1>4 DEF LinkInv, Control, LineOK, LineDown
  <2> QED
    BY <1>1, <2>1 DEF receive, onClear, onDial, enter_iRECONNECT_CPREAD, enter_iRECONNECT_DIALED,
       enter_iRESET, Settled
<1> QED
  BY <1>3, <1>4

(* The device interrupt handler keeps the handshakes in order.             *)
LEMMA DevControl ==
  ASSUME LinkInv, devintHandler, UNCHANGED outVars, ~Overtaking
  PROVE  Control'
<1>0. OneState /\ LineOK /\ SendingHead /\ Announces /\ TypeOK
  BY DEF LinkInv, Control
<1>a. UNCHANGED extPc
  BY DEF devintHandler, beginReceivePacket, endWrite, endReceivePacket, receive, onWantSend,
     onWelcome, onAck, onAckInTransmitPrep, onAckWantSend, onClear, onDial, onData,
     getNextRequestToSend, replyAndFree, resetAllRequests, poolVars, extVars
<1>b. extPc \in {"enter", "startIO"} => pstate' \in {pstate, Settled(pstate)}
  BY <1>a DEF Overtaking
<1>1. extPc = "enter" => pstate = "IDLE" /\ pstate' = "IDLE"
  BY <1>0, <1>b DEF Announces, Settled
<1>c. extPc = "startIO" => Preparing /\ Preparing' /\ (phase' = "up" => IdleLine)
  BY <1>0, <1>b DEF Announces, Settled, Preparing, outVars
<1>2. /\ Preparing' => havingRequest'
      /\ pstate' \in Writing => devBusy' /\ ~inRecv'
      /\ extPc \in {"enter", "startIO"} => havingRequest' /\ (IdleLine => IdleLine')
      => Announces'
  BY <1>1, <1>a, <1>c DEF Announces
<1>3. UNCHANGED poolVars => UNCHANGED havingRequest
  BY DEF havingRequest, poolVars, queueVars
<1>4. UNCHANGED toOut => outbound' = outbound /\ OneState'
  BY <1>0 DEF outbound, OneState
<1>5. CASE beginReceivePacket
  <2>0. IdleLine => IdleLine'
    BY <1>3, <1>4, <1>5, SameLine DEF beginReceivePacket, Idling, Preparing, Transmitting,
       Receiving, Resetting
  <2>1. Announces'
    BY <1>0, <1>2, <1>3, <1>5, <2>0 DEF beginReceivePacket, Announces, Preparing
  <2> QED
    BY <1>0, <1>3, <1>4, <1>5, <2>1, SameLine, SameDown DEF beginReceivePacket, Control, LineOK,
       Idling, Preparing, Transmitting, Receiving, Resetting, outVars
<1>6. CASE endWrite
  <2>0. UNCHANGED <<poolVars, inRecv, toIn>> /\ ~inRecv /\ pstate \in PStates /\ UNCHANGED havingRequest
    BY <1>0, <1>3, <1>6 DEF endWrite, TypeOK, IoTypeOK
  <2>1. CASE pstate = "iIDLE" /\ havingRequest
    <3>0. extPc \notin {"enter", "startIO"}
      BY <1>1, <1>c, <2>1 DEF Preparing
    <3>1. enter_iTRANSMITPREP
      BY <1>6, <2>1 DEF endWrite, deviceEnd
    <3>2. toOut' = Append(toOut, Token("WILL_SEND")) /\ devBusy' = TRUE /\ pstate' = "iTRANSMITPREP"
      BY <3>1 DEF enter_iTRANSMITPREP, doSIOAtEnd
    <3>3. Announces'
      BY <1>2, <2>0, <2>1, <3>0, <3>2
    <3>4. CASE phase = "up"
      <4>1. IdleLine
        BY <1>0, <2>1, <3>4 DEF LineOK, LineUp, WelcomeLine, Idling, Preparing, Transmitting,
           Receiving, Resetting
      <4> QED
        BY <2>0, <3>2, <3>3, <3>4, <4>1, WroteWillSend DEF Control, LineOK, LineUp, Preparing,
           outVars
    <3>5. CASE phase # "up"
      <4>1. Token("WILL_SEND") \in OutRecords /\ Token("WILL_SEND").kind = "WILL_SEND"
        BY TokenType DEF OutKinds
      <4>2. OneState' /\ LineDown'
        BY <1>0, <2>0, <2>1, <3>2, <3>5, <4>1, Wrote, WroteDown DEF LineOK
      <4> QED
        BY <3>3, <3>5, <4>2 DEF Control, LineOK, LineDown, SendingHead, outVars
    <3> QED
      BY <3>4, <3>5
  <2>2. CASE pstate = "iWELCOME"
    <3>0. extPc \notin {"enter", "startIO"}
      BY <1>1, <1>c, <2>2 DEF Preparing
    <3>1. enter_iIDLE
      BY <1>6, <2>2 DEF endWrite, deviceEnd
    <3>2. toOut' = Append(toOut, Token("ACK")) /\ devBusy' = TRUE /\ pstate' = "iIDLE"
      BY <3>1 DEF enter_iIDLE, doSIOAtEnd
    <3>3. Announces'
      BY <1>2, <2>0, <3>0, <3>2 DEF Preparing
    <3>4. CASE phase = "up"
      <4>1. (outbound = <<>> \/ One(outbound, "WELCOME")) /\ toIn = <<>> /\ Held
        BY <1>0, <2>2, <3>4 DEF LineOK, LineUp, WelcomeLine, Idling, Preparing, Transmitting,
           Receiving, Resetting
      <4>2. OneState' /\ (One(outbound', "ACK") \/ Two(outbound', "WELCOME", "ACK"))
        BY <3>1, <4>1, Entered DEF Sends
      <4>3. ~sending
        BY <1>0, <4>1, Distinct DEF SendingHead
      <4> QED
        BY <2>0, <3>2, <3>3, <3>4, <4>1, <4>2, <4>3 DEF Control, LineOK, LineUp, Idling, IdleLine,
           SendingHead, Held, outVars, flagVars
    <3>5. CASE phase # "up"
      <4>1. Token("ACK") \in OutRecords /\ Token("ACK").kind = "ACK"
        BY TokenType DEF OutKinds
      <4>2. OneState' /\ LineDown'
        BY <1>0, <2>0, <2>2, <3>2, <3>5, <4>1, Wrote, WroteDown DEF LineOK
      <4> QED
        BY <3>3, <3>5, <4>2 DEF Control, LineOK, LineDown, SendingHead, outVars
    <3> QED
      BY <3>4, <3>5
  <2>3. CASE pstate # "iWELCOME" /\ ~(pstate = "iIDLE" /\ havingRequest)
    <3>1. pstate' = Settled(pstate) /\ UNCHANGED toOut
      BY <1>6, <2>3 DEF endWrite, deviceEnd, noSIOAtEnd
    <3>2. /\ pstate = "INITIAL" => pstate' = pstate
          /\ Idling => Idling'
          /\ Preparing => Preparing'
          /\ Transmitting => Transmitting'
          /\ Receiving => Receiving'
          /\ Resetting => Resetting'
          /\ Preparing' => Preparing
          /\ pstate' \notin Writing
      BY <2>0, <2>3, <3>1 DEF Settled, PStates, Idling, Preparing, Transmitting, Receiving,
         Resetting, Writing
    <3>4. pstate \in {"INITIAL", "iWELCOME"} => UNCHANGED pstate
      BY <2>3, <3>2
    <3>5. (LineUp => LineUp') /\ SendingHead' /\ (IdleLine => IdleLine')
      BY <1>4, <2>0, <3>1, <3>2, <3>4, SameLine
    <3>3. Announces'
      BY <1>0, <1>2, <2>0, <3>2, <3>5 DEF Announces
    <3>6. LineDown => LineDown'
      BY <2>0, <3>1, <3>2, SameDown
    <3> QED
      BY <1>0, <1>4, <3>1, <3>3, <3>5, <3>6 DEF Control, LineOK, outVars
  <2> QED
    BY <2>1, <2>2, <2>3
<1>7. CASE endReceivePacket
  <2>0. inRecv /\ inRecv' = FALSE /\ pstate \notin Writing
    BY <1>0, <1>7 DEF endReceivePacket, Announces
  <2>1. CASE toIn = <<>> /\ noSIOAtEnd /\ UNCHANGED <<poolVars, pstate, toIn>>
    <3>0. IdleLine => IdleLine'
      BY <1>3, <1>4, <2>1, SameLine DEF noSIOAtEnd, Idling, Preparing, Transmitting, Receiving,
         Resetting
    <3>1. Announces'
      BY <1>0, <1>2, <1>3, <2>0, <2>1, <3>0 DEF Announces, Preparing
    <3> QED
      BY <1>0, <1>3, <1>4, <2>1, <3>1, SameLine, SameDown DEF noSIOAtEnd, Control, LineOK, Idling,
         Preparing, Transmitting, Receiving, Resetting, outVars
  <2>2. ASSUME NEW k \in 1 .. MaxCoalesce, k <= Len(toIn), toIn' = SubSeq(toIn, k + 1, Len(toIn)),
               NEW f \in BOOLEAN, k = 1 => ~f, k = 2 /\ toIn[2].kind # "WANT_SEND" => ~f,
               receive(toIn[1], f)
        PROVE  Control'
    <3>0. extPc \notin {"enter", "startIO"}
      <4>1. toIn # <<>>
        BY <2>2
      <4> QED
        BY <1>b, <2>2, <4>1, ReadingOvertakes
    <3>1. k \in Nat \ {0}
      BY CoalesceAssumption
    <3>2. pstate' \in Writing => devBusy' = TRUE
      BY <2>0, <2>2 DEF receive, onWantSend, onWelcome, onAck, onAckInTransmitPrep, onAckWantSend,
         onClear, onDial, onData, enter_iWELCOME, enter_iTRANSMITPREP, enter_iRECEIVING,
         enter_iIDLE, enter_iRESET, enter_iRECONNECT_CPREAD, enter_iRECONNECT_DIALED,
         enter_iTRANSMITTING, doSIOAtEnd, Writing
    <3>3. CASE phase = "up"
      <4>1. OneState' /\ LineUp' /\ SendingHead' /\ (Preparing' => havingRequest')
        BY <2>0, <2>2, <3>1, <3>3, ReceivedUp
      <4> QED
        BY <1>2, <2>0, <3>0, <3>2, <3>3, <4>1 DEF Control, LineOK, outVars
    <3>4. CASE phase # "up"
      <4>1. OneState' /\ LineDown' /\ ~Preparing'
        BY <2>2, <3>1, <3>4, ReceivedDown
      <4> QED
        BY <1>2, <2>0, <3>0, <3>2, <3>4, <4>1 DEF Control, LineOK, LineDown, SendingHead, outVars
    <3> QED
      BY <3>3, <3>4
  <2>3. ASSUME NEW k \in 1 .. MaxCoalesce, k <= Len(toIn), toIn' = SubSeq(toIn, k + 1, Len(toIn)),
               receive(toIn[1], k >= 2 /\ toIn[2].kind = "WANT_SEND")
        PROVE  Control'
    <3>1. (k >= 2 /\ toIn[2].kind = "WANT_SEND") \in BOOLEAN
      OBVIOUS
    <3>2. k = 1 => ~(k >= 2 /\ toIn[2].kind = "WANT_SEND")
      OBVIOUS
    <3>3. k = 2 /\ toIn[2].kind # "WANT_SEND" => ~(k >= 2 /\ toIn[2].kind = "WANT_SEND")
      OBVIOUS
    <3> QED
      BY <2>2, <2>3, <3>1, <3>2, <3>3
  <2> QED
    BY <1>7, <2>1, <2>3 DEF endReceivePacket
<1> QED
  BY <1>5, <1>6, <1>7 DEF devintHandler

-----------------------------------------------------------------------------
(* The handshakes, step by step of the outside proxy, which does not       *)
(* change the state of the inside proxy.                                   *)

(* Whatever the line holds stays right for the state it is right for.      *)
KeepsLine ==
  /\ WelcomeLine => WelcomeLine'
  /\ IdleLine => IdleLine'
  /\ PrepLine => PrepLine'
  /\ TransmitLine => TransmitLine'
  /\ ReceiveLine => ReceiveLine'
  /\ ResetLine => ResetLine'

(* The outside proxy has written a k.                                      *)
Answers(k) ==
  /\ toIn = <<>> => One(toIn', k)
  /\ \A a : One(toIn, a) => Two(toIn', a, k)

(* A record that is read is answered as the host expects.                  *)
LEMMA ReceivedByOutside ==
  ASSUME LinkInv, receiveRecord, UNCHANGED <<poolVars, pstate>>
  PROVE  OneState' /\ KeepsLine /\ (LineUp => SendingHead')
<1>0. TypeOK /\ OneState /\ SendingHead /\ toOut # <<>> /\ toOut' = Tail(toOut)
  BY DEF LinkInv, Control, receiveRecord
<1>1. OneState' /\ (Head(toOut).kind = "STATE" => outbound' = outbound)
  BY <1>0, Read
<1>2. Head(toOut).kind # "STATE" =>
        /\ outbound # <<>>
        /\ \A a : One(outbound, a) => a = Head(toOut).kind /\ outbound' = <<>>
        /\ \A a, b : Two(outbound, a, b) => a = Head(toOut).kind /\ One(outbound', b)
        /\ \A a, b, c : Three(outbound, a, b, c) => a = Head(toOut).kind /\ Two(outbound', b, c)
  BY <1>0, Read
<1>3. ASSUME NEW k \in InKinds, write(Token(k)) PROVE Answers(k)
  <2>1. Token(k) \in InRecords /\ Token(k).kind = k
    BY TokenType
  <2> QED
    BY <1>0, <1>3, <2>1, WroteIn DEF write, Answers
<1>4. UNCHANGED havingRequest
  BY DEF havingRequest, poolVars, queueVars
<1>5. ~sending' => SendingHead'
  BY DEF SendingHead
<1>6. waiting \in Seq(Requests) /\ finishFirstQueued \in Seq(Requests)
  BY <1>0 DEF TypeOK, OutTypeOK, finishFirstQueued
<1> USE DEF KeepsLine, WelcomeLine, IdleLine, PrepLine, TransmitLine, ReceiveLine, ResetLine, Held, Answers
<1>10. CASE Head(toOut).kind = "WILL_SEND"
  <2>1. onWillSend
    BY <1>10 DEF receiveRecord, handleHandshake
  <2>2. Answers("ACK") /\ ~sending' /\ ~mayRequestSend' /\ UNCHANGED waiting
    BY <1>3, <2>1 DEF onWillSend, flags, InKinds
  <2> QED
    BY <1>1, <1>2, <1>4, <1>5, <1>10, <2>2
<1>11. CASE Head(toOut).kind = "ACK"
  <2>1. onHostAck
    BY <1>11 DEF receiveRecord, handleHandshake
  <2>2. ~sending' /\ UNCHANGED toIn
    BY <2>1 DEF onHostAck, flags
  <2> QED
    BY <1>1, <1>2, <1>5, <1>11, <2>2
<1>12. CASE Head(toOut).kind = "SEND_PACKET"
  <2>1. onSendPacket
    BY <1>12 DEF receiveRecord, handleHandshake
  <2>2. UNCHANGED <<mayRequestSend, pendingRequestSend>> /\ waiting' = finishFirstQueued
    BY <2>1 DEF onSendPacket
  <2>3. ASSUME ReceiveLine
        PROVE  /\ sending' /\ outbound' = <<>> /\ waiting' # <<>>
               /\ \/ One(toIn', "DATA")
                  \/ One(toIn', "DATA_WANT_SEND") /\ Len(waiting') > 1
    <3>1. /\ One(outbound, "SEND_PACKET") /\ toIn = <<>> /\ outbound' = <<>>
          /\ IF sending THEN Len(waiting) > 1 ELSE waiting # <<>>
      BY <1>2, <1>12, <2>3
    <3>2. finishFirstQueued # <<>>
      <4>1. CASE sending
        <5>1. finishFirstQueued = Tail(waiting) /\ Len(waiting) > 1
          BY <1>6, <3>1, <4>1 DEF finishFirstQueued
        <5>2. Len(waiting) - 1 > 0 /\ Len(Tail(waiting)) = Len(waiting) - 1
          BY <1>6, <5>1
        <5>3. Tail(waiting) # <<>>
          BY <5>2
        <5> QED
          BY <5>1, <5>3
      <4>2. CASE ~sending
        BY <3>1, <4>2 DEF finishFirstQueued
      <4> QED
        BY <4>1, <4>2
    <3>3. PICK q : q = finishFirstQueued
      OBVIOUS
    <3>4. q \in Seq(Requests) /\ q # <<>> /\ waiting' = q /\ Head(q) \in Requests /\ Len(q) \in Nat \ {0}
      BY <1>6, <2>2, <3>2, <3>3
    <3>5. sending' = TRUE /\ write(Packet(IF Len(q) = 1 THEN "DATA" ELSE "DATA_WANT_SEND",
                                          Head(q).slot, Head(q).msg))
      BY <2>1, <3>3, <3>4 DEF onSendPacket, sendFirstQueued
    <3>6. \A d \in {"DATA", "DATA_WANT_SEND"} :
            /\ Packet(d, Head(q).slot, Head(q).msg) \in InRecords
            /\ Packet(d, Head(q).slot, Head(q).msg).kind = d
      BY <3>4, PacketType DEF Requests, Packet
    <3>7. CASE Len(q) = 1
      BY <1>0, <3>1, <3>4, <3>5, <3>6, <3>7, WroteIn DEF write
    <3>8. CASE Len(q) # 1
      <4>1. toIn' = Append(toIn, Packet("DATA_WANT_SEND", Head(q).slot, Head(q).msg))
        BY <3>5, <3>8 DEF write
      <4>2. One(toIn', "DATA_WANT_SEND")
        BY <1>0, <3>1, <3>6, <4>1, WroteIn
      <4>3. Len(q) > 1
        <5>1. Len(q) \in Nat /\ Len(q) # 0
          BY <3>4
        <5> QED
          BY <3>8, <5>1
      <4>4. waiting' = q /\ q # <<>> /\ Len(waiting') > 1
        BY <3>4, <4>3
      <4>5. sending' = TRUE
        BY <3>5
      <4> QED
        BY <3>1, <4>2, <4>4, <4>5
    <3> QED
      BY <3>7, <3>8
  <2>4. LineUp => ReceiveLine
    BY <1>2, <1>12 DEF LineUp
  <2>5. LineUp => SendingHead'
    BY <2>3, <2>4 DEF SendingHead
  <2>6. ReceiveLine => ReceiveLine'
    BY <2>2, <2>3
  <2> QED
    BY <1>1, <1>2, <1>12, <2>5, <2>6
<1>13. CASE Head(toOut).kind = "WELCOME"
  <2>1. onHostWelcome
    BY <1>13 DEF receiveRecord, handleHandshake
  <2>2. ~sending' /\ ~mayRequestSend' /\ UNCHANGED <<waiting, toIn>>
    BY <2>1 DEF onHostWelcome, flags
  <2> QED
    BY <1>1, <1>2, <1>5, <1>13, <2>2
<1>14. CASE Head(toOut).kind = "RESET"
  <2>1. onReset
    BY <1>14 DEF receiveRecord, handleHandshake
  <2>2. ~sending' /\ UNCHANGED waiting /\ (waiting # <<>> => Answers("ACK_WANT_SEND") /\ pendingRequestSend')
    BY <1>3, <2>1 DEF onReset, flags, InKinds
  <2> QED
    BY <1>1, <1>2, <1>4, <1>5, <1>14, <2>2
<1>15. CASE Head(toOut).kind = "STATE"
  <2>1. onState
    BY <1>15 DEF receiveRecord, handleHandshake
  <2>2. UNCHANGED <<sending, mayRequestSend, pendingRequestSend, waiting, toIn>>
    BY <2>1 DEF onState, flagVars
  <2>3. SendingHead'
    BY <1>0, <1>1, <1>15, <2>2 DEF SendingHead
  <2> QED
    BY <1>1, <1>4, <1>15, <2>2, <2>3
<1>16. CASE Head(toOut).kind = "DATA"
  <2>1. onRequest(Head(toOut))
    BY <1>16 DEF receiveRecord, handleHandshake
  <2>2. /\ ~sending' /\ UNCHANGED waiting
        /\ waiting # <<>> => Answers("ACK_WANT_SEND") /\ ~mayRequestSend'
        /\ waiting = <<>> => Answers("ACK")
    BY <1>3, <2>1 DEF onRequest, flags, InKinds
  <2> QED
    BY <1>1, <1>2, <1>5, <1>16, <2>2
<1> QED
  BY <1>10, <1>11, <1>12, <1>13, <1>14, <1>15, <1>16 DEF receiveRecord, handleHandshake

(* A response that becomes ready is announced, or waits its turn.          *)
LEMMA ResponseAnnounced ==
  ASSUME LinkInv, NEW r \in working, sendResponse(r), UNCHANGED <<poolVars, pstate>>
  PROVE  OneState' /\ KeepsLine /\ SendingHead'
<1>0. TypeOK /\ OneState /\ SendingHead /\ UNCHANGED <<toOut, sending, mayRequestSend>> /\ outbound' = outbound
  BY DEF LinkInv, Control, sendResponse, outbound
<1>1. OneState'
  BY <1>0 DEF OneState
<1>2. UNCHANGED havingRequest
  BY DEF havingRequest, poolVars, queueVars
<1>3. waiting' # <<>> /\ (Len(waiting) > 1 => Len(waiting') > 1)
  <2>1. waiting \in Seq(Requests) /\ r \in Requests
    BY <1>0 DEF TypeOK, OutTypeOK
  <2>2. waiting' = Append(waiting, r)
    BY DEF sendResponse
  <2>3. Len(waiting') = Len(waiting) + 1 /\ Len(waiting) \in Nat /\ waiting' \in Seq(Requests)
    BY <2>1, <2>2
  <2> QED
    BY <2>3
<1> USE DEF KeepsLine, WelcomeLine, IdleLine, PrepLine, TransmitLine, ReceiveLine, ResetLine, Held
<1>4. CASE waiting = <<>> /\ mayRequestSend /\ ~pendingRequestSend
  <2>1. write(Token("WANT_SEND")) /\ pendingRequestSend' = TRUE
    BY <1>4 DEF sendResponse
  <2>2. Token("WANT_SEND") \in InRecords /\ Token("WANT_SEND").kind = "WANT_SEND"
    BY TokenType DEF InKinds
  <2>3. (toIn = <<>> => One(toIn', "WANT_SEND")) /\ (\A a : One(toIn, a) => Two(toIn', a, "WANT_SEND"))
    BY <1>0, <2>1, <2>2, WroteIn DEF write
  <2>4. ~sending
    BY <1>0, <1>4 DEF SendingHead
  <2>5. SendingHead'
    BY <1>0, <2>4 DEF SendingHead
  <2> QED
    BY <1>0, <1>1, <1>3, <1>4, <2>1, <2>3, <2>5
<1>5. CASE ~(waiting = <<>> /\ mayRequestSend /\ ~pendingRequestSend)
  <2>1. UNCHANGED <<pendingRequestSend, toIn>>
    BY <1>5 DEF sendResponse
  <2>2. SendingHead'
    BY <1>0, <1>3, <2>1 DEF SendingHead
  <2> QED
    BY <1>0, <1>1, <1>2, <1>3, <2>1, <2>2
<1> QED
  BY <1>4, <1>5

(* Only a dump can follow the DIALED: nothing is agreed upon yet.          *)
LEMMA OnlyStates ==
  ASSUME NEW s \in Seq(OutRecords), AtMostOneState(s), \A i \in DOMAIN s : s[i].kind = "STATE"
  PROVE  Handshakes(s) = <<>>
<1>1. CASE s = <<>>
  BY <1>1, HandshakesType
<1>2. CASE s # <<>>
  <2>1. Len(s) \in Nat /\ Len(s) # 0
    BY <1>2
  <2>2. 1 \in DOMAIN s /\ Len(s) \in DOMAIN s
    BY <2>1
  <2>3. Len(s) = 1
    BY <2>2 DEF AtMostOneState
  <2>4. Len(Handshakes(s)) = Len(s) - 1
    BY <2>2, HandshakesAt
  <2>5. Handshakes(s) \in Seq(OutRecords)
    BY HandshakesType
  <2> QED
    BY <2>3, <2>4, <2>5
<1> QED
  BY <1>1, <1>2

(* A new outside proxy connects.                                           *)
LEMMA ConnectsControl ==
  ASSUME LinkInv, restartProxy \/ clearAgain \/ connect, UNCHANGED <<poolVars, pstate>>
  PROVE  /\ OneState' /\ LineOK' /\ SendingHead'
         /\ phase' = "up" => pstate = "INITIAL"
<1>0. TypeOK /\ OneState /\ (phase # "up" => LineDown)
  BY DEF LinkInv, Control, LineOK
<1>1. /\ toOut \in Seq(OutRecords) /\ toIn \in Seq(InRecords)
      /\ Len(toIn) \in Nat /\ Len(toOut) \in Nat
      /\ DOMAIN toOut = 1 .. Len(toOut) /\ DOMAIN toIn = 1 .. Len(toIn)
  BY <1>0 DEF TypeOK, LineTypeOK, OutRecords, InRecords
<1>2. ASSUME NEW d \in {"CLEAR", "DIAL", "WELCOME"}, write(Token(d))
      PROVE  /\ toIn' \in Seq(InRecords) /\ Len(toIn') = Len(toIn) + 1 /\ DOMAIN toIn' = 1 .. Len(toIn) + 1
             /\ \A i \in 1 .. Len(toIn) : toIn'[i] = toIn[i]
             /\ toIn'[Len(toIn) + 1].kind = d
  <2>1. Token(d) \in InRecords /\ Token(d).kind = d
    BY TokenType DEF InKinds
  <2> QED
    BY <1>1, <1>2, <2>1 DEF write
<1>3. CASE restartProxy
  <2>1. /\ toOut' = <<>> /\ toIn' = <<Token("CLEAR")>> /\ phase' = "start"
        /\ waiting' = <<>> /\ working' = {} /\ ~sending' /\ ~mayRequestSend'
    BY <1>3 DEF restartProxy, reconnect, flags
  <2>2. Token("CLEAR").kind = "CLEAR"
    BY DEF Token
  <2>3. OneState'
    BY <2>1 DEF OneState
  <2>4. DOMAIN toIn' = {1} /\ toIn'[1].kind = "CLEAR" /\ DOMAIN toOut' = {}
    BY <2>1, <2>2
  <2>5. LineDown'
    BY <2>1, <2>4 DEF LineDown, Held
  <2> QED
    BY <2>1, <2>3, <2>5 DEF LineOK, SendingHead
<1>4. CASE clearAgain
  <2>0. LineDown /\ phase = "start" /\ phase' = "start2" /\ UNCHANGED <<flagVars, waiting, working, toOut>>
        /\ write(Token("CLEAR"))
    BY <1>0, <1>4 DEF clearAgain
  <2>1. \A i \in DOMAIN toOut : toOut[i].kind \notin {"DIALED", "DATA"}
    BY <2>0 DEF LineDown
  <2>2. \A i \in DOMAIN toIn : toIn[i].kind = "CLEAR"
    BY <2>0 DEF LineDown
  <2>3. \A i \in DOMAIN toIn' : toIn'[i].kind = "CLEAR"
    BY <1>1, <1>2, <2>0, <2>2
  <2>4. LineDown'
    BY <2>0, <2>1, <2>3 DEF LineDown, Held, flagVars
  <2>5. OneState'
    BY <1>0, <2>0 DEF OneState
  <2> QED
    BY <2>0, <2>4, <2>5 DEF LineOK, SendingHead, LineDown
<1>5. CASE connect
  <2>0. /\ phase # "up" /\ LineDown /\ toOut # <<>> /\ toOut' = Tail(toOut)
        /\ UNCHANGED <<mayRequestSend, pendingRequestSend, waiting, working>> /\ ~sending'
    <3>1. /\ phase # "up" /\ toOut # <<>> /\ toOut' = Tail(toOut)
          /\ UNCHANGED <<mayRequestSend, pendingRequestSend, waiting, working>>
      BY <1>5 DEF connect, checkStartScreens, clearCurrentScreen, dialToVm, connectStep
    <3>2. LineDown /\ ~sending
      BY <1>0, <3>1 DEF LineDown
    <3>3. UNCHANGED sending \/ sending' = (sending /\ phase' # "up")
      BY <1>5 DEF connect, checkStartScreens, clearCurrentScreen, dialToVm
    <3>4. (sending /\ phase' # "up") = FALSE
      BY <3>2
    <3>5. sending' = FALSE \/ UNCHANGED sending
      BY <3>3, <3>4, Zenon
    <3> QED
      BY <3>1, <3>2, <3>5
  <2>1. OneState'
    BY <1>0, <2>0, Read
  <2>2. PICK t : t = Tail(toOut)
    OBVIOUS
  <2>3. /\ t \in Seq(OutRecords) /\ Head(toOut) = toOut[1] /\ 1 \in DOMAIN toOut /\ Len(t) = Len(toOut) - 1
        /\ \A i \in 1 .. Len(toOut) - 1 : t[i] = toOut[i + 1]
    BY <1>1, <2>0, <2>2, Tailed
  <2>4. /\ toOut' = t /\ DOMAIN t = 1 .. Len(toOut) - 1
        /\ \A i \in DOMAIN t : t[i] = toOut[i + 1] /\ i + 1 \in DOMAIN toOut /\ i \in Nat
    <3>1. DOMAIN t = 1 .. Len(toOut) - 1
      BY <2>3
    <3>2. \A i \in 1 .. Len(toOut) - 1 : i + 1 \in 1 .. Len(toOut) /\ i \in Nat
      BY <1>1
    <3> QED
      BY <1>1, <2>0, <2>2, <2>3, <3>1, <3>2
  <2>5. waiting' = <<>> /\ working' = {} /\ Held' /\ SendingHead'
    BY <2>0 DEF LineDown, Held, SendingHead
  <2>6. \A i \in DOMAIN t : t[i].kind # "DATA"
    BY <2>0, <2>4 DEF LineDown
  <2>7. CASE UNCHANGED <<phase, toIn>>
    <3>1. ASSUME NEW i \in DOMAIN t, t[i].kind = "DIALED"
          PROVE  /\ phase = "dial" /\ toIn = <<>> /\ pstate = "INITIAL"
                 /\ \A j \in i + 1 .. Len(t) : t[j].kind = "STATE"
      <4>1. toOut[i + 1].kind = "DIALED" /\ i + 1 \in DOMAIN toOut /\ i \in Nat
        BY <2>4, <3>1
      <4>2. /\ phase = "dial" /\ toIn = <<>> /\ pstate = "INITIAL"
            /\ \A j \in (i + 1) + 1 .. Len(toOut) : toOut[j].kind = "STATE"
        BY <2>0, <4>1 DEF LineDown
      <4>3. ASSUME NEW j \in i + 1 .. Len(t) PROVE t[j].kind = "STATE"
        <5>1. Len(t) = Len(toOut) - 1
          BY <2>3
        <5>2. j \in 1 .. Len(toOut) - 1 /\ j + 1 \in (i + 1) + 1 .. Len(toOut)
          BY <1>1, <4>1, <5>1
        <5> QED
          BY <2>4, <4>2, <5>2
      <4> QED
        BY <4>2, <4>3
    <3>2. \A j \in DOMAIN t : t[j].kind = "DIALED" => \E i \in DOMAIN toOut : toOut[i].kind = "DIALED"
      BY <2>4
    <3>3. LineDown'
      BY <2>0, <2>4, <2>5, <2>6, <2>7, <3>1, <3>2 DEF LineDown
    <3> QED
      BY <2>0, <2>1, <2>5, <2>7, <3>3 DEF LineOK
  <2>8. CASE phase \in {"start", "start2"} /\ phase' = "clear" /\ write(Token("CLEAR"))
    <3>1. \A i \in DOMAIN toIn : toIn[i].kind = "CLEAR"
      BY <2>0, <2>8 DEF LineDown
    <3>2. \A i \in DOMAIN toIn' : toIn'[i].kind = "CLEAR"
      BY <1>1, <1>2, <2>8, <3>1
    <3>3. \A i \in DOMAIN t : t[i].kind # "DIALED"
      BY <2>0, <2>4, <2>8 DEF LineDown
    <3>4. LineDown'
      BY <2>4, <2>5, <2>0, <2>6, <3>2, <3>3 DEF LineDown
    <3> QED
      BY <2>1, <2>5, <2>8, <3>4 DEF LineOK
  <2>9. CASE phase = "clear" /\ phase' = "dial" /\ write(Token("DIAL"))
    <3>1. \A i \in DOMAIN toIn : toIn[i].kind = "CLEAR"
      BY <2>0, <2>9 DEF LineDown
    <3>2. \A i \in DOMAIN toIn' : toIn'[i].kind = "CLEAR" \/ (toIn'[i].kind = "DIAL" /\ i = Len(toIn'))
      BY <1>1, <1>2, <2>9, <3>1
    <3>3. \A i \in DOMAIN t : t[i].kind # "DIALED"
      BY <2>0, <2>4, <2>9 DEF LineDown
    <3>4. LineDown'
      BY <2>4, <2>5, <2>0, <2>6, <2>9, <3>2, <3>3 DEF LineDown
    <3> QED
      BY <2>1, <2>5, <2>9, <3>4 DEF LineOK
  <2>10. CASE Head(toOut).kind = "DIALED" /\ phase = "dial" /\ phase' = "up" /\ write(Token("WELCOME"))
    <3>1. /\ toIn = <<>> /\ pstate = "INITIAL"
          /\ \A j \in 1 + 1 .. Len(toOut) : toOut[j].kind = "STATE"
      BY <2>0, <2>3, <2>10 DEF LineDown
    <3>2. \A i \in DOMAIN t : i + 1 \in 1 + 1 .. Len(toOut)
      BY <1>1, <2>4
    <3>3. \A i \in DOMAIN t : t[i].kind = "STATE"
      BY <2>4, <3>1, <3>2
    <3>4. AtMostOneState(t)
      BY <2>1, <2>4 DEF OneState, AtMostOneState
    <3>5. outbound' = <<>>
      BY <2>3, <2>4, <3>3, <3>4, OnlyStates DEF outbound
    <3>6. Token("WELCOME") \in InRecords /\ Token("WELCOME").kind = "WELCOME"
      BY TokenType DEF InKinds
    <3>7. One(toIn', "WELCOME")
      BY <1>0, <2>10, <3>1, <3>6, WroteIn DEF write
    <3>8. WelcomeLine'
      BY <2>5, <3>1, <3>5, <3>7 DEF WelcomeLine
    <3> QED
      BY <2>1, <2>5, <2>10, <3>1, <3>8 DEF LineOK, LineUp
  <2> QED
    BY <1>5, <2>7, <2>8, <2>9, <2>10 DEF connect, checkStartScreens, clearCurrentScreen, dialToVm,
       connectStep
<1> QED
  BY <1>3, <1>4, <1>5

(* The outside proxy keeps the handshakes in order.                        *)
LEMMA OutControl ==
  ASSUME LinkInv, Outside
  PROVE  Control'
<1>0. LineOK /\ Announces /\ UNCHANGED <<poolVars, pstate, inRecv, devBusy>>
  BY DEF LinkInv, Control, Outside
<1>1. UNCHANGED <<havingRequest, extPc>>
  BY <1>0 DEF havingRequest, poolVars, queueVars, extVars
<1>2. (extPc = "startIO" => (phase' = "up" => IdleLine')) => Announces'
  BY <1>0, <1>1 DEF Announces, Preparing
<1>3. CASE receiveRecord \/ \E r \in working : sendResponse(r)
  <2>1. phase = "up" /\ phase' = "up"
    <3>1. CASE receiveRecord
      BY <3>1 DEF receiveRecord
    <3>2. CASE \E r \in working : sendResponse(r)
      BY <1>0, <3>2 DEF sendResponse, LineOK, LineDown
    <3> QED
      BY <1>3, <3>1, <3>2
  <2>2. LineUp
    BY <1>0, <2>1 DEF LineOK
  <2>3. OneState' /\ KeepsLine /\ SendingHead'
    BY <1>0, <1>3, <2>2, ReceivedByOutside, ResponseAnnounced
  <2>4. LineUp'
    BY <1>0, <2>2, <2>3 DEF KeepsLine, LineUp, Idling, Preparing, Transmitting, Receiving,
       Resetting
  <2>5. Announces'
    BY <1>0, <1>2, <2>1, <2>3 DEF KeepsLine, Announces
  <2> QED
    BY <2>1, <2>3, <2>4, <2>5 DEF Control, LineOK
<1>4. CASE restartProxy \/ clearAgain \/ connect
  <2>1. OneState' /\ LineOK' /\ SendingHead' /\ (phase' = "up" => pstate = "INITIAL")
    BY <1>0, <1>4, ConnectsControl
  <2>2. Announces'
    BY <1>0, <1>2, <2>1 DEF Announces, Preparing
  <2> QED
    BY <2>1, <2>2 DEF Control
<1> QED
  BY <1>3, <1>4 DEF Outside, OutNext

-----------------------------------------------------------------------------
(* Where the transmitted slots are, step by step.                          *)

(* s stays with the outside proxy, with its request.                       *)
KeptSlot(s) == s \in sent' /\ msgId'[s] = msgId[s]

(* Requests on the line: none is added.                                    *)
LEMMA LinePlaces ==
  ASSUME RequestsOnLine, NEW m \in {0, 1},
         \A i \in DOMAIN toOut' : i \in Nat /\ (toOut'[i].kind = "DATA" =>
           i + m \in DOMAIN toOut /\ toOut'[i] = toOut[i + m]),
         slotsInUse' \subseteq slotsInUse,
         \A i \in DOMAIN toOut : toOut[i].kind = "DATA" => KeptSlot(toOut[i].slot)
  PROVE  RequestsOnLine'
<1>1. ASSUME NEW i \in DOMAIN toOut', toOut'[i].kind = "DATA"
      PROVE  /\ toOut'[i].slot \in sent' /\ toOut'[i].msg = msgId'[toOut'[i].slot]
             /\ toOut'[i].slot \notin slotsInUse'
  BY <1>1 DEF RequestsOnLine, KeptSlot, IsSent
<1>2. ASSUME NEW i \in DOMAIN toOut', NEW j \in DOMAIN toOut', toOut'[i].kind = "DATA",
             toOut'[j].kind = "DATA", toOut'[i].slot = toOut'[j].slot
      PROVE  i = j
  <2>1. i + m = j + m /\ i \in Nat /\ j \in Nat
    BY <1>2 DEF RequestsOnLine
  <2> QED
    BY <2>1
<1> QED
  BY <1>1, <1>2 DEF RequestsOnLine, IsSent

(* How the records of a line move.                                         *)
LEMMA LineMoves ==
  ASSUME TypeOK
  PROVE  /\ UNCHANGED toOut =>
              \A i \in DOMAIN toOut' : i \in Nat /\ i + 0 \in DOMAIN toOut /\ toOut'[i] = toOut[i + 0]
         /\ \A r \in OutRecords : toOut' = Append(toOut, r) /\ r.kind # "DATA" =>
              \A i \in DOMAIN toOut' : i \in Nat /\ (toOut'[i].kind = "DATA" =>
                i + 0 \in DOMAIN toOut /\ toOut'[i] = toOut[i + 0])
         /\ toOut # <<>> /\ toOut' = Tail(toOut) =>
              \A i \in DOMAIN toOut' : i \in Nat /\ i + 1 \in DOMAIN toOut /\ toOut'[i] = toOut[i + 1]
<1>0. toOut \in Seq(OutRecords) /\ DOMAIN toOut = 1 .. Len(toOut) /\ Len(toOut) \in Nat
  BY DEF TypeOK, LineTypeOK, OutRecords
<1>1. UNCHANGED toOut => \A i \in DOMAIN toOut' : i \in Nat /\ i + 0 \in DOMAIN toOut /\ toOut'[i] = toOut[i + 0]
  BY <1>0
<1>2. ASSUME NEW r \in OutRecords, toOut' = Append(toOut, r), r.kind # "DATA", NEW i \in DOMAIN toOut'
      PROVE  i \in Nat /\ (toOut'[i].kind = "DATA" => i + 0 \in DOMAIN toOut /\ toOut'[i] = toOut[i + 0])
  <2>1. /\ DOMAIN toOut' = 1 .. Len(toOut) + 1 /\ toOut'[Len(toOut) + 1] = r
        /\ \A j \in 1 .. Len(toOut) : toOut'[j] = toOut[j]
    BY <1>0, <1>2, Appended
  <2>2. i \in 1 .. Len(toOut) + 1
    BY <2>1
  <2> QED
    BY <1>0, <1>2, <2>1, <2>2
<1>3. ASSUME toOut # <<>>, toOut' = Tail(toOut), NEW i \in DOMAIN toOut'
      PROVE  i \in Nat /\ i + 1 \in DOMAIN toOut /\ toOut'[i] = toOut[i + 1]
  <2>1. DOMAIN toOut' = 1 .. Len(toOut) - 1 /\ \A j \in 1 .. Len(toOut) - 1 : toOut'[j] = toOut[j + 1]
    <3>1. PICK t : t = Tail(toOut)
      OBVIOUS
    <3>2. /\ t \in Seq(OutRecords) /\ Len(t) = Len(toOut) - 1
          /\ \A j \in 1 .. Len(toOut) - 1 : t[j] = toOut[j + 1]
      BY <1>0, <1>3, <3>1, Tailed
    <3>3. DOMAIN t = 1 .. Len(toOut) - 1
      BY <3>2
    <3> QED
      BY <1>3, <3>1, <3>2, <3>3
  <2>2. i \in 1 .. Len(toOut) - 1
    BY <2>1
  <2>3. i \in Nat /\ i + 1 \in 1 .. Len(toOut)
    BY <1>0, <2>2
  <2> QED
    BY <1>0, <2>1, <2>2, <2>3
<1> QED
  BY <1>1, <1>2, <1>3

(* Requests with the workers: none is added.                               *)
LEMMA WorkerPlaces ==
  ASSUME RequestsWithWorkers, working' \subseteq working,
         \A i \in DOMAIN waiting' : \E j \in DOMAIN waiting : waiting'[i].slot = waiting[j].slot,
         \A r \in working : KeptSlot(r.slot)
  PROVE  RequestsWithWorkers'
<1>1. ASSUME NEW r \in working'
      PROVE  /\ r.slot \in sent' /\ r.msg = msgId'[r.slot]
             /\ \A i \in DOMAIN waiting' : waiting'[i].slot # r.slot
  BY <1>1 DEF RequestsWithWorkers, KeptSlot, IsSent
<1> QED
  BY <1>1 DEF RequestsWithWorkers, IsSent

(* The queue of responses: at most the head leaves it.                     *)
LEMMA QueuePlaces ==
  ASSUME ResponsesQueued, NEW n \in {0, 1},
         \A i \in DOMAIN waiting' : i \in Nat \ {0} /\ i + n \in DOMAIN waiting /\ waiting'[i] = waiting[i + n],
         \A i \in DOMAIN waiting : IsSent(waiting[i]) =>
           KeptSlot(waiting[i].slot) \/ (i = 1 /\ n = 0 /\ Returned'),
         Returned => n = 1 \/ Returned',
         Returned' => n = 0 /\ waiting[1].slot \notin sent'
  PROVE  ResponsesQueued'
<1>1. ASSUME NEW i \in DOMAIN waiting'
      PROVE  IF i = 1 /\ Returned' THEN waiting'[i].slot \notin sent'
             ELSE waiting'[i].slot \in sent' /\ waiting'[i].msg = msgId'[waiting'[i].slot]
  <2>0. i \in Nat \ {0} /\ i + n \in DOMAIN waiting /\ waiting'[i] = waiting[i + n]
    BY <1>1
  <2>1. CASE i = 1 /\ Returned'
    BY <2>0, <2>1
  <2>2. CASE ~(i = 1 /\ Returned')
    <3>1. ~(i + n = 1 /\ Returned)
      BY <2>0, <2>2
    <3>2. IsSent(waiting[i + n])
      BY <2>0, <3>1 DEF ResponsesQueued
    <3>3. KeptSlot(waiting[i + n].slot)
      BY <2>0, <2>2, <3>2
    <3> QED
      BY <2>0, <2>2, <3>2, <3>3 DEF KeptSlot, IsSent
  <2> QED
    BY <2>1, <2>2
<1>2. ASSUME NEW i \in DOMAIN waiting', NEW j \in DOMAIN waiting', waiting'[i].slot = waiting'[j].slot
      PROVE  i = j
  <2>1. i + n = j + n /\ i \in Nat /\ j \in Nat
    BY <1>2 DEF ResponsesQueued
  <2> QED
    BY <2>1
<1> QED
  BY <1>1, <1>2 DEF ResponsesQueued, IsSent

(* Nothing is anywhere.                                                    *)
LEMMA NoPlaces ==
  ASSUME waiting' = <<>>, working' = {},
         \A i \in DOMAIN toOut' : toOut'[i].kind # "DATA",
         \A i \in DOMAIN toIn' : toIn'[i].kind \notin {"DATA", "DATA_WANT_SEND"}
  PROVE  OnePlace'
<1>1. DOMAIN waiting' = {}
  OBVIOUS
<1> QED
  BY <1>1 DEF OnePlace, RequestsOnLine, RequestsWithWorkers, ResponsesQueued, ResponseOnLine

(* Steps that move no slot, while the handshakes go on.                    *)
LEMMA SamePlaces ==
  ASSUME LinkInv, UNCHANGED <<waiting, working, sending>>, \A s \in sent : KeptSlot(s), sent' = sent,
         \/ UNCHANGED toOut
         \/ \E r \in OutRecords : r.kind # "DATA" /\ toOut' = Append(toOut, r)
         \/ toOut # <<>> /\ toOut' = Tail(toOut),
         UNCHANGED toIn \/ ~sending, ResponseOnLine'
  PROVE  OnePlace'
<1>0. OnePlace /\ TypeOK
  BY DEF LinkInv
<1>1. slotsInUse' = slotsInUse
  BY DEF slotsInUse
<1>2. \A i \in DOMAIN toOut : toOut[i].kind = "DATA" => KeptSlot(toOut[i].slot)
  BY <1>0 DEF OnePlace, RequestsOnLine, IsSent
<1>3. RequestsOnLine'
  <2>1. CASE UNCHANGED toOut \/ \E r \in OutRecords : r.kind # "DATA" /\ toOut' = Append(toOut, r)
    <3>1. \A i \in DOMAIN toOut' : i \in Nat /\ (toOut'[i].kind = "DATA" =>
           i + 0 \in DOMAIN toOut /\ toOut'[i] = toOut[i + 0])
      BY <1>0, <2>1, LineMoves
    <3> QED
      BY <1>0, <1>1, <1>2, <3>1, LinePlaces DEF OnePlace
  <2>2. CASE toOut # <<>> /\ toOut' = Tail(toOut)
    <3>1. \A i \in DOMAIN toOut' : i \in Nat /\ (toOut'[i].kind = "DATA" =>
           i + 1 \in DOMAIN toOut /\ toOut'[i] = toOut[i + 1])
      BY <1>0, <2>2, LineMoves
    <3> QED
      BY <1>0, <1>1, <1>2, <3>1, LinePlaces DEF OnePlace
  <2> QED
    BY <2>1, <2>2
<1>4. RequestsWithWorkers'
  <2>1. \A r \in working : KeptSlot(r.slot)
    BY <1>0 DEF OnePlace, RequestsWithWorkers, IsSent
  <2> QED
    BY <1>0, <2>1, WorkerPlaces DEF OnePlace
<1>5. ResponsesQueued'
  <2>1. \A i \in DOMAIN waiting' : i \in Nat \ {0} /\ i + 0 \in DOMAIN waiting /\ waiting'[i] = waiting[i + 0]
    BY <1>0 DEF TypeOK, OutTypeOK
  <2>2. \A i \in DOMAIN waiting : IsSent(waiting[i]) => KeptSlot(waiting[i].slot)
    BY DEF IsSent
  <2>3. (Returned <=> Returned') /\ (Returned => sending)
    BY DEF Returned
  <2>4. Returned => waiting[1].slot \notin sent'
    <3>1. Returned => 1 \in DOMAIN waiting
      BY <1>0, <2>3 DEF LinkInv, Control, SendingHead, TypeOK, OutTypeOK
    <3> QED
      BY <1>0, <3>1 DEF OnePlace, ResponsesQueued
  <2> QED
    BY <1>0, <2>1, <2>2, <2>3, <2>4, QueuePlaces DEF OnePlace
<1> QED
  BY <1>3, <1>4, <1>5 DEF OnePlace

(* handleExt fills a slot that is not with the outside proxy.              *)
LEMMA ExtPlaces ==
  ASSUME LinkInv, ExtHandler, UNCHANGED outVars
  PROVE  OnePlace'
<1>1. sent' = sent /\ UNCHANGED toIn
  BY DEF ExtHandler, extEnqueues, handleExt, rejectOutOfSlots, getSlot, takeSlot, advanceCurrFree,
     fillRequest, enqueueRequest, publishRequest, extCheckIdle, extEnterTransmitPrep, extStartIO,
     extStat, extStep, ioVars, poolVars
<1>2. \A s \in sent : KeptSlot(s)
  <2>1. CASE fillRequest
    <3>1. extPc = "fill" /\ msgId' = [msgId EXCEPT ![extReq] = extMsg]
      BY <2>1 DEF fillRequest
    <3>2. extReq \in Slots /\ extReq \notin sent
      BY <3>1 DEF LinkInv, Pool!PoolInv, Pool!ExtHoldsSlot, Pool!OneOwner, Pool!InExt, Slots,
         Pool!Slots
    <3>3. msgId \in [Slots -> Msgs \cup {NoMsg}] /\ sent \subseteq Slots
      BY DEF LinkInv, Pool!PoolInv, Pool!PoolTypeOK, Slots, Pool!Slots
    <3> QED
      BY <1>1, <3>1, <3>2, <3>3 DEF KeptSlot
  <2>2. CASE UNCHANGED msgId
    BY <1>1, <2>2 DEF KeptSlot
  <2> QED
    BY <2>1, <2>2 DEF ExtHandler, extEnqueues, handleExt, rejectOutOfSlots, getSlot, takeSlot,
       advanceCurrFree, enqueueRequest, publishRequest, extCheckIdle, extEnterTransmitPrep,
       extStartIO, extStat, extStep, poolVars
<1>3. UNCHANGED toOut \/ \E r \in OutRecords : r.kind # "DATA" /\ toOut' = Append(toOut, r)
  <2>1. \A k \in {"WILL_SEND", "STATE"} : Token(k) \in OutRecords /\ Token(k).kind # "DATA"
    BY TokenType DEF OutKinds
  <2> QED
    BY <2>1 DEF ExtHandler, extEnqueues, extCheckIdle, extEnterTransmitPrep, extStartIO, extStat,
       doSIO, devVars, ioVars
<1>4. ResponseOnLine'
  BY <1>1 DEF LinkInv, OnePlace, ResponseOnLine, outVars
<1> QED
  BY <1>1, <1>2, <1>3, <1>4, SamePlaces DEF outVars, flagVars

(* A slot leaves the queue of requests and goes onto the line.             *)
LEMMA TransmitPlaces ==
  ASSUME LinkInv, UNCHANGED outVars, ~sending, havingRequest,
         getNextRequestToSend, enter_iTRANSMITTING(nextRequest), ResponseOnLine'
  PROVE  OnePlace'
<1>0. OnePlace /\ TypeOK
  BY DEF LinkInv
<1>1. PICK s : s = nextRequest
  OBVIOUS
<1>2. s \in Slots /\ s \notin sent
  BY <1>1, NextIsWaiting
<1>3. sent' = sent \cup {s} /\ UNCHANGED msgId
  BY <1>1 DEF getNextRequestToSend, nextRequest
<1>4. toOut' = Append(toOut, Packet("DATA", s, msgId[s]))
  BY <1>1 DEF enter_iTRANSMITTING, doSIOAtEnd
<1>5. /\ ~Returned /\ ~Returned' /\ slotsInUse' = slotsInUse /\ UNCHANGED <<waiting, working>>
  BY DEF Returned, slotsInUse, outVars, flagVars
<1>6. RequestsWithWorkers' /\ ResponsesQueued'
  <2>1. RequestsWithWorkers'
    BY <1>0, <1>3, <1>5 DEF OnePlace, RequestsWithWorkers, IsSent
  <2>2. ResponsesQueued'
    BY <1>0, <1>3, <1>5 DEF OnePlace, ResponsesQueued, IsSent
  <2> QED
    BY <2>1, <2>2
<1>7. s \notin slotsInUse
  BY <1>0, <1>2, <1>5 DEF slotsInUse, OnePlace, RequestsWithWorkers, ResponsesQueued, IsSent
<1>8. RequestsOnLine'
  <2>1. PICK r : r = Packet("DATA", s, msgId[s])
    OBVIOUS
  <2>2. r \in OutRecords /\ r.slot = s /\ r.msg = msgId[s]
    <3>1. msgId[s] \in Msgs \cup {NoMsg}
      BY <1>2 DEF LinkInv, Pool!PoolInv, Pool!PoolTypeOK, Slots, Pool!Slots
    <3> QED
      BY <1>2, <2>1, <3>1, PacketType DEF Packet
  <2>3. toOut \in Seq(OutRecords) /\ DOMAIN toOut = 1 .. Len(toOut) /\ Len(toOut) \in Nat
    BY <1>0 DEF TypeOK, LineTypeOK, OutRecords
  <2>4. /\ DOMAIN toOut' = 1 .. Len(toOut) + 1 /\ toOut'[Len(toOut) + 1] = r
        /\ \A j \in 1 .. Len(toOut) : toOut'[j] = toOut[j]
    BY <1>4, <2>1, <2>2, <2>3, Appended
  <2>5. ASSUME NEW i \in DOMAIN toOut' PROVE i = Len(toOut) + 1 \/ (i \in DOMAIN toOut /\ toOut'[i] = toOut[i])
    BY <2>3, <2>4
  <2>6. ASSUME NEW i \in DOMAIN toOut, toOut[i].kind = "DATA"
        PROVE  toOut[i].slot # s /\ toOut[i].slot \in sent /\ toOut[i].msg = msgId[toOut[i].slot]
               /\ toOut[i].slot \notin slotsInUse
    BY <1>0, <1>2, <2>6 DEF OnePlace, RequestsOnLine, IsSent
  <2>7. ASSUME NEW i \in DOMAIN toOut', toOut'[i].kind = "DATA"
        PROVE  /\ toOut'[i].slot \in sent' /\ toOut'[i].msg = msgId'[toOut'[i].slot]
               /\ toOut'[i].slot \notin slotsInUse'
    BY <1>3, <1>5, <1>7, <2>2, <2>4, <2>5, <2>6, <2>7
  <2>8. ASSUME NEW i \in DOMAIN toOut', NEW j \in DOMAIN toOut', toOut'[i].kind = "DATA",
               toOut'[j].kind = "DATA", toOut'[i].slot = toOut'[j].slot
        PROVE  i = j
    <3>1. CASE i = Len(toOut) + 1
      BY <2>2, <2>4, <2>5, <2>6, <2>8, <3>1
    <3>2. CASE j = Len(toOut) + 1
      BY <2>2, <2>4, <2>5, <2>6, <2>8, <3>2
    <3>3. CASE i \in DOMAIN toOut /\ j \in DOMAIN toOut /\ toOut'[i] = toOut[i] /\ toOut'[j] = toOut[j]
      BY <1>0, <2>8, <3>3 DEF OnePlace, RequestsOnLine
    <3> QED
      BY <2>5, <2>8, <3>1, <3>2, <3>3
  <2> QED
    BY <2>7, <2>8 DEF RequestsOnLine, IsSent
<1> QED
  BY <1>6, <1>8 DEF OnePlace

(* The slot of the queue's head is answered and freed.                     *)
LEMMA ReplyPlaces ==
  ASSUME LinkInv, UNCHANGED outVars, sending, toIn # <<>>, toIn[1].kind \in {"DATA", "DATA_WANT_SEND"},
         toIn' = <<>>, replyAndFree(toIn[1].slot),
         \E r \in OutRecords : r.kind # "DATA" /\ toOut' = Append(toOut, r)
  PROVE  OnePlace'
<1>0. OnePlace /\ TypeOK /\ UNCHANGED <<waiting, working>>
  BY DEF LinkInv, outVars
<1>1. 1 \in DOMAIN toIn /\ waiting \in Seq(Requests)
  BY <1>0 DEF TypeOK, LineTypeOK, OutTypeOK
<1>2. PICK x : x = toIn[1].slot
  OBVIOUS
<1>3. waiting # <<>> /\ x = waiting[1].slot /\ 1 \in DOMAIN waiting
  <2>1. waiting # <<>> /\ x = waiting[1].slot
    BY <1>0, <1>1, <1>2 DEF OnePlace, ResponseOnLine
  <2> QED
    BY <1>1, <2>1
<1>4. msgId \in [Slots -> Msgs \cup {NoMsg}] /\ sent \subseteq Slots
  BY DEF LinkInv, Pool!PoolInv, Pool!PoolTypeOK, Slots, Pool!Slots
<1>5. sent' = sent \ {x} /\ msgId' = [msgId EXCEPT ![x] = NoMsg]
  BY <1>2 DEF replyAndFree, freeSlot
<1>6. \A s \in sent : s # x => KeptSlot(s)
  BY <1>4, <1>5 DEF KeptSlot
<1>7. x \in slotsInUse /\ slotsInUse' = slotsInUse
  BY <1>0, <1>3 DEF slotsInUse
<1>8. ~Returned /\ Returned'
  BY DEF Returned, outVars, flagVars
<1>9. RequestsOnLine'
  <2>1. \A i \in DOMAIN toOut : toOut[i].kind = "DATA" => KeptSlot(toOut[i].slot)
    BY <1>0, <1>6, <1>7 DEF OnePlace, RequestsOnLine, IsSent
  <2>2. \A i \in DOMAIN toOut' : i \in Nat /\ (toOut'[i].kind = "DATA" =>
           i + 0 \in DOMAIN toOut /\ toOut'[i] = toOut[i + 0])
    BY <1>0, LineMoves
  <2> QED
    BY <1>0, <1>7, <2>1, <2>2, LinePlaces DEF OnePlace
<1>10. RequestsWithWorkers'
  <2>1. \A r \in working : KeptSlot(r.slot)
    BY <1>0, <1>3, <1>6 DEF OnePlace, RequestsWithWorkers, IsSent
  <2> QED
    BY <1>0, <2>1, WorkerPlaces DEF OnePlace
<1>11. ResponsesQueued'
  <2>1. \A i \in DOMAIN waiting' : i \in Nat \ {0} /\ i + 0 \in DOMAIN waiting /\ waiting'[i] = waiting[i + 0]
    BY <1>0, <1>1
  <2>2. \A i \in DOMAIN waiting : i # 1 => waiting[i].slot # x
    BY <1>0, <1>3 DEF OnePlace, ResponsesQueued
  <2>3. \A i \in DOMAIN waiting : IsSent(waiting[i]) => KeptSlot(waiting[i].slot) \/ i = 1
    BY <1>6, <2>2 DEF IsSent
  <2>4. waiting[1].slot \notin sent'
    BY <1>3, <1>5
  <2> QED
    BY <1>0, <1>8, <2>1, <2>3, <2>4, QueuePlaces DEF OnePlace
<1>12. ResponseOnLine'
  <2>1. DOMAIN toIn' = {}
    OBVIOUS
  <2> QED
    BY <2>1 DEF ResponseOnLine
<1> QED
  BY <1>9, <1>10, <1>11, <1>12 DEF OnePlace

(* The device interrupt handler moves slots onto the line and back.        *)
LEMMA DevPlaces ==
  ASSUME LinkInv, phase = "up", devintHandler, UNCHANGED outVars
  PROVE  OnePlace'
<1>0. TypeOK /\ OnePlace /\ LineUp /\ SendingHead /\ (Preparing => havingRequest)
  BY DEF LinkInv, Control, LineOK, Announces
<1>1. UNCHANGED <<waiting, working, sending>>
  BY DEF outVars, flagVars
<1>2. UNCHANGED poolVars => sent' = sent /\ \A s \in sent : KeptSlot(s)
  BY DEF poolVars, KeptSlot
<1>3. UNCHANGED toIn => ResponseOnLine'
  BY <1>0, <1>1 DEF OnePlace, ResponseOnLine
<1> DEFINE Quiet == \/ UNCHANGED toOut
                    \/ \E r \in OutRecords : r.kind # "DATA" /\ toOut' = Append(toOut, r)
<1>4. /\ noSIOAtEnd => Quiet
      /\ enter_iWELCOME \/ enter_iTRANSMITPREP \/ enter_iRECEIVING \/ enter_iIDLE \/ enter_iRESET =>
           \E r \in OutRecords : r.kind # "DATA" /\ toOut' = Append(toOut, r)
  <2>1. \A k \in {"WELCOME", "WILL_SEND", "SEND_PACKET", "ACK", "RESET"} :
          Token(k) \in OutRecords /\ Token(k).kind # "DATA"
    BY TokenType DEF OutKinds
  <2> QED
    BY <2>1 DEF noSIOAtEnd, enter_iWELCOME, enter_iTRANSMITPREP, enter_iRECEIVING, enter_iIDLE,
       enter_iRESET, doSIOAtEnd
<1>5. CASE beginReceivePacket \/ endWrite
  <2>1. UNCHANGED <<poolVars, toIn>> /\ Quiet
    BY <1>4, <1>5 DEF beginReceivePacket, endWrite, deviceEnd
  <2> QED
    BY <1>1, <1>2, <1>3, <2>1, SamePlaces
<1>6. CASE endReceivePacket
  <2>1. CASE toIn = <<>> /\ noSIOAtEnd /\ UNCHANGED <<poolVars, pstate, toIn>>
    BY <1>1, <1>2, <1>3, <1>4, <2>1, SamePlaces
  <2>2. ASSUME NEW k \in 1 .. MaxCoalesce, k <= Len(toIn), toIn' = SubSeq(toIn, k + 1, Len(toIn)),
               NEW f \in BOOLEAN, receive(toIn[1], f)
        PROVE  OnePlace'
    <3>0. k \in Nat \ {0}
      BY CoalesceAssumption
    <3>1. /\ toIn # <<>>
          /\ \A a : One(toIn, a) => a = toIn[1].kind /\ toIn' = <<>>
          /\ \A a, b : Two(toIn, a, b) => a = toIn[1].kind
      BY <1>0, <2>2, <3>0, ReadIn
    <3>2. \/ toIn[1].kind \in {"WELCOME", "WANT_SEND", "ACK_WANT_SEND"}
          \/ toIn[1].kind = "ACK"
          \/ Receiving /\ toIn[1].kind \in {"DATA", "DATA_WANT_SEND"} /\ sending /\ toIn' = <<>>
      BY <1>0, <3>1 DEF LineUp, WelcomeLine, IdleLine, PrepLine, TransmitLine, ReceiveLine,
         ResetLine
    <3>3. toIn[1].kind \notin {"DATA", "DATA_WANT_SEND"} => ~sending
      BY <1>0, <3>1 DEF SendingHead
    <3>4. ResponseOnLine'
      <4>1. toIn \in Seq(InRecords)
        BY <1>0 DEF TypeOK, LineTypeOK, InRecords
      <4>2. \A i \in DOMAIN toIn' : toIn'[i] = toIn[i + k] /\ i + k \in DOMAIN toIn
        BY <2>2, <3>0, <4>1, Dropped
      <4> QED
        BY <1>0, <1>1, <4>2 DEF OnePlace, ResponseOnLine
    <3>5. CASE toIn[1].kind \in {"WELCOME", "WANT_SEND", "ACK_WANT_SEND"}
      <4>1. onWelcome \/ onWantSend \/ onAckWantSend
        BY <2>2, <3>5 DEF receive
      <4>2. UNCHANGED poolVars /\ Quiet
        BY <1>4, <4>1 DEF onWelcome, onWantSend, onAckWantSend
      <4> QED
        BY <1>1, <1>2, <3>3, <3>4, <3>5, <4>2, SamePlaces
    <3>6. CASE toIn[1].kind = "ACK"
      <4>1. onAck(f)
        BY <2>2, <3>6 DEF receive
      <4>2. CASE onAckInTransmitPrep
        <5>1. havingRequest /\ nextRequest # NULL
          BY <1>0, <4>2, NextIsWaiting DEF onAckInTransmitPrep, Preparing
        <5>2. enter_iTRANSMITTING(nextRequest) /\ getNextRequestToSend
          BY <4>2, <5>1 DEF onAckInTransmitPrep
        <5> QED
          BY <3>3, <3>4, <3>6, <5>1, <5>2, TransmitPlaces
      <4>3. CASE UNCHANGED poolVars /\ Quiet
        BY <1>1, <1>2, <3>3, <3>4, <3>6, <4>3, SamePlaces
      <4> QED
        BY <1>4, <4>1, <4>2, <4>3 DEF onAck
    <3>7. CASE Receiving /\ toIn[1].kind \in {"DATA", "DATA_WANT_SEND"} /\ sending /\ toIn' = <<>>
      <4>1. onData(toIn[1], FALSE) \/ onData(toIn[1], TRUE)
        BY <2>2, <3>7 DEF receive
      <4>2. replyAndFree(toIn[1].slot) /\ (enter_iRECEIVING \/ enter_iIDLE)
        BY <3>7, <4>1 DEF onData, Receiving
      <4> QED
        BY <1>4, <3>1, <3>7, <4>2, ReplyPlaces
    <3> QED
      BY <3>2, <3>5, <3>6, <3>7
  <2>3. ASSUME NEW k \in 1 .. MaxCoalesce, k <= Len(toIn), toIn' = SubSeq(toIn, k + 1, Len(toIn)),
               receive(toIn[1], k >= 2 /\ toIn[2].kind = "WANT_SEND")
        PROVE  OnePlace'
    <3>1. (k >= 2 /\ toIn[2].kind = "WANT_SEND") \in BOOLEAN
      OBVIOUS
    <3> QED
      BY <2>2, <2>3, <3>1
  <2> QED
    BY <1>6, <2>1, <2>3 DEF endReceivePacket
<1> QED
  BY <1>5, <1>6 DEF devintHandler

(* The head of the queue, which the inside proxy has, leaves the queue.    *)
LEMMA FinishPlaces ==
  ASSUME LinkInv, phase = "up", toOut # <<>>, toOut' = Tail(toOut),
         Head(toOut).kind \in {"ACK", "SEND_PACKET"}, UNCHANGED <<poolVars, working>>,
         waiting' = finishFirstQueued, ~Returned'
  PROVE  toIn = <<>> /\ RequestsOnLine' /\ RequestsWithWorkers' /\ ResponsesQueued'
<1>0. TypeOK /\ OnePlace /\ LineUp /\ SendingHead /\ OneState
  BY DEF LinkInv, Control, LineOK
<1>1. Head(toOut).kind # "STATE" =>
        /\ outbound # <<>>
        /\ \A a : One(outbound, a) => a = Head(toOut).kind
        /\ \A a, b : Two(outbound, a, b) => a = Head(toOut).kind
        /\ \A a, b, c : Three(outbound, a, b, c) => a = Head(toOut).kind
  BY <1>0, Read
<1>2. toIn = <<>>
  BY <1>0, <1>1 DEF LineUp, WelcomeLine, IdleLine, PrepLine, TransmitLine, ReceiveLine, ResetLine
<1>3. waiting \in Seq(Requests) /\ (sending => waiting # <<>>) /\ (Returned <=> sending)
  BY <1>0, <1>2 DEF TypeOK, OutTypeOK, SendingHead, Returned
<1>4. PICK n \in {0, 1} :
        /\ Returned => n = 1
        /\ \A i \in DOMAIN waiting' : i \in Nat \ {0} /\ i + n \in DOMAIN waiting /\ waiting'[i] = waiting[i + n]
  <2>1. CASE sending
    <3>1. waiting' = Tail(waiting) /\ waiting # <<>>
      BY <1>3, <2>1 DEF finishFirstQueued
    <3>2. /\ DOMAIN Tail(waiting) = 1 .. Len(waiting) - 1 /\ DOMAIN waiting = 1 .. Len(waiting)
          /\ Len(waiting) \in Nat
          /\ \A i \in 1 .. Len(waiting) - 1 : Tail(waiting)[i] = waiting[i + 1]
      BY <1>3, <3>1
    <3>3. \A i \in 1 .. Len(waiting) - 1 : i \in Nat \ {0} /\ i + 1 \in 1 .. Len(waiting)
      BY <3>2
    <3>4. \A i \in DOMAIN waiting' : i \in Nat \ {0} /\ i + 1 \in DOMAIN waiting /\ waiting'[i] = waiting[i + 1]
      BY <3>1, <3>2, <3>3
    <3> QED
      BY <3>4
  <2>2. CASE ~sending
    <3>1. waiting' = waiting
      BY <2>2 DEF finishFirstQueued
    <3>2. \A i \in DOMAIN waiting' : i \in Nat \ {0} /\ i + 0 \in DOMAIN waiting /\ waiting'[i] = waiting[i + 0]
      BY <1>3, <3>1
    <3> QED
      BY <1>3, <2>2, <3>2
  <2> QED
    BY <2>1, <2>2
<1>5. \A s \in sent : KeptSlot(s)
  BY DEF poolVars, KeptSlot
<1>6. \A i \in DOMAIN waiting' : \E j \in DOMAIN waiting : waiting'[i].slot = waiting[j].slot
  BY <1>4
<1>7. slotsInUse' \subseteq slotsInUse
  BY <1>6 DEF slotsInUse
<1>8. RequestsOnLine'
  <2>1. \A i \in DOMAIN toOut : toOut[i].kind = "DATA" => KeptSlot(toOut[i].slot)
    BY <1>0, <1>5 DEF OnePlace, RequestsOnLine, IsSent
  <2>2. \A i \in DOMAIN toOut' : i \in Nat /\ (toOut'[i].kind = "DATA" =>
           i + 1 \in DOMAIN toOut /\ toOut'[i] = toOut[i + 1])
    BY <1>0, LineMoves
  <2> QED
    BY <1>0, <1>7, <2>1, <2>2, LinePlaces DEF OnePlace
<1>9. RequestsWithWorkers'
  <2>1. \A r \in working : KeptSlot(r.slot)
    BY <1>0, <1>5 DEF OnePlace, RequestsWithWorkers, IsSent
  <2> QED
    BY <1>0, <1>6, <2>1, WorkerPlaces DEF OnePlace
<1>10. ResponsesQueued'
  <2>1. \A i \in DOMAIN waiting : IsSent(waiting[i]) => KeptSlot(waiting[i].slot)
    BY <1>5 DEF IsSent
  <2> QED
    BY <1>0, <1>4, <2>1, QueuePlaces DEF OnePlace
<1> QED
  BY <1>2, <1>8, <1>9, <1>10

(* A request is received: it goes from the line to a worker.               *)
LEMMA RequestPlaces ==
  ASSUME LinkInv, toOut # <<>>, toOut' = Tail(toOut), Head(toOut).kind = "DATA", onRequest(Head(toOut)),
         ~sending, UNCHANGED poolVars
  PROVE  RequestsOnLine' /\ RequestsWithWorkers' /\ ResponsesQueued'
<1>0. TypeOK /\ OnePlace
  BY DEF LinkInv
<1>1. PICK r : r = [slot |-> Head(toOut).slot, msg |-> Head(toOut).msg]
  OBVIOUS
<1>2. working' = working \cup {r} /\ UNCHANGED <<waiting, sent, msgId>> /\ ~sending'
  BY <1>1 DEF onRequest, flags, poolVars
<1>3. 1 \in DOMAIN toOut /\ Head(toOut) = toOut[1]
  BY <1>0 DEF TypeOK, LineTypeOK
<1>4. /\ r.slot = toOut[1].slot /\ r.slot \in sent /\ r.msg = msgId[r.slot] /\ r.slot \notin slotsInUse
      /\ \A i \in DOMAIN toOut : toOut[i].kind = "DATA" /\ toOut[i].slot = r.slot => i = 1
  BY <1>0, <1>1, <1>3 DEF OnePlace, RequestsOnLine, IsSent
<1>5. slotsInUse' = slotsInUse \cup {r.slot}
  BY <1>2 DEF slotsInUse
<1>6. RequestsOnLine'
  <2>1. \A i \in DOMAIN toOut' : i \in Nat /\ i + 1 \in DOMAIN toOut /\ toOut'[i] = toOut[i + 1]
    BY <1>0, LineMoves
  <2>2. \A i \in DOMAIN toOut' : i >= 1
    BY <1>0 DEF TypeOK, LineTypeOK
  <2>3. ASSUME NEW i \in DOMAIN toOut', toOut'[i].kind = "DATA"
        PROVE  /\ toOut'[i].slot \in sent' /\ toOut'[i].msg = msgId'[toOut'[i].slot]
               /\ toOut'[i].slot \notin slotsInUse'
    <3>1. i \in Nat /\ i >= 1 /\ i + 1 \in DOMAIN toOut /\ toOut'[i] = toOut[i + 1]
      BY <2>1, <2>2
    <3>2. toOut[i + 1].slot # r.slot
      BY <1>4, <2>3, <3>1
    <3> QED
      BY <1>0, <1>2, <1>5, <2>3, <3>1, <3>2 DEF OnePlace, RequestsOnLine, IsSent
  <2>4. ASSUME NEW i \in DOMAIN toOut', NEW j \in DOMAIN toOut', toOut'[i].kind = "DATA",
               toOut'[j].kind = "DATA", toOut'[i].slot = toOut'[j].slot
        PROVE  i = j
    <3>1. i + 1 = j + 1 /\ i \in Nat /\ j \in Nat
      BY <1>0, <2>1, <2>4 DEF OnePlace, RequestsOnLine
    <3> QED
      BY <3>1
  <2> QED
    BY <2>3, <2>4 DEF RequestsOnLine, IsSent
<1>7. RequestsWithWorkers'
  <2>1. \A i \in DOMAIN waiting : waiting[i].slot # r.slot
    BY <1>4 DEF slotsInUse
  <2> QED
    BY <1>0, <1>2, <1>4, <2>1 DEF OnePlace, RequestsWithWorkers, IsSent
<1>8. ResponsesQueued'
  BY <1>0, <1>2 DEF OnePlace, ResponsesQueued, IsSent, Returned
<1> QED
  BY <1>6, <1>7, <1>8

(* The outside proxy reads a record.                                       *)
LEMMA ReceivePlaces ==
  ASSUME LinkInv, receiveRecord, UNCHANGED poolVars
  PROVE  OnePlace'
<1>0. /\ TypeOK /\ OnePlace /\ LineUp /\ SendingHead /\ OneState
      /\ phase = "up" /\ toOut # <<>> /\ toOut' = Tail(toOut)
  BY DEF LinkInv, Control, LineOK, receiveRecord
<1>1. Head(toOut).kind # "STATE" =>
        /\ outbound # <<>>
        /\ \A a : One(outbound, a) => a = Head(toOut).kind
        /\ \A a, b : Two(outbound, a, b) => a = Head(toOut).kind
        /\ \A a, b, c : Three(outbound, a, b, c) => a = Head(toOut).kind
  BY <1>0, Read
<1>2. Head(toOut).kind \notin {"ACK", "SEND_PACKET", "STATE"} => sending = FALSE
  <2>1. sending \in BOOLEAN
    BY <1>0 DEF TypeOK, OutTypeOK
  <2>2. One(toIn, "DATA") \/ One(toIn, "DATA_WANT_SEND") => outbound = <<>>
    BY <1>0, Distinct DEF LineUp, WelcomeLine, IdleLine, PrepLine, TransmitLine, ReceiveLine,
       ResetLine
  <2> QED
    BY <1>0, <1>1, <2>1, <2>2 DEF SendingHead
<1>3. sent' = sent /\ \A s \in sent : KeptSlot(s)
  BY DEF poolVars, KeptSlot
<1>4. ASSUME NEW k \in {"ACK", "ACK_WANT_SEND"}, write(Token(k)), UNCHANGED waiting
      PROVE  ResponseOnLine'
  <2>1. Token(k).kind = k
    BY DEF Token
  <2>2. toIn \in Seq(InRecords) /\ Token(k) \in InRecords
    BY <1>0, TokenType DEF TypeOK, LineTypeOK, InRecords, InKinds
  <2>3. /\ DOMAIN toIn' = 1 .. Len(toIn) + 1 /\ toIn'[Len(toIn) + 1] = Token(k)
        /\ DOMAIN toIn = 1 .. Len(toIn) /\ Len(toIn) \in Nat
        /\ \A i \in 1 .. Len(toIn) : toIn'[i] = toIn[i]
    BY <1>4, <2>2 DEF write
  <2>4. ASSUME NEW i \in DOMAIN toIn', toIn'[i].kind \in {"DATA", "DATA_WANT_SEND"}
        PROVE  i \in DOMAIN toIn /\ toIn'[i] = toIn[i]
    BY <2>1, <2>3, <2>4
  <2> QED
    BY <1>0, <1>4, <2>4 DEF OnePlace, ResponseOnLine
<1>5. CASE onWillSend /\ Head(toOut).kind = "WILL_SEND"
  BY <1>0, <1>2, <1>3, <1>4, <1>5, SamePlaces DEF onWillSend, flags
<1>6. CASE onHostWelcome /\ Head(toOut).kind = "WELCOME"
  <2>1. ResponseOnLine'
    BY <1>0, <1>6 DEF onHostWelcome, OnePlace, ResponseOnLine
  <2> QED
    BY <1>0, <1>2, <1>3, <1>6, <2>1, SamePlaces DEF onHostWelcome, flags
<1>7. CASE onReset /\ Head(toOut).kind = "RESET"
  BY <1>0, <1>2, <1>3, <1>4, <1>7, SamePlaces DEF onReset, flags
<1>8. CASE onState
  <2>1. ResponseOnLine'
    BY <1>0, <1>8 DEF onState, OnePlace, ResponseOnLine
  <2> QED
    BY <1>0, <1>3, <1>8, <2>1, SamePlaces DEF onState, flagVars
<1>9. CASE onRequest(Head(toOut)) /\ Head(toOut).kind = "DATA"
  <2>1. ~sending /\ UNCHANGED waiting
    BY <1>2, <1>9 DEF onRequest
  <2>2. ResponseOnLine'
    BY <1>4, <1>9 DEF onRequest
  <2> QED
    BY <1>0, <1>9, <2>1, <2>2, RequestPlaces DEF OnePlace
<1>10. CASE onHostAck /\ Head(toOut).kind = "ACK"
  <2>1. waiting' = finishFirstQueued /\ ~sending' /\ UNCHANGED <<working, toIn>>
    BY <1>10 DEF onHostAck, flags
  <2>2. ~Returned'
    BY <2>1 DEF Returned
  <2>3. toIn = <<>> /\ RequestsOnLine' /\ RequestsWithWorkers' /\ ResponsesQueued'
    BY <1>0, <1>10, <2>1, <2>2, FinishPlaces
  <2>4. ResponseOnLine'
    BY <2>1, <2>3 DEF ResponseOnLine
  <2> QED
    BY <2>3, <2>4 DEF OnePlace
<1>11. CASE onSendPacket /\ Head(toOut).kind = "SEND_PACKET"
  <2>0. waiting' = finishFirstQueued /\ UNCHANGED working
    BY <1>11 DEF onSendPacket
  <2>1. finishFirstQueued \in Seq(Requests) /\ toIn \in Seq(InRecords)
    BY <1>0 DEF TypeOK, OutTypeOK, LineTypeOK, InRecords, finishFirstQueued
  <2>2. CASE finishFirstQueued = <<>>
    <3>1. ~sending' /\ UNCHANGED toIn
      BY <1>11, <2>2 DEF onSendPacket, sendFirstQueued
    <3>2. ~Returned'
      BY <3>1 DEF Returned
    <3>3. toIn = <<>> /\ RequestsOnLine' /\ RequestsWithWorkers' /\ ResponsesQueued'
      BY <1>0, <1>11, <2>0, <3>2, FinishPlaces
    <3>4. ResponseOnLine'
      BY <3>1, <3>3 DEF ResponseOnLine
    <3> QED
      BY <3>3, <3>4 DEF OnePlace
  <2>3. CASE finishFirstQueued # <<>>
    <3>1. PICK p : /\ p \in InRecords /\ toIn' = Append(toIn, p)
                   /\ p.slot = finishFirstQueued[1].slot /\ p.msg = finishFirstQueued[1].msg
      <4>1. PICK q : q = finishFirstQueued
        OBVIOUS
      <4>2. q \in Seq(Requests) /\ q # <<>> /\ Head(q) = q[1] /\ Head(q) \in Requests
        BY <2>1, <2>3, <4>1
      <4>3. write(Packet(IF Len(q) = 1 THEN "DATA" ELSE "DATA_WANT_SEND", Head(q).slot, Head(q).msg))
        BY <1>11, <4>1, <4>2 DEF onSendPacket, sendFirstQueued
      <4>4. (IF Len(q) = 1 THEN "DATA" ELSE "DATA_WANT_SEND") \in {"DATA", "DATA_WANT_SEND"}
        OBVIOUS
      <4>5. PICK d \in {"DATA", "DATA_WANT_SEND"} : write(Packet(d, Head(q).slot, Head(q).msg))
        BY <4>3, <4>4
      <4>6. Packet(d, Head(q).slot, Head(q).msg) \in InRecords
        BY <4>2, PacketType DEF Requests
      <4>7. /\ Packet(d, Head(q).slot, Head(q).msg).slot = Head(q).slot
            /\ Packet(d, Head(q).slot, Head(q).msg).msg = Head(q).msg
        BY DEF Packet
      <4> QED
        BY <4>1, <4>2, <4>5, <4>6, <4>7 DEF write
    <3>2. toIn' # <<>>
      BY <2>1, <3>1
    <3>3. ~Returned'
      BY <3>2 DEF Returned
    <3>4. toIn = <<>> /\ RequestsOnLine' /\ RequestsWithWorkers' /\ ResponsesQueued'
      BY <1>0, <1>11, <2>0, <3>3, FinishPlaces
    <3>5. DOMAIN toIn' = {1} /\ toIn'[1] = p
      BY <3>1, <3>4
    <3>6. ResponseOnLine'
      BY <2>0, <2>3, <3>1, <3>5 DEF ResponseOnLine
    <3> QED
      BY <3>4, <3>6 DEF OnePlace
  <2> QED
    BY <2>2, <2>3
<1> QED
  BY <1>5, <1>6, <1>7, <1>8, <1>9, <1>10, <1>11 DEF receiveRecord, handleHandshake

(* A worker queues its response.                                           *)
LEMMA ResponsePlaces ==
  ASSUME LinkInv, NEW r \in working, sendResponse(r), UNCHANGED poolVars
  PROVE  OnePlace'
<1>0. TypeOK /\ OnePlace /\ SendingHead
  BY DEF LinkInv, Control
<1>1. /\ working' = working \ {r} /\ UNCHANGED <<toOut, sending, sent, msgId>>
  BY DEF sendResponse, poolVars
<1>2. waiting \in Seq(Requests) /\ working \subseteq Requests /\ r \in Requests /\ toIn \in Seq(InRecords)
  BY <1>0 DEF TypeOK, OutTypeOK, LineTypeOK, InRecords
<1>3. /\ DOMAIN waiting' = 1 .. Len(waiting) + 1 /\ waiting'[Len(waiting) + 1] = r
      /\ DOMAIN waiting = 1 .. Len(waiting) /\ Len(waiting) \in Nat
      /\ \A i \in 1 .. Len(waiting) : waiting'[i] = waiting[i]
  BY <1>2 DEF sendResponse
<1>4. ASSUME NEW i \in DOMAIN waiting'
      PROVE  i = Len(waiting) + 1 \/ (i \in DOMAIN waiting /\ waiting'[i] = waiting[i])
  BY <1>3
<1>5. r.slot \in sent /\ r.msg = msgId[r.slot] /\ \A i \in DOMAIN waiting : waiting[i].slot # r.slot
  BY <1>0 DEF OnePlace, RequestsWithWorkers, IsSent
<1>6. ASSUME NEW q \in working, q.slot = r.slot PROVE q = r
  <2>1. q.msg = r.msg /\ q \in Requests
    BY <1>0, <1>2, <1>5, <1>6 DEF OnePlace, RequestsWithWorkers, IsSent
  <2> QED
    BY <1>2, <1>6, <2>1 DEF Requests
<1>7. slotsInUse' \subseteq slotsInUse
  BY <1>1, <1>3, <1>4 DEF slotsInUse
<1>8. RequestsOnLine'
  BY <1>0, <1>1, <1>7 DEF OnePlace, RequestsOnLine, IsSent
<1>9. RequestsWithWorkers'
  BY <1>0, <1>1, <1>3, <1>4, <1>6 DEF OnePlace, RequestsWithWorkers, IsSent
<1>10. (waiting = <<>> => ~sending) /\ (Returned' => Returned) /\ (Returned => Returned')
  BY <1>0, <1>1 DEF SendingHead, Returned, sendResponse
<1>11. ResponsesQueued'
  <2>1. ASSUME NEW i \in DOMAIN waiting'
        PROVE  IF i = 1 /\ Returned' THEN waiting'[i].slot \notin sent'
               ELSE waiting'[i].slot \in sent' /\ waiting'[i].msg = msgId'[waiting'[i].slot]
    <3>1. CASE i \in DOMAIN waiting /\ waiting'[i] = waiting[i]
      BY <1>0, <1>1, <1>10, <3>1 DEF OnePlace, ResponsesQueued, IsSent
    <3>2. CASE i = Len(waiting) + 1
      <4>1. i = 1 => ~Returned'
        BY <1>2, <1>3, <1>10, <3>2 DEF Returned
      <4> QED
        BY <1>1, <1>3, <1>5, <3>2, <4>1
    <3> QED
      BY <1>4, <3>1, <3>2
  <2>2. ASSUME NEW i \in DOMAIN waiting', NEW j \in DOMAIN waiting', waiting'[i].slot = waiting'[j].slot
        PROVE  i = j
    BY <1>0, <1>3, <1>4, <1>5, <2>2 DEF OnePlace, ResponsesQueued
  <2> QED
    BY <2>1, <2>2 DEF ResponsesQueued, IsSent
<1>12. ResponseOnLine'
  <2>1. ASSUME NEW i \in DOMAIN toIn', toIn'[i].kind \in {"DATA", "DATA_WANT_SEND"}
        PROVE  i \in DOMAIN toIn /\ toIn'[i] = toIn[i]
    <3>1. CASE UNCHANGED toIn
      BY <2>1, <3>1
    <3>2. CASE write(Token("WANT_SEND"))
      <4>1. Token("WANT_SEND") \in InRecords /\ Token("WANT_SEND").kind = "WANT_SEND"
        BY TokenType DEF InKinds
      <4>2. /\ DOMAIN toIn' = 1 .. Len(toIn) + 1 /\ toIn'[Len(toIn) + 1] = Token("WANT_SEND")
            /\ DOMAIN toIn = 1 .. Len(toIn) /\ Len(toIn) \in Nat
            /\ \A j \in 1 .. Len(toIn) : toIn'[j] = toIn[j]
        BY <1>2, <3>2, <4>1 DEF write
      <4> QED
        BY <2>1, <4>1, <4>2
    <3> QED
      BY <3>1, <3>2 DEF sendResponse
  <2>2. waiting # <<>> => waiting' # <<>> /\ waiting'[1] = waiting[1]
    <3>1. waiting # <<>> => 1 \in 1 .. Len(waiting)
      BY <1>2
    <3>2. waiting' # <<>>
      BY <1>2 DEF sendResponse
    <3> QED
      BY <1>3, <3>1, <3>2
  <2> QED
    BY <1>0, <2>1, <2>2 DEF OnePlace, ResponseOnLine
<1> QED
  BY <1>8, <1>9, <1>11, <1>12 DEF OnePlace

-----------------------------------------------------------------------------
(* The inductive invariant.                                                *)

(* The state the two proxies start in.                                     *)
LEMMA LinkStart == Init => LinkInv
<1> SUFFICES ASSUME Init PROVE LinkInv
  OBVIOUS
<1>1. Pool!PoolInv
  <2>1. PoolProofs!PoolInit
    BY DEF Init, PoolInit, initRequestBuffers, PoolProofs!PoolInit, PoolProofs!initRequestBuffers,
       Slots, PoolProofs!Slots
  <2>2. PoolProofs!PoolInv
    BY <2>1, PoolProofs!InitInv, CountAssumption, NullAssumption, NoMsgAssumption, ResetAssumption
       DEF Slots, PoolProofs!Slots
  <2> QED
    BY <2>2, SamePoolInv
<1> USE DEF Init, IoInit, OutInit
<1>2. Token("WELCOME") \in InRecords /\ Token("WELCOME").kind = "WELCOME"
  BY TokenType DEF InKinds
<1>3. toOut = <<>> /\ toIn = <<Token("WELCOME")>> /\ waiting = <<>> /\ working = {}
  OBVIOUS
<1>4. TypeOK
  <2>1. toIn \in Seq(InRecords) /\ toOut \in Seq(OutRecords) /\ waiting \in Seq(Requests)
    BY <1>2, <1>3
  <2>2. 0 \in 0 .. MaxReconnects /\ 0 \in 0 .. MaxRestarts
    BY LossAssumption
  <2> QED
    BY <2>1, <2>2 DEF TypeOK, IoTypeOK, LineTypeOK, OutTypeOK, PStates, InRecords, OutRecords
<1>5. DOMAIN toOut = {} /\ DOMAIN waiting = {} /\ DOMAIN toIn = {1} /\ toIn[1] = Token("WELCOME") /\ Len(toIn) = 1
  BY <1>3
<1>6. outbound = <<>>
  BY <1>3, <1>5, HandshakesNone DEF outbound
<1>7. Control
  <2>1. WelcomeLine
    BY <1>2, <1>5, <1>6 DEF WelcomeLine, One, Held
  <2>2. Announces
    BY DEF Announces, Preparing, Writing, PoolInit
  <2> QED
    BY <1>5, <2>1, <2>2 DEF Control, OneState, LineOK, LineUp, SendingHead
<1>8. OnePlace
  BY <1>2, <1>3, <1>5 DEF OnePlace, RequestsOnLine, RequestsWithWorkers, ResponsesQueued,
     ResponseOnLine
<1> QED
  BY <1>1, <1>4, <1>7, <1>8 DEF LinkInv

(* While there is no connection, and when it is just up, nothing is        *)
(* anywhere.                                                               *)
LEMMA DownPlaces ==
  ASSUME LineDown'
  PROVE  OnePlace'
BY NoPlaces DEF LineDown

(* Nor when the connection comes up: connect has written the WELCOME only. *)
LEMMA ConnectsPlaces ==
  ASSUME LinkInv, restartProxy \/ clearAgain \/ connect, LineOK'
  PROVE  OnePlace'
<1>1. CASE phase' # "up"
  BY <1>1, DownPlaces DEF LineOK
<1>2. CASE phase' = "up"
  <2>1. /\ phase = "dial" /\ Head(toOut).kind = "DIALED" /\ toOut # <<>> /\ toOut' = Tail(toOut)
        /\ write(Token("WELCOME")) /\ UNCHANGED <<waiting, working>>
    BY <1>2 DEF restartProxy, reconnect, clearAgain, connect, checkStartScreens,
       clearCurrentScreen, dialToVm, connectStep
  <2>2. LineDown /\ TypeOK
    BY <2>1 DEF LinkInv, Control, LineOK
  <2>3. \A i \in DOMAIN toOut' : toOut'[i].kind # "DATA"
    BY <2>1, <2>2, LineMoves DEF LineDown
  <2>4. toIn = <<>>
    <3>1. 1 \in DOMAIN toOut /\ Head(toOut) = toOut[1]
      BY <2>1, <2>2 DEF TypeOK, LineTypeOK
    <3> QED
      BY <2>1, <2>2, <3>1 DEF LineDown
  <2>5. DOMAIN toIn' = {1} /\ toIn'[1].kind = "WELCOME"
    BY <2>1, <2>4 DEF write, Token
  <2> QED
    BY <2>1, <2>2, <2>3, <2>5, NoPlaces DEF LineDown
<1> QED
  BY <1>1, <1>2

(* The types do not need the rest of the invariant.                        *)
LEMMA InvTyped == LinkInv => Typed
<1> SUFFICES ASSUME LinkInv PROVE Typed
  OBVIOUS
<1>1. TypeOK /\ Pool!PoolTypeOK
  BY DEF LinkInv, Pool!PoolInv
<1>2. sent \subseteq Slots
  BY <1>1 DEF Pool!PoolTypeOK, Slots, Pool!Slots
<1>3. \A i \in DOMAIN toOut : toOut[i].kind = "DATA" => toOut[i].slot \in Slots
  BY <1>2 DEF LinkInv, OnePlace, RequestsOnLine, IsSent
<1>4. ASSUME NEW i \in DOMAIN toIn, toIn[i].kind \in {"DATA", "DATA_WANT_SEND"}
      PROVE  toIn[i].slot \in Slots
  <2>1. waiting # <<>> /\ toIn[i].slot = waiting[1].slot
    BY <1>4 DEF LinkInv, OnePlace, ResponseOnLine
  <2>2. waiting \in Seq(Requests)
    BY <1>1 DEF TypeOK, OutTypeOK
  <2>3. waiting[1] \in Requests
    BY <2>1, <2>2
  <2> QED
    BY <2>1, <2>3 DEF Requests
<1> QED
  BY <1>1, <1>3, <1>4 DEF Typed, Addressed, Carries

(* Every step keeps the invariant, unless it overtakes handleExt.          *)
LEMMA LinkStep ==
  ASSUME LinkInv, [Next]_vars, ~overtaken', ~ResetDuringExt
  PROVE  LinkInv'
<1>1. Pool!PoolInv'
  BY RefinesStep, PoolStep DEF LinkInv
<1>2. CASE Inside
  <2>1. TypeOK'
    BY <1>2, InsideTypes, InvTyped
  <2>2. Control'
    BY <1>2, ExtControl, DevControl DEF Inside, Watched
  <2>3. CASE ExtHandler
    BY <1>1, <1>2, <2>1, <2>2, <2>3, ExtPlaces DEF Inside, LinkInv
  <2>4. CASE devintHandler
    <3>1. CASE phase = "up"
      BY <1>1, <1>2, <2>1, <2>2, <2>4, <3>1, DevPlaces DEF Inside, LinkInv
    <3>2. CASE phase # "up"
      <4>1. LineDown'
        BY <1>2, <2>2, <3>2 DEF Inside, outVars, Control, LineOK
      <4> QED
        BY <1>1, <2>1, <2>2, <4>1, DownPlaces DEF LinkInv
    <3> QED
      BY <3>1, <3>2
  <2> QED
    BY <1>2, <2>3, <2>4 DEF Inside
<1>3. CASE Outside
  <2>1. TypeOK' /\ Control' /\ UNCHANGED poolVars
    BY <1>3, OutsideTypes, InvTyped, OutControl DEF Outside
  <2>2. OnePlace'
    BY <1>3, <2>1, ReceivePlaces, ResponsePlaces, ConnectsPlaces DEF Outside, OutNext, Control
  <2> QED
    BY <1>1, <2>1, <2>2 DEF LinkInv
<1>4. CASE UNCHANGED vars
  <2>0. /\ UNCHANGED <<poolVars, pstate, inRecv, devBusy, toOut, toIn, outVars>>
        /\ outbound' = outbound /\ UNCHANGED <<havingRequest, extPc, waiting, working, sending, phase>>
    BY <1>4 DEF vars, ioVars, outVars, flagVars, poolVars, extVars, queueVars, outbound,
       havingRequest
  <2>1. TypeOK'
    BY <2>0 DEF LinkInv, TypeOK, IoTypeOK, LineTypeOK, OutTypeOK, outVars, flagVars, lossVars
  <2>2. (LineUp => LineUp') /\ (IdleLine => IdleLine') /\ SendingHead' /\ (LineDown => LineDown')
    BY <2>0, SameLine, SameDown DEF Idling, Preparing, Transmitting, Receiving, Resetting
  <2>3. Control'
    BY <2>0, <2>2 DEF LinkInv, Control, OneState, LineOK, Announces, Preparing
  <2>4. sent' = sent /\ \A s \in sent : KeptSlot(s)
    BY <2>0 DEF poolVars, KeptSlot
  <2>5. OnePlace'
    <3>1. ResponseOnLine'
      BY <2>0 DEF LinkInv, OnePlace, ResponseOnLine
    <3> QED
      BY <2>0, <2>4, <3>1, SamePlaces
  <2> QED
    BY <1>1, <2>1, <2>3, <2>5 DEF LinkInv
<1> QED
  BY <1>2, <1>3, <1>4 DEF Next

(* A record more, or some less.                                            *)
LEMMA CarriesMore ==
  ASSUME NEW R, NEW s \in Seq(R), NEW r \in R, NEW kinds, Carries(s, kinds),
         r.kind \in kinds => r.slot \in Slots
  PROVE  Carries(Append(s, r), kinds)
<1>1. PICK t : t = Append(s, r)
  OBVIOUS
<1>2. t \in Seq(R) /\ Len(t) = Len(s) + 1 /\ t[Len(s) + 1] = r /\ \A i \in 1 .. Len(s) : t[i] = s[i]
  BY <1>1
<1>3. DOMAIN t = 1 .. Len(s) + 1 /\ DOMAIN s = 1 .. Len(s) /\ Len(s) \in Nat
  BY <1>2
<1> QED
  BY <1>1, <1>2, <1>3 DEF Carries

LEMMA CarriesLess ==
  ASSUME NEW R, NEW s \in Seq(R), NEW kinds, Carries(s, kinds)
  PROVE  /\ s # <<>> => Carries(Tail(s), kinds)
         /\ \A k \in Nat \ {0} : k <= Len(s) => Carries(SubSeq(s, k + 1, Len(s)), kinds)
<1>1. ASSUME NEW k \in Nat \ {0}, k <= Len(s) PROVE Carries(SubSeq(s, k + 1, Len(s)), kinds)
  <2>1. PICK t : t = SubSeq(s, k + 1, Len(s))
    OBVIOUS
  <2>2. Len(s) \in Nat
    OBVIOUS
  <2>3. t \in Seq(R) /\ Len(t) = Len(s) - k /\ \A i \in 1 .. Len(s) - k : t[i] = s[k + i]
    BY <1>1, <2>1, <2>2
  <2>4. DOMAIN t = 1 .. Len(s) - k /\ \A i \in 1 .. Len(s) - k : k + i \in 1 .. Len(s)
    BY <1>1, <2>2, <2>3
  <2>5. DOMAIN s = 1 .. Len(s)
    OBVIOUS
  <2> QED
    BY <2>1, <2>3, <2>4, <2>5 DEF Carries
<1>2. ASSUME s # <<>> PROVE Carries(Tail(s), kinds)
  <2>1. PICK t : t = Tail(s)
    OBVIOUS
  <2>2. t \in Seq(R) /\ Len(t) = Len(s) - 1 /\ \A i \in 1 .. Len(s) - 1 : t[i] = s[i + 1]
    BY <1>2, <2>1
  <2>3. DOMAIN t = 1 .. Len(s) - 1 /\ \A i \in 1 .. Len(s) - 1 : i + 1 \in DOMAIN s
    BY <2>2
  <2> QED
    BY <2>1, <2>2, <2>3 DEF Carries
<1> QED
  BY <1>1, <1>2

(* What the inside proxy transmits is in a slot; what it asks for, tells   *)
(* or acknowledges is no packet.                                           *)
LEMMA OutAddressed ==
  ASSUME Typed, [Next]_vars
  PROVE  Carries(toOut, {"DATA"})'
<1>0. toOut \in Seq(OutRecords) /\ Carries(toOut, {"DATA"})
  BY DEF Typed, Addressed, TypeOK, LineTypeOK, OutRecords
<1>1. ASSUME NEW k \in OutKinds \ {"DATA"} PROVE Carries(Append(toOut, Token(k)), {"DATA"})
  BY <1>0, TokenType, CarriesMore
<1>2. ASSUME NEW s \in Slots PROVE Carries(Append(toOut, Packet("DATA", s, msgId[s])), {"DATA"})
  <2>1. msgId[s] \in Msgs \cup {NoMsg}
    BY DEF Typed, Pool!PoolTypeOK, Slots, Pool!Slots
  <2>2. Packet("DATA", s, msgId[s]) \in OutRecords /\ Packet("DATA", s, msgId[s]).slot = s
    BY <2>1, PacketType DEF Packet
  <2> QED
    BY <1>0, <2>2, CarriesMore
<1>3. nextRequest # NULL => nextRequest \in Slots
  <2>1. reqQueue \in [Slots -> Slots \cup {NULL}] /\ reqLastOut \in Slots
    BY DEF Typed, Pool!PoolTypeOK, Slots, Pool!Slots
  <2> QED
    BY <2>1, NextInRing DEF nextRequest
<1>4. CASE UNCHANGED toOut
  BY <1>0, <1>4
<1>5. CASE toOut # <<>> /\ toOut' = Tail(toOut)
  BY <1>0, <1>5, CarriesLess
<1>6. CASE toOut' = <<>>
  BY <1>6 DEF Carries
<1>7. CASE ExtHandler
  BY <1>1, <1>4, <1>7 DEF ExtHandler, extEnqueues, extCheckIdle, extEnterTransmitPrep, extStartIO,
     extStat, doSIO, devVars, ioVars, OutKinds
<1> USE DEF doSIOAtEnd, noSIOAtEnd, enter_iWELCOME, enter_iTRANSMITPREP, enter_iRECEIVING,
            enter_iIDLE, enter_iRESET, enter_iRECONNECT_CPREAD, enter_iRECONNECT_DIALED
<1>8. CASE beginReceivePacket \/ endWrite
  BY <1>1, <1>4, <1>8 DEF beginReceivePacket, endWrite, deviceEnd, OutKinds
<1>9. ASSUME NEW f \in BOOLEAN, receive(toIn[1], f) PROVE Carries(toOut, {"DATA"})'
  <2>1. CASE onWantSend \/ onWelcome \/ onAckWantSend \/ onClear \/ onDial
    BY <1>1, <2>1 DEF onWantSend, onWelcome, onAckWantSend, onClear, onDial, OutKinds
  <2>2. CASE onData(toIn[1], TRUE) \/ onData(toIn[1], FALSE)
    BY <1>1, <2>2 DEF onData, OutKinds
  <2>3. CASE onAck(f)
    BY <1>1, <1>2, <1>3, <1>4, <2>3 DEF onAck, onAckInTransmitPrep, enter_iTRANSMITTING, OutKinds
  <2> QED
    BY <1>9, <2>1, <2>2, <2>3 DEF receive
<1>10. CASE endReceivePacket
  <2>1. ASSUME NEW k \in 1 .. MaxCoalesce, receive(toIn[1], k >= 2 /\ toIn[2].kind = "WANT_SEND")
        PROVE  Carries(toOut, {"DATA"})'
    <3>1. (k >= 2 /\ toIn[2].kind = "WANT_SEND") \in BOOLEAN
      OBVIOUS
    <3> QED
      BY <1>9, <2>1, <3>1
  <2> QED
    BY <1>4, <1>10, <2>1 DEF endReceivePacket
<1>11. CASE Outside
  BY <1>4, <1>5, <1>6, <1>11 DEF Outside, OutNext, receiveRecord, sendResponse, restartProxy,
     reconnect, clearAgain, connect, checkStartScreens, clearCurrentScreen, dialToVm, connectStep
<1> QED
  BY <1>4, <1>7, <1>8, <1>10, <1>11 DEF Next, Inside, devintHandler, vars, ioVars

(* What the outside proxy answers is a request it was sent.                *)
LEMMA InAddressed ==
  ASSUME Typed, [Next]_vars
  PROVE  Carries(toIn, {"DATA", "DATA_WANT_SEND"})'
<1> DEFINE K == {"DATA", "DATA_WANT_SEND"}
<1>0. toIn \in Seq(InRecords) /\ Carries(toIn, K) /\ waiting \in Seq(Requests)
  BY DEF Typed, Addressed, TypeOK, LineTypeOK, OutTypeOK, InRecords
<1>1. ASSUME NEW k \in InKinds \ K PROVE Carries(Append(toIn, Token(k)), K)
  BY <1>0, TokenType, CarriesMore
<1>2. ASSUME NEW q \in Seq(Requests), sendFirstQueued(q) PROVE Carries(toIn, K)'
  <2>1. CASE q = <<>>
    BY <1>0, <1>2, <2>1 DEF sendFirstQueued
  <2>2. CASE q # <<>>
    <3>1. Head(q).slot \in Slots /\ Head(q).msg \in Msgs \cup {NoMsg}
      <4>1. Head(q) \in Requests
        BY <2>2
      <4> QED
        BY <4>1 DEF Requests
    <3>2. ASSUME NEW k \in K PROVE Carries(Append(toIn, Packet(k, Head(q).slot, Head(q).msg)), K)
      <4>1. /\ Packet(k, Head(q).slot, Head(q).msg) \in InRecords
            /\ Packet(k, Head(q).slot, Head(q).msg).slot \in Slots
        BY <3>1, PacketType DEF Packet
      <4> QED
        BY <1>0, <4>1, CarriesMore
    <3> QED
      BY <1>2, <2>2, <3>2 DEF sendFirstQueued, write
  <2> QED
    BY <2>1, <2>2
<1>3. CASE UNCHANGED toIn
  BY <1>0, <1>3
<1>4. CASE Inside
  <2>1. ASSUME NEW k \in 1 .. MaxCoalesce, k <= Len(toIn), toIn' = SubSeq(toIn, k + 1, Len(toIn))
        PROVE  Carries(toIn, K)'
    <3>1. k \in Nat \ {0}
      BY CoalesceAssumption
    <3> QED
      BY <1>0, <2>1, <3>1, CarriesLess
  <2> QED
    BY <1>3, <1>4, <2>1 DEF Inside, ExtHandler, extEnqueues, extCheckIdle, extEnterTransmitPrep,
       extStartIO, extStat, devintHandler, beginReceivePacket, endWrite, endReceivePacket, ioVars
<1>5. CASE receiveRecord
  <2>1. finishFirstQueued \in Seq(Requests)
    BY <1>0 DEF finishFirstQueued
  <2>2. CASE onSendPacket
    BY <1>2, <2>1, <2>2 DEF onSendPacket
  <2>3. CASE ~onSendPacket
    BY <1>1, <1>3, <1>5, <2>3 DEF receiveRecord, handleHandshake, onWillSend, onHostAck,
       onHostWelcome, onReset, onState, onRequest, write, InKinds
  <2> QED
    BY <2>2, <2>3
<1>6. CASE \E r \in working : sendResponse(r)
  BY <1>1, <1>3, <1>6 DEF sendResponse, write, InKinds
<1>7. CASE restartProxy
  BY <1>7 DEF restartProxy, reconnect, Carries, Token
<1>8. CASE clearAgain \/ connect
  BY <1>1, <1>3, <1>8 DEF clearAgain, connect, checkStartScreens, clearCurrentScreen, dialToVm,
     connectStep, write, InKinds
<1> QED
  BY <1>3, <1>4, <1>5, <1>6, <1>7, <1>8 DEF Next, Outside, OutNext, vars, ioVars

(* The rings and the locals of handleExt keep their types.                 *)
LEMMA PoolTypes ==
  ASSUME Typed, [Next]_vars
  PROVE  Pool!PoolTypeOK'
<1> DEFINE Steps == ExtSteps \cup {"enter", "startIO"}
           Pooled ==
             /\ reqFree \in [Slots -> Slots \cup {NULL}] /\ reqCurrFree \in Slots /\ reqLastFree \in Slots
             /\ reqQueue \in [Slots -> Slots \cup {NULL}] /\ reqLastIn \in Slots /\ reqLastOut \in Slots
             /\ msgId \in [Slots -> Msgs \cup {NoMsg}]
             /\ extReq \in Slots \cup {NULL} /\ extIdx \in Slots /\ extMsg \in Msgs \cup {NoMsg}
             /\ sent \in SUBSET Slots /\ pending \in SUBSET Msgs
<1>0. Pooled /\ (IF extPc \in {"enter", "startIO"} THEN "check" ELSE extPc) \in ExtSteps
  BY DEF Typed, Pool!PoolTypeOK, Slots, Pool!Slots, ExtSteps, Pool!ExtSteps
<1>1. extPc \in Steps
  BY <1>0
<1>2. SUFFICES Pooled' /\ extPc' \in Steps
  BY DEF Pool!PoolTypeOK, Slots, Pool!Slots, ExtSteps, Pool!ExtSteps
<1>3. \A i \in Slots : RING_NEXT(i) \in Slots
  BY NextInRing
<1>4. CASE UNCHANGED poolVars
  BY <1>0, <1>1, <1>4 DEF poolVars, freeVars, queueVars, extVars
<1>5. CASE extEnqueues
  BY <1>0, <1>1, <1>3, <1>5 DEF extEnqueues, handleExt, rejectOutOfSlots, getSlot, takeSlot,
     advanceCurrFree, fillRequest, enqueueRequest, publishRequest, freeVars, queueVars, ExtSteps
<1>6. CASE extCheckIdle \/ extEnterTransmitPrep \/ extStartIO
  BY <1>0, <1>6 DEF extCheckIdle, extEnterTransmitPrep, extStartIO, extStep, freeVars, queueVars,
     ExtSteps
<1>7. CASE getNextRequestToSend
  BY <1>0, <1>1, <1>3, <1>7 DEF getNextRequestToSend, freeVars, extVars
<1>8. CASE toIn # <<>> /\ toIn[1].kind \in {"DATA", "DATA_WANT_SEND"} /\ replyAndFree(toIn[1].slot)
  <2>1. toIn[1].slot \in Slots
    <3>1. 1 \in DOMAIN toIn
      BY <1>8 DEF Typed, TypeOK, LineTypeOK
    <3> QED
      BY <1>8, <3>1 DEF Typed, Addressed, Carries
  <2> QED
    BY <1>0, <1>1, <1>3, <1>8, <2>1 DEF replyAndFree, freeSlot, queueVars, extVars
<1>9. CASE resetAllRequests
  <2>1. 0 \in Slots /\ 1 \in Slots
    BY CountAssumption DEF Slots
  <2> QED
    BY <1>0, <1>1, <1>9, <2>1 DEF resetAllRequests, extVars
<1>10. CASE endReceivePacket
  <2>1. ASSUME NEW f \in BOOLEAN, receive(toIn[1], f), toIn # <<>>
        PROVE  \/ UNCHANGED poolVars
               \/ getNextRequestToSend
               \/ toIn[1].kind \in {"DATA", "DATA_WANT_SEND"} /\ replyAndFree(toIn[1].slot)
               \/ resetAllRequests
    BY <2>1 DEF receive, onWantSend, onWelcome, onAck, onAckInTransmitPrep, onAckWantSend,
       onClear, onDial, onData
  <2>2. ASSUME NEW k \in 1 .. MaxCoalesce, k <= Len(toIn),
               receive(toIn[1], k >= 2 /\ toIn[2].kind = "WANT_SEND")
        PROVE  Pooled' /\ extPc' \in Steps
    <3>1. toIn # <<>>
      BY <2>2
    <3>2. (k >= 2 /\ toIn[2].kind = "WANT_SEND") \in BOOLEAN
      OBVIOUS
    <3> QED
      BY <1>4, <1>7, <1>8, <1>9, <2>1, <2>2, <3>1, <3>2
  <2> QED
    BY <1>4, <1>10, <2>2 DEF endReceivePacket
<1> QED
  BY <1>4, <1>5, <1>6, <1>10 DEF Next, vars, Inside, Outside, ExtHandler, extStat, devintHandler,
     beginReceivePacket, endWrite

(* Each packet on the line names a slot, and the pool keeps its types,     *)
(* whatever is overtaken, reset or answered.                               *)
LEMMA KeepsTypes == Typed /\ [Next]_vars => Typed'
<1> SUFFICES ASSUME Typed, [Next]_vars PROVE Typed'
  OBVIOUS
<1>1. TypeOK'
  <2>1. CASE UNCHANGED vars
    BY <2>1 DEF vars, ioVars, outVars, flagVars, lossVars, Typed, TypeOK, IoTypeOK, LineTypeOK,
       OutTypeOK
  <2> QED
    BY <2>1, InsideTypes, OutsideTypes DEF Next
<1>2. Pool!PoolTypeOK'
  BY PoolTypes
<1>3. Addressed'
  BY OutAddressed, InAddressed DEF Addressed
<1> QED
  BY <1>1, <1>2, <1>3 DEF Typed

(* Until an interrupt overtakes handleExt the line holds what the state of *)
(* the transmission state machine says, and each transmitted slot is in    *)
(* one place.                                                              *)
THEOREM LinkInvariant ==
  ASSUME ~ResetDuringExt
  PROVE  Spec => [](~overtaken => LinkInv)
<1>1. (~overtaken => LinkInv) /\ [Next]_vars => (~overtaken => LinkInv)'
  <2> SUFFICES ASSUME ~overtaken => LinkInv, [Next]_vars, ~overtaken'
               PROVE  LinkInv'
    OBVIOUS
  <2>1. ~overtaken
    BY DEF Next, Inside, Outside, Watched, vars
  <2> QED
    BY <2>1, LinkStep
<1> QED
  BY <1>1, LinkStart, PTL DEF Spec

(* The state machine, the records and the queues keep their types, before  *)
(* and after an interrupt has overtaken handleExt.                         *)
THEOREM LinkTypeCorrect == Spec => []TypeOK
<1>1. Init => Typed
  BY LinkStart, InvTyped
<1>2. Typed => TypeOK
  BY DEF Typed
<1> QED
  BY <1>1, <1>2, KeepsTypes, PTL DEF Spec

(* innerReceiveRecord never receives a packet for a slot that is in        *)
(* slotsInUse, unless an interrupt has overtaken handleExt before.         *)
THEOREM NoSlotIsUsedTwice ==
  ASSUME ~ResetDuringExt
  PROVE  Spec => []NoDuplicateSlotUsage
<1>1. (~overtaken => LinkInv) => NoDuplicateSlotUsage
  <2> SUFFICES ASSUME LinkInv, phase = "up", toOut # <<>>, Head(toOut).kind = "DATA"
               PROVE  Head(toOut).slot \notin slotsInUse
    BY DEF NoDuplicateSlotUsage
  <2>1. 1 \in DOMAIN toOut /\ Head(toOut) = toOut[1]
    BY DEF LinkInv, TypeOK, LineTypeOK
  <2> QED
    BY <2>1 DEF LinkInv, OnePlace, RequestsOnLine
<1> QED
  BY <1>1, LinkInvariant, PTL

(* enter_iTRANSMITTING is called with the NULL of an empty queue only when *)
(* an interrupt has overtaken handleExt: otherwise whoever enters          *)
(* TRANSMITPREP has seen a request, and until its ACK arrives nobody else  *)
(* dequeues it.                                                            *)
THEOREM NeverTransmitsNull ==
  ASSUME ~ResetDuringExt
  PROVE  Spec => []NoNullTransmit
<1>1. Init => NoNullTransmit
  BY DEF Init, IoInit, NoNullTransmit
<1>2. (~overtaken => LinkInv) /\ NoNullTransmit /\ [Next]_vars => NoNullTransmit'
  <2>0. overtaken /\ [Next]_vars => overtaken'
    BY DEF Next, Inside, Outside, Watched, vars
  <2> SUFFICES ASSUME LinkInv, pstate # "NULL_REQUEST", [Next]_vars
               PROVE  pstate' # "NULL_REQUEST"
    BY <2>0 DEF NoNullTransmit
  <2>1. pstate = "TRANSMITPREP" => nextRequest # NULL
    BY NextIsWaiting DEF LinkInv, Control, Announces, Preparing
  <2>2. ~(onAckInTransmitPrep /\ nextRequest = NULL)
    BY <2>1 DEF onAckInTransmitPrep
  <2>3. CASE UNCHANGED pstate
    BY <2>3
  <2>4. CASE endReceivePacket
    BY <2>2, <2>4 DEF endReceivePacket, receive, onWantSend, onWelcome, onAck,
       onAckInTransmitPrep, onAckWantSend, onClear, onDial, onData, enter_iWELCOME,
       enter_iTRANSMITPREP, enter_iRECEIVING, enter_iIDLE, enter_iRESET, enter_iRECONNECT_CPREAD,
       enter_iRECONNECT_DIALED, enter_iTRANSMITTING
  <2>5. CASE endWrite
    <3>1. pstate \in PStates
      BY DEF LinkInv, TypeOK, IoTypeOK
    <3> QED
      BY <2>5, <3>1 DEF endWrite, deviceEnd, Settled, PStates, enter_iTRANSMITPREP, enter_iIDLE
  <2>6. CASE extEnterTransmitPrep
    BY <2>6 DEF extEnterTransmitPrep
  <2> QED
    BY <2>3, <2>4, <2>5, <2>6 DEF Next, Inside, Outside, ExtHandler, devintHandler, extEnqueues,
       extCheckIdle, extStartIO, extStat, beginReceivePacket, ioVars, vars
<1> QED
  BY <1>1, <1>2, LinkInvariant, PTL DEF Spec

(* The two proxies use the slot pool as its specification allows, up to    *)
(* and including the step in which handleExt is overtaken: a slot is       *)
(* answered and freed only while it is with the outside proxy, and the     *)
(* pool is reset only between two external interrupts.                     *)
THEOREM LinkRefinesPool ==
  ASSUME ~ResetDuringExt
  PROVE  Spec => PoolRefined
<1>1. Init => Pool!PoolInit
  BY DEF Init, PoolInit, initRequestBuffers, Pool!PoolInit, Pool!initRequestBuffers, Slots,
     Pool!Slots
<1>2. (~overtaken => LinkInv) /\ [Next]_vars => [~overtaken => Pool!PoolNext]_(Pool!poolVars)
  BY RefinesStep
<1> QED
  BY <1>1, <1>2, LinkInvariant, PTL DEF Spec, PoolRefined

(* A response packet answers the client whose request it is for.           *)
THEOREM RepliesAnswerTheirRequests ==
  ASSUME ~ResetDuringExt
  PROVE  Spec => ReplyAnswersItsRequest
<1>1. (~overtaken => LinkInv) /\ [Next]_vars =>
        [ResponseTaken /\ ~overtaken => pending \ pending' \subseteq {toIn[1].msg}]_vars
  <2> SUFFICES ASSUME LinkInv, Next, ResponseTaken
               PROVE  pending \ pending' \subseteq {toIn[1].msg}
    OBVIOUS
  <2>1. endReceivePacket
    BY DEF ResponseTaken, Next, Inside, Outside, ExtHandler, devintHandler, extEnqueues,
       extCheckIdle, extEnterTransmitPrep, extStartIO, extStat, beginReceivePacket, endWrite,
       ioVars
  <2>2. ASSUME NEW k \in 1 .. MaxCoalesce, NEW f \in BOOLEAN, receive(toIn[1], f)
        PROVE  replyAndFree(toIn[1].slot)
    BY <2>2 DEF ResponseTaken, receive, onData
  <2>3. \A k \in 1 .. MaxCoalesce : (k >= 2 /\ toIn[2].kind = "WANT_SEND") \in BOOLEAN
    OBVIOUS
  <2>4. replyAndFree(toIn[1].slot)
    BY <2>1, <2>2, <2>3 DEF endReceivePacket, ResponseTaken
  <2>5. toIn[1].msg = msgId[toIn[1].slot]
    BY ResponseIsSent DEF ResponseTaken
  <2> QED
    BY <2>4, <2>5 DEF replyAndFree
<1> QED
  BY <1>1, LinkInvariant, PTL DEF Spec, ReplyAnswersItsRequest

(* What is proved of the pool holds of the link: no client's message is    *)
(* forgotten, whatever is transmitted, answered, reset or restarted, until *)
(* an interrupt overtakes handleExt.                                       *)
THEOREM LinkForgetsNoMessage ==
  ASSUME ~ResetDuringExt
  PROVE  Spec => [](~overtaken => Pool!NoMessageForgotten)
<1> DEFINE Known == ~overtaken => LinkInv /\ PoolProofs!NoMessageForgotten
<1>1. PoolProofs!NoMessageForgotten => Pool!NoMessageForgotten
  BY DEF Pool!NoMessageForgotten, Pool!InQueue, Pool!QueuePos, Pool!After, Pool!Arc, Pool!Slots,
     Pool!RING_NEXT, Pool!ExtSteps, PoolProofs!NoMessageForgotten, PoolProofs!InQueue,
     PoolProofs!QueuePos, PoolProofs!After, PoolProofs!Arc, PoolProofs!Slots,
     PoolProofs!RING_NEXT, PoolProofs!ExtSteps
<1>2. Init => Known
  <2>1. Init => PoolProofs!NoMessageForgotten
    BY DEF Init, PoolInit, PoolProofs!NoMessageForgotten
  <2> QED
    BY <2>1, LinkStart
<1>3. Known /\ [Next]_vars => Known'
  <2> SUFFICES ASSUME Known, [Next]_vars, ~overtaken'
               PROVE  LinkInv' /\ PoolProofs!NoMessageForgotten'
    OBVIOUS
  <2>1. LinkInv /\ PoolProofs!NoMessageForgotten
    BY DEF Next, Inside, Outside, Watched, vars
  <2>2. PoolProofs!PoolInv
    BY <2>1, SamePoolInv DEF LinkInv
  <2>3. [PoolProofs!PoolNext]_(PoolProofs!poolVars)
    BY <2>1, RefinesStep, SamePoolStep
  <2>4. PoolProofs!NoMessageForgotten'
    BY <2>1, <2>2, <2>3, PoolProofs!StepKnown, CountAssumption, NullAssumption, NoMsgAssumption,
       ResetAssumption DEF Slots, PoolProofs!Slots
  <2> QED
    BY <2>1, <2>4, LinkStep
<1>4. Known => (~overtaken => Pool!NoMessageForgotten)
  BY <1>1
<1> QED
  BY <1>2, <1>3, <1>4, PTL DEF Spec
=============================================================================
