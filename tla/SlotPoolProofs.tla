--------------------------- MODULE SlotPoolProofs ---------------------------
(***************************************************************************)
(* What holds of the request slots for every number of slots, as long as   *)
(* no reconnection interrupts the external handler.  PoolInv is the        *)
(* inductive invariant; that neither ring overflows although no operation  *)
(* checks for it is a counting argument (RingNotFull, QueueNotFull).       *)
(***************************************************************************)
EXTENDS SlotPool, FiniteSetTheorems, TLAPS

-----------------------------------------------------------------------------
(* Arithmetic of the ring positions.                                       *)

(* The successor of a position is another position.                        *)
LEMMA NextInRing ==
  ASSUME NEW i \in Slots
  PROVE  RING_NEXT(i) \in Slots /\ RING_NEXT(i) # i
BY CountAssumption DEF RING_NEXT, Slots

(* RING_NEXT visits a position from one position only.                     *)
LEMMA NextInjective ==
  ASSUME NEW i \in Slots, NEW j \in Slots, RING_NEXT(i) = RING_NEXT(j)
  PROVE  i = j
BY CountAssumption DEF RING_NEXT, Slots

(* An arc contains both its ends.                                          *)
LEMMA ArcEnds ==
  ASSUME NEW a \in Slots, NEW b \in Slots
  PROVE  a \in Arc(a, b) /\ b \in Arc(a, b) /\ Arc(a, b) \subseteq Slots
BY CountAssumption DEF Arc, Slots

(* The arc from a position to itself has no other position.                *)
LEMMA ArcOfOne ==
  ASSUME NEW a \in Slots
  PROVE  Arc(a, a) = {a}
BY CountAssumption DEF Arc, Slots

(* Advancing the lower end takes that position off the arc: getSlot and    *)
(* getNextRequestToSend.                                                   *)
LEMMA ArcAdvanceLow ==
  ASSUME NEW a \in Slots, NEW b \in Slots, a # b
  PROVE  Arc(RING_NEXT(a), b) = Arc(a, b) \ {a}
BY CountAssumption DEF Arc, Slots, RING_NEXT

(* Advancing the upper end adds one position: freeSlot and enqueueRequest. *)
LEMMA ArcAdvanceHigh ==
  ASSUME NEW a \in Slots, NEW b \in Slots, RING_NEXT(b) # a
  PROVE  /\ Arc(a, RING_NEXT(b)) = Arc(a, b) \cup {RING_NEXT(b)}
         /\ RING_NEXT(b) \notin Arc(a, b)
BY CountAssumption DEF Arc, Slots, RING_NEXT

(* An arc whose upper end is just behind its lower end is the whole ring.  *)
LEMMA ArcFull ==
  ASSUME NEW a \in Slots, NEW b \in Slots, RING_NEXT(b) = a
  PROVE  Arc(a, b) = Slots
BY CountAssumption DEF Arc, Slots, RING_NEXT

(* No function maps the slots one-to-one into the slots without one.       *)
LEMMA NoSlotToSpare ==
  ASSUME NEW r \in Slots, NEW f \in [Slots -> Slots \ {r}]
  PROVE  \E i, j \in Slots : i # j /\ f[i] = f[j]
<1>1. IsFiniteSet(Slots) /\ Cardinality(Slots) = MAX_REQUEST_COUNT
  <2>1. 0 \in Int /\ MAX_REQUEST_COUNT - 1 \in Int
    BY CountAssumption
  <2> QED
    BY <2>1, FS_Interval, CountAssumption DEF Slots
<1>2. /\ IsFiniteSet(Slots \ {r})
      /\ Cardinality(Slots \ {r}) = MAX_REQUEST_COUNT - 1
  BY <1>1, FS_RemoveElement
<1>3. Cardinality(Slots \ {r}) < Cardinality(Slots)
  BY <1>1, <1>2, CountAssumption
<1> QED
  BY <1>1, <1>2, <1>3, FS_PigeonHole

(* A waiting position more: publishing a request in a queue not yet full.  *)
LEMMA AfterAdvanceHigh ==
  ASSUME NEW a \in Slots, NEW b \in Slots, RING_NEXT(b) # a
  PROVE  After(a, RING_NEXT(b)) = After(a, b) \cup {RING_NEXT(b)}
<1>1. CASE a = b
  BY <1>1, ArcOfOne, NextInRing DEF After
<1>2. CASE a # b
  <2>1. RING_NEXT(b) # RING_NEXT(a)
    BY <1>2, NextInjective
  <2>2. RING_NEXT(a) \in Slots
    BY NextInRing
  <2>3. Arc(RING_NEXT(a), RING_NEXT(b)) = Arc(RING_NEXT(a), b) \cup {RING_NEXT(b)}
    BY <2>1, <2>2, ArcAdvanceHigh
  <2> QED
    BY <1>2, <2>3 DEF After
<1> QED
  BY <1>1, <1>2

(* A waiting position less: dequeuing the oldest request.                  *)
LEMMA AfterAdvanceLow ==
  ASSUME NEW a \in Slots, NEW b \in Slots, a # b
  PROVE  /\ After(RING_NEXT(a), b) = After(a, b) \ {RING_NEXT(a)}
         /\ RING_NEXT(a) \in After(a, b)
<1>0. RING_NEXT(a) \in Slots
  BY NextInRing
<1>1. CASE RING_NEXT(a) = b
  BY <1>1, <1>0, ArcOfOne DEF After
<1>2. CASE RING_NEXT(a) # b
  BY <1>0, <1>2, ArcAdvanceLow, ArcEnds DEF After
<1> QED
  BY <1>1, <1>2

(* The position behind the youngest request is not a waiting one, even if  *)
(* the queue is full.                                                      *)
LEMMA AfterTop ==
  ASSUME NEW a \in Slots, NEW b \in Slots
  PROVE  RING_NEXT(b) \notin After(a, b)
<1>1. CASE a = b
  BY <1>1 DEF After
<1>2. CASE a # b
  <2>1. RING_NEXT(b) # RING_NEXT(a)
    BY <1>2, NextInjective
  <2> QED
    BY <1>2, <2>1, NextInRing, ArcAdvanceHigh DEF After
<1> QED
  BY <1>1, <1>2

(* The positions of waiting requests are positions of the ring.            *)
LEMMA AfterSubset ==
  ASSUME NEW a \in Slots, NEW b \in Slots
  PROVE  After(a, b) \subseteq Slots
BY NextInRing, ArcEnds DEF After

-----------------------------------------------------------------------------
(* Neither ring overflows.                                                 *)

(* freeSlot has room: while a slot is with the outside proxy the free ring *)
(* does not hold all slots, so it does not occupy all positions.           *)
LEMMA RingNotFull ==
  ASSUME PoolInv, NEW s \in sent
  PROVE  RING_NEXT(reqLastFree) # reqCurrFree
<1> SUFFICES ASSUME RING_NEXT(reqLastFree) = reqCurrFree PROVE FALSE
  OBVIOUS
<1> DEFINE f == [i \in Slots |-> RingEntry(i)]
<1>1. FreePos = Slots
  BY ArcFull DEF FreePos, PoolInv, PoolTypeOK
<1>2. s \in Slots /\ ~InRing(s)
  BY DEF PoolInv, PoolTypeOK, OneOwner
<1>3. f \in [Slots -> Slots \ {s}]
  BY <1>1, <1>2 DEF PoolInv, RingsHoldSlots, InRing
<1>4. PICK i, j \in Slots : i # j /\ f[i] = f[j]
  BY <1>2, <1>3, NoSlotToSpare
<1> QED
  BY <1>1, <1>4 DEF PoolInv, OneOwner

(* enqueueRequest has room: a full queue, the slot to be enqueued and the  *)
(* slot the free ring always keeps would be one slot too many.             *)
LEMMA QueueNotFull ==
  ASSUME PoolInv, extPc \in {"fill", "enqueue", "publish"}
  PROVE  RING_NEXT(reqLastIn) # reqLastOut
<1> SUFFICES ASSUME RING_NEXT(reqLastIn) = reqLastOut PROVE FALSE
  OBVIOUS
<1> DEFINE r == RingEntry(reqLastFree)
           f == [i \in Slots |-> IF i = reqLastOut THEN extReq ELSE reqQueue[i]]
<1>0. /\ reqLastIn \in Slots /\ reqLastOut \in Slots /\ extReq \in Slots
      /\ reqCurrFree \in Slots /\ reqLastFree \in Slots
  BY DEF PoolInv, PoolTypeOK, ExtHoldsSlot
<1>1. reqLastIn # reqLastOut
  BY <1>0, NextInRing
<1>2. QueuePos = Slots \ {reqLastOut}
  BY <1>0, <1>1, ArcAdvanceLow, ArcFull DEF QueuePos, After
<1>3. r \in Slots /\ InRing(r)
  BY <1>0, ArcEnds DEF FreePos, InRing, PoolInv, RingsHoldSlots
<1>4. InExt(extReq)
  BY DEF InExt
<1>5. \A i \in QueuePos : reqQueue[i] \in Slots /\ InQueue(reqQueue[i])
  BY DEF InQueue, PoolInv, RingsHoldSlots
<1>6. extReq # r /\ \A i \in QueuePos : reqQueue[i] # r /\ reqQueue[i] # extReq
  BY <1>0, <1>3, <1>4, <1>5 DEF PoolInv, OneOwner
<1>7. f \in [Slots -> Slots \ {r}]
  BY <1>0, <1>2, <1>5, <1>6
<1>8. PICK i, j \in Slots : i # j /\ f[i] = f[j]
  BY <1>3, <1>7, NoSlotToSpare
<1> QED
  BY <1>2, <1>6, <1>8 DEF PoolInv, OneOwner

-----------------------------------------------------------------------------
(* The inductive invariant.                                                *)

(* The buffers as initRequestBuffers leaves them: all slots are free.      *)
LEMMA InitInv == PoolInit => PoolInv
<1> SUFFICES ASSUME PoolInit PROVE PoolInv
  OBVIOUS
<1> USE CountAssumption, NoMsgAssumption DEF PoolInit, initRequestBuffers
<1>1. PoolTypeOK
  BY DEF PoolTypeOK, ExtSteps, Slots
<1>2. FreePos \subseteq Slots /\ QueuePos = {}
  BY DEF FreePos, Arc, QueuePos, After
<1>3. \A i \in FreePos : RingEntry(i) = i
  BY <1>2 DEF RingEntry
<1>4. OneOwner
  BY <1>2, <1>3 DEF OneOwner, InRing, InQueue, InExt
<1> QED
  BY <1>1, <1>2, <1>3, <1>4 DEF PoolInv, RingsHoldSlots, ExtHoldsSlot,
     MsgsMatchOwners, InQueue

(* An operation that leaves the contents of both rings, the slot in the    *)
(* hands of the external handler and the transmitted slots as they are     *)
(* changes no owner.                                                       *)
LEMMA SameOwners ==
  ASSUME PoolInv,
         FreePos' = FreePos, QueuePos' = QueuePos,
         \A i \in FreePos : RingEntry(i)' = RingEntry(i),
         \A i \in QueuePos : reqQueue'[i] = reqQueue[i],
         \A s \in Slots : InExt(s)' = InExt(s),
         sent' = sent
  PROVE  /\ \A s \in Slots : InRing(s)' = InRing(s) /\ InQueue(s)' = InQueue(s)
         /\ OneOwner' /\ RingsHoldSlots'
<1>1. \A s \in Slots : InRing(s)' = InRing(s) /\ InQueue(s)' = InQueue(s)
  BY DEF InRing, InQueue
<1>2. OneOwner' /\ RingsHoldSlots'
  BY <1>1 DEF PoolInv, OneOwner, RingsHoldSlots
<1> QED
  BY <1>1, <1>2

(* Every step of the external interrupt handler preserves the invariant.   *)
LEMMA ExtInv ==
  ASSUME PoolInv, ExtNext
  PROVE  PoolInv'
<1> USE DEF PoolInv
<1>0. /\ reqCurrFree \in Slots /\ reqLastFree \in Slots
      /\ reqLastIn \in Slots /\ reqLastOut \in Slots
      /\ FreePos \subseteq Slots /\ QueuePos \subseteq Slots
      /\ reqCurrFree \in FreePos
  BY ArcEnds, AfterSubset DEF PoolTypeOK, FreePos, QueuePos
<1>1. ASSUME NEW m \in Msgs, handleExt(m) PROVE PoolInv'
  <2> USE <1>1 DEF handleExt, freeVars, queueVars
  <2>1. /\ FreePos' = FreePos /\ QueuePos' = QueuePos
        /\ \A i \in FreePos : RingEntry(i)' = RingEntry(i)
        /\ \A i \in QueuePos : reqQueue'[i] = reqQueue[i]
    BY DEF FreePos, QueuePos, RingEntry
  <2>2. /\ \A s \in Slots : InRing(s)' = InRing(s) /\ InQueue(s)' = InQueue(s)
        /\ OneOwner' /\ RingsHoldSlots'
    BY <2>1, SameOwners DEF InExt
  <2>3. PoolTypeOK'
    BY DEF PoolTypeOK, ExtSteps
  <2>4. ExtHoldsSlot'
    BY <2>1 DEF ExtHoldsSlot
  <2>5. MsgsMatchOwners'
    BY <2>2, NoMsgAssumption DEF MsgsMatchOwners, PoolTypeOK
  <2> QED
    BY <2>2, <2>3, <2>4, <2>5
<1>2. ASSUME rejectOutOfSlots PROVE PoolInv'
  <2> USE <1>2 DEF rejectOutOfSlots, freeVars, queueVars
  <2>1. /\ FreePos' = FreePos /\ QueuePos' = QueuePos
        /\ \A i \in FreePos : RingEntry(i)' = RingEntry(i)
        /\ \A i \in QueuePos : reqQueue'[i] = reqQueue[i]
    BY DEF FreePos, QueuePos, RingEntry
  <2>2. /\ \A s \in Slots : InRing(s)' = InRing(s) /\ InQueue(s)' = InQueue(s)
        /\ OneOwner' /\ RingsHoldSlots'
    BY <2>1, SameOwners DEF InExt
  <2>3. PoolTypeOK'
    BY DEF PoolTypeOK, ExtSteps
  <2>4. ExtHoldsSlot'
    BY <2>1 DEF ExtHoldsSlot
  <2>5. MsgsMatchOwners'
    BY <2>2 DEF MsgsMatchOwners, PoolTypeOK
  <2> QED
    BY <2>2, <2>3, <2>4, <2>5
<1>3. ASSUME getSlot PROVE PoolInv'
  <2> USE <1>3 DEF getSlot, freeVars, queueVars
  <2>1. /\ FreePos' = FreePos /\ QueuePos' = QueuePos
        /\ \A i \in FreePos : RingEntry(i)' = RingEntry(i)
        /\ \A i \in QueuePos : reqQueue'[i] = reqQueue[i]
    BY DEF FreePos, QueuePos, RingEntry
  <2>2. /\ \A s \in Slots : InRing(s)' = InRing(s) /\ InQueue(s)' = InQueue(s)
        /\ OneOwner' /\ RingsHoldSlots'
    BY <2>1, SameOwners DEF InExt
  <2>3. PoolTypeOK'
    BY <1>0 DEF PoolTypeOK, ExtSteps
  <2>4. ExtHoldsSlot'
    BY <1>0, <2>1 DEF ExtHoldsSlot, RingsHoldSlots, RingEntry
  <2>5. MsgsMatchOwners'
    BY <2>2 DEF MsgsMatchOwners, PoolTypeOK
  <2> QED
    BY <2>2, <2>3, <2>4, <2>5
<1>4. ASSUME takeSlot PROVE PoolInv'
  <2> USE <1>4 DEF takeSlot, queueVars
  <2>1. /\ FreePos' = FreePos /\ QueuePos' = QueuePos
        /\ \A i \in FreePos : RingEntry(i)' = RingEntry(i)
        /\ \A i \in QueuePos : reqQueue'[i] = reqQueue[i]
    BY <1>0 DEF FreePos, QueuePos, RingEntry, PoolTypeOK, ExtHoldsSlot
  <2>2. /\ \A s \in Slots : InRing(s)' = InRing(s) /\ InQueue(s)' = InQueue(s)
        /\ OneOwner' /\ RingsHoldSlots'
    BY <2>1, SameOwners DEF InExt
  <2>3. PoolTypeOK'
    BY <1>0 DEF PoolTypeOK, ExtSteps
  <2>4. ExtHoldsSlot'
    BY <2>1 DEF ExtHoldsSlot
  <2>5. MsgsMatchOwners'
    BY <2>2 DEF MsgsMatchOwners, PoolTypeOK
  <2> QED
    BY <2>2, <2>3, <2>4, <2>5
<1>5. ASSUME advanceCurrFree PROVE PoolInv'
  <2> USE <1>5 DEF advanceCurrFree, queueVars
  <2>1. /\ FreePos' = FreePos \ {reqCurrFree} /\ QueuePos' = QueuePos
        /\ reqCurrFree' \in Slots
    BY <1>0, ArcAdvanceLow, NextInRing DEF FreePos, QueuePos, ExtHoldsSlot
  <2>2. /\ \A i \in FreePos' : RingEntry(i)' = RingEntry(i)
        /\ RingEntry(reqCurrFree) = extReq
    BY <2>1 DEF RingEntry
  <2>3. extReq \in Slots /\ InRing(extReq)
    BY <1>0, <2>2 DEF ExtHoldsSlot, InRing
  <2>4. \A s \in Slots : /\ InRing(s)' = (InRing(s) /\ s # extReq)
                         /\ InQueue(s)' = InQueue(s)
                         /\ ~InExt(s) /\ InExt(s)' = (s = extReq)
    BY <1>0, <2>1, <2>2 DEF InRing, InQueue, InExt, OneOwner
  <2>5. PoolTypeOK'
    BY <2>1 DEF PoolTypeOK, ExtSteps
  <2>6. OneOwner'
    <3>1. ~InQueue(extReq) /\ extReq \notin sent
      BY <2>3 DEF OneOwner
    <3>2. \A i, j \in FreePos' : RingEntry(i)' = RingEntry(j)' => i = j
      BY <2>1, <2>2 DEF OneOwner
    <3>3. \A i, j \in QueuePos' : reqQueue'[i] = reqQueue'[j] => i = j
      BY <2>1 DEF OneOwner
    <3> QED
      BY <2>3, <2>4, <3>1, <3>2, <3>3 DEF OneOwner
  <2>7. RingsHoldSlots' /\ ExtHoldsSlot'
    BY <2>1, <2>2, <2>3 DEF RingsHoldSlots, ExtHoldsSlot
  <2>8. MsgsMatchOwners'
    BY <2>3, <2>4 DEF MsgsMatchOwners, PoolTypeOK
  <2> QED
    BY <2>5, <2>6, <2>7, <2>8
<1>6. ASSUME fillRequest PROVE PoolInv'
  <2> USE <1>6 DEF fillRequest, freeVars, queueVars
  <2>1. /\ FreePos' = FreePos /\ QueuePos' = QueuePos
        /\ \A i \in FreePos : RingEntry(i)' = RingEntry(i)
        /\ \A i \in QueuePos : reqQueue'[i] = reqQueue[i]
    BY DEF FreePos, QueuePos, RingEntry
  <2>2. /\ \A s \in Slots : InRing(s)' = InRing(s) /\ InQueue(s)' = InQueue(s)
        /\ OneOwner' /\ RingsHoldSlots'
    BY <2>1, SameOwners DEF InExt
  <2>3. extReq \in Slots /\ InExt(extReq)
    BY DEF ExtHoldsSlot, InExt
  <2>4. PoolTypeOK'
    BY DEF PoolTypeOK, ExtSteps
  <2>5. ExtHoldsSlot'
    BY <2>1 DEF ExtHoldsSlot
  <2>6. ~InRing(extReq) /\ extMsg \in pending /\ extMsg # NoMsg
    BY <2>3, NoMsgAssumption DEF OneOwner, MsgsMatchOwners, PoolTypeOK
  <2>7. MsgsMatchOwners'
    BY <2>2, <2>3, <2>6 DEF MsgsMatchOwners, PoolTypeOK
  <2> QED
    BY <2>2, <2>4, <2>5, <2>7
<1>7. ASSUME enqueueRequest PROVE PoolInv'
  <2> USE <1>7 DEF enqueueRequest, freeVars
  <2>1. RING_NEXT(reqLastIn) \in Slots /\ RING_NEXT(reqLastIn) \notin QueuePos
    BY <1>0, NextInRing, AfterTop DEF QueuePos
  <2>2. /\ FreePos' = FreePos /\ QueuePos' = QueuePos
        /\ \A i \in FreePos : RingEntry(i)' = RingEntry(i)
        /\ \A i \in QueuePos : reqQueue'[i] = reqQueue[i]
    BY <1>0, <2>1 DEF FreePos, QueuePos, RingEntry, PoolTypeOK
  <2>3. /\ \A s \in Slots : InRing(s)' = InRing(s) /\ InQueue(s)' = InQueue(s)
        /\ OneOwner' /\ RingsHoldSlots'
    BY <2>2, SameOwners DEF InExt
  <2>4. PoolTypeOK'
    BY <2>1 DEF PoolTypeOK, ExtSteps
  <2>5. ExtHoldsSlot'
    BY <2>1 DEF ExtHoldsSlot, PoolTypeOK
  <2>6. MsgsMatchOwners'
    BY <2>3 DEF MsgsMatchOwners, PoolTypeOK
  <2> QED
    BY <2>3, <2>4, <2>5, <2>6
<1>8. ASSUME publishRequest PROVE PoolInv'
  <2> USE <1>8 DEF publishRequest, freeVars
  <2>1. /\ extIdx = RING_NEXT(reqLastIn) /\ extIdx \in Slots
        /\ reqQueue[extIdx] = extReq /\ extReq \in Slots
    BY <1>0, NextInRing DEF ExtHoldsSlot
  <2>2. /\ FreePos' = FreePos /\ QueuePos' = QueuePos \cup {extIdx}
        /\ \A i \in FreePos : RingEntry(i)' = RingEntry(i)
    BY <1>0, <2>1, QueueNotFull, AfterAdvanceHigh DEF FreePos, QueuePos, RingEntry
  <2>3. \A s \in Slots : /\ InRing(s)' = InRing(s)
                         /\ InQueue(s)' = (InQueue(s) \/ s = extReq)
                         /\ InExt(s) = (s = extReq) /\ ~InExt(s)'
    BY <2>1, <2>2 DEF InRing, InQueue, InExt
  <2>4. PoolTypeOK'
    BY <2>1 DEF PoolTypeOK, ExtSteps
  <2>5. ~InQueue(extReq) /\ ~InRing(extReq) /\ extReq \notin sent
    BY <2>1, <2>3 DEF OneOwner
  <2>6. \A i, j \in QueuePos' : reqQueue'[i] = reqQueue'[j] => i = j
    BY <2>1, <2>2, <2>5 DEF OneOwner, InQueue
  <2>7. OneOwner'
    BY <2>1, <2>2, <2>3, <2>5, <2>6 DEF OneOwner
  <2>8. RingsHoldSlots' /\ ExtHoldsSlot'
    BY <2>1, <2>2 DEF RingsHoldSlots, ExtHoldsSlot
  <2>9. MsgsMatchOwners'
    BY <2>1, <2>3, NoMsgAssumption DEF MsgsMatchOwners, PoolTypeOK
  <2> QED
    BY <2>4, <2>7, <2>8, <2>9
<1>9. ASSUME extReturn PROVE PoolInv'
  <2> USE <1>9 DEF extReturn, freeVars, queueVars
  <2>1. /\ FreePos' = FreePos /\ QueuePos' = QueuePos
        /\ \A i \in FreePos : RingEntry(i)' = RingEntry(i)
        /\ \A i \in QueuePos : reqQueue'[i] = reqQueue[i]
    BY DEF FreePos, QueuePos, RingEntry
  <2>2. /\ \A s \in Slots : InRing(s)' = InRing(s) /\ InQueue(s)' = InQueue(s)
        /\ OneOwner' /\ RingsHoldSlots'
    BY <2>1, SameOwners DEF InExt
  <2>3. PoolTypeOK'
    BY DEF PoolTypeOK, ExtSteps
  <2>4. ExtHoldsSlot' /\ MsgsMatchOwners'
    BY <2>1, <2>2 DEF ExtHoldsSlot, MsgsMatchOwners
  <2> QED
    BY <2>2, <2>3, <2>4
<1> QED
  BY <1>1, <1>2, <1>3, <1>4, <1>5, <1>6, <1>7, <1>8, <1>9 DEF ExtNext

(* Every use of the slots by the device interrupt handler preserves the    *)
(* invariant, if resetAllRequests does not interrupt the external handler. *)
LEMMA DevInv ==
  ASSUME PoolInv, DevNext, ~ResetDuringExt
  PROVE  PoolInv'
<1> USE DEF PoolInv
<1>0. /\ reqCurrFree \in Slots /\ reqLastFree \in Slots
      /\ reqLastIn \in Slots /\ reqLastOut \in Slots
      /\ FreePos \subseteq Slots /\ QueuePos \subseteq Slots
  BY ArcEnds, AfterSubset DEF PoolTypeOK, FreePos, QueuePos
<1>1. ASSUME getNextRequestToSend PROVE PoolInv'
  <2> DEFINE idx == RING_NEXT(reqLastOut)
             req == reqQueue[idx]
  <2> USE <1>1 DEF getNextRequestToSend, freeVars, extVars
  <2>1. idx \in QueuePos /\ idx \in Slots
    BY <1>0, AfterAdvanceLow, NextInRing DEF QueuePos, havingRequest
  <2>2. QueuePos' = QueuePos \ {idx} /\ FreePos' = FreePos
    BY <1>0, AfterAdvanceLow DEF QueuePos, FreePos, havingRequest
  <2>3. /\ req \in Slots /\ InQueue(req)
        /\ \A i \in FreePos : RingEntry(i)' = RingEntry(i)
        /\ \A i \in QueuePos' : reqQueue'[i] = reqQueue[i] /\ reqQueue[i] # req
    BY <1>0, <2>1, <2>2 DEF RingsHoldSlots, InQueue, RingEntry, OneOwner, PoolTypeOK
  <2>4. \A s \in Slots : /\ InRing(s)' = InRing(s)
                         /\ InQueue(s)' = (InQueue(s) /\ s # req)
                         /\ InExt(s)' = InExt(s)
    BY <2>1, <2>2, <2>3 DEF InRing, InQueue, InExt
  <2>5. sent' = sent \cup {req}
    OBVIOUS
  <2>6. PoolTypeOK'
    BY <2>1, <2>3 DEF PoolTypeOK
  <2>7. OneOwner'
    <3>1. ~InRing(req) /\ ~InExt(req) /\ req \notin sent
      BY <2>3 DEF OneOwner
    <3>2. \A i, j \in FreePos' : RingEntry(i)' = RingEntry(j)' => i = j
      BY <2>2, <2>3 DEF OneOwner
    <3>3. \A i, j \in QueuePos' : reqQueue'[i] = reqQueue'[j] => i = j
      BY <2>2, <2>3 DEF OneOwner
    <3> HIDE DEF req
    <3> QED
      BY <2>4, <2>5, <3>1, <3>2, <3>3 DEF OneOwner
  <2>8. RingsHoldSlots'
    BY <2>2, <2>3 DEF RingsHoldSlots
  <2>9. ExtHoldsSlot'
    <3>1. RING_NEXT(reqLastIn) # idx
      BY <1>0, NextInjective DEF havingRequest
    <3> QED
      BY <1>0, <3>1, NextInRing DEF ExtHoldsSlot, PoolTypeOK
  <2>10. MsgsMatchOwners'
    BY <2>3, <2>4, <2>5 DEF MsgsMatchOwners, PoolTypeOK
  <2> QED
    BY <2>6, <2>7, <2>8, <2>9, <2>10
<1>2. ASSUME NEW s \in sent, replyAndFree(s) PROVE PoolInv'
  <2>0. PICK next \in Slots : next = RING_NEXT(reqLastFree)
    BY <1>0, NextInRing
  <2> USE <1>2 DEF replyAndFree, freeSlot, queueVars, extVars
  <2>1. s \in Slots /\ next # reqCurrFree
    BY <2>0, RingNotFull DEF PoolTypeOK
  <2>2. /\ FreePos' = FreePos \cup {next} /\ next \notin FreePos
        /\ QueuePos' = QueuePos
    BY <1>0, <2>0, <2>1, ArcAdvanceHigh DEF FreePos, QueuePos
  <2>3. /\ \A i \in FreePos : RingEntry(i)' = RingEntry(i)
        /\ RingEntry(next)' = s
    BY <1>0, <2>0, <2>1, <2>2 DEF RingEntry, PoolTypeOK
  <2>4. ~InRing(s) /\ ~InQueue(s) /\ ~InExt(s) /\ msgId[s] # NoMsg
    BY <2>1 DEF OneOwner, MsgsMatchOwners
  <2>5. \A t \in Slots : /\ InRing(t)' = (InRing(t) \/ t = s)
                         /\ InQueue(t)' = InQueue(t)
                         /\ InExt(t)' = InExt(t)
    BY <2>2, <2>3 DEF InRing, InQueue, InExt
  <2>6. PoolTypeOK'
    BY <2>0, <2>1 DEF PoolTypeOK
  <2>7. OneOwner'
    <3>1. \A i, j \in FreePos' : RingEntry(i)' = RingEntry(j)' => i = j
      BY <2>2, <2>3, <2>4 DEF OneOwner, InRing
    <3>2. \A i, j \in QueuePos' : reqQueue'[i] = reqQueue'[j] => i = j
      BY <2>2 DEF OneOwner
    <3> QED
      BY <2>4, <2>5, <3>1, <3>2 DEF OneOwner
  <2>8. RingsHoldSlots'
    BY <2>1, <2>2, <2>3 DEF RingsHoldSlots
  <2>9. ExtHoldsSlot'
    BY <1>0, <2>0, <2>1, NextInRing DEF ExtHoldsSlot, PoolTypeOK
  <2>10. MsgsMatchOwners'
    <3>1. \A t \in Slots : msgId'[t] = IF t = s THEN NoMsg ELSE msgId[t]
      BY <2>1 DEF PoolTypeOK
    <3>2. extPc \in {"fill", "enqueue", "publish"} => extReq # s
      BY <2>4 DEF InExt
    <3>3. \A t \in Slots : t # s => msgId[t] # msgId[s]
      BY <2>1, <2>4 DEF MsgsMatchOwners
    <3>4. extPc \in {"getSlot", "take", "advance", "fill"} => extMsg # msgId[s]
      BY <2>1 DEF MsgsMatchOwners
    <3>5. extPc \in {"enqueue", "publish"} => extReq \in Slots /\ extMsg # msgId[s]
      BY <3>2, <3>3 DEF MsgsMatchOwners, ExtHoldsSlot
    <3>6. /\ pending' = pending \ {msgId[s]} /\ sent' = sent \ {s}
          /\ extPc' = extPc /\ extReq' = extReq /\ extMsg' = extMsg
      OBVIOUS
    <3>7. \A t \in Slots : /\ InRing(t)' => msgId'[t] = NoMsg
                           /\ InQueue(t)' \/ t \in sent' => msgId'[t] # NoMsg
                           /\ msgId'[t] # NoMsg => msgId'[t] \in pending'
      BY <2>4, <2>5, <3>1, <3>3, <3>6 DEF MsgsMatchOwners
    <3>8. \A t, u \in Slots : msgId'[t] = msgId'[u] /\ msgId'[t] # NoMsg => t = u
      BY <3>1 DEF MsgsMatchOwners
    <3>9. extPc' \in {"getSlot", "take", "advance", "fill"} =>
            extMsg' \in pending' /\ \A t \in Slots : msgId'[t] # extMsg'
      BY <3>1, <3>4, <3>6, NoMsgAssumption DEF MsgsMatchOwners, PoolTypeOK
    <3>10. /\ extPc' = "fill" => msgId'[extReq'] = NoMsg
           /\ extPc' \in {"enqueue", "publish"} =>
                msgId'[extReq'] = extMsg' /\ extMsg' \in pending'
      BY <3>1, <3>2, <3>5, <3>6 DEF MsgsMatchOwners, ExtHoldsSlot
    <3> QED
      BY <3>7, <3>8, <3>9, <3>10 DEF MsgsMatchOwners
  <2> QED
    BY <2>6, <2>7, <2>8, <2>9, <2>10
<1>3. ASSUME extPc = "none", resetAllRequests PROVE PoolInv'
  <2> USE <1>3 DEF resetAllRequests, extVars
  <2>1. FreePos' \subseteq Slots /\ QueuePos' = {}
    BY DEF FreePos, Arc, QueuePos, After
  <2>2. \A i \in FreePos' : RingEntry(i)' = i
    BY <2>1 DEF RingEntry
  <2>3. PoolTypeOK'
    BY CountAssumption DEF PoolTypeOK, Slots
  <2>4. OneOwner'
    BY <2>1, <2>2 DEF OneOwner, InRing, InQueue, InExt
  <2>5. RingsHoldSlots' /\ ExtHoldsSlot'
    BY <2>1, <2>2 DEF RingsHoldSlots, ExtHoldsSlot
  <2>6. MsgsMatchOwners'
    BY <2>1, <2>2 DEF MsgsMatchOwners, InQueue
  <2> QED
    BY <2>3, <2>4, <2>5, <2>6
<1> QED
  BY <1>1, <1>2, <1>3 DEF DevNext

(* No step of the two handlers breaks it.                                  *)
LEMMA NextInv ==
  ASSUME PoolInv, [PoolNext]_poolVars, ~ResetDuringExt
  PROVE  PoolInv'
<1>1. CASE ExtNext
  BY <1>1, ExtInv
<1>2. CASE DevNext
  BY <1>2, DevInv
<1>3. CASE UNCHANGED poolVars
  BY <1>3 DEF poolVars, freeVars, queueVars, extVars, PoolInv, PoolTypeOK,
     OneOwner, RingsHoldSlots, ExtHoldsSlot, MsgsMatchOwners, InRing, InQueue,
     InExt, FreePos, QueuePos, RingEntry
<1> QED
  BY <1>1, <1>2, <1>3 DEF PoolNext

-----------------------------------------------------------------------------
(* PoolInv is an invariant of the slot pool.                               *)
THEOREM PoolInvariant ==
  ASSUME ~ResetDuringExt
  PROVE  PoolSpec => []PoolInv
<1>1. PoolInit => PoolInv
  BY InitInv
<1>2. PoolInv /\ [PoolNext]_poolVars => PoolInv'
  BY NextInv
<1> QED
  BY <1>1, <1>2, PTL DEF PoolSpec

(* The types of the rings, the handler's locals and the message ids: no    *)
(* ring index ever leaves the arrays.                                      *)
THEOREM PoolTypeCorrect ==
  ASSUME ~ResetDuringExt
  PROVE  PoolSpec => []PoolTypeOK
<1>1. PoolInv => PoolTypeOK
  BY DEF PoolInv
<1> QED
  BY <1>1, PoolInvariant, PTL

(* A slot is never in two hands, whatever the number of slots and the      *)
(* interleaving of the two interrupt handlers.                             *)
THEOREM SlotsHaveOneOwner ==
  ASSUME ~ResetDuringExt
  PROVE  PoolSpec => []OneOwner
<1>1. PoolInv => OneOwner
  BY DEF PoolInv
<1> QED
  BY <1>1, PoolInvariant, PTL

(* getSlot hands out free slots only.                                      *)
THEOREM TakenSlotsAreFree ==
  ASSUME ~ResetDuringExt
  PROVE  PoolSpec => []TakenSlotIsFree
<1>1. PoolInv => TakenSlotIsFree
  <2> SUFFICES ASSUME PoolInv, extPc \in {"take", "advance", "fill"}
               PROVE  /\ extReq \in Slots
                      /\ msgId[extReq] = NoMsg
                      /\ extReq \notin sent
                      /\ ~InQueue(extReq)
    BY DEF TakenSlotIsFree
  <2>1. extReq \in Slots
    BY DEF PoolInv, ExtHoldsSlot
  <2>2. InRing(extReq) \/ InExt(extReq)
    <3>1. CASE extPc \in {"take", "advance"}
      <4>1. reqCurrFree \in FreePos
        BY ArcEnds DEF PoolInv, PoolTypeOK, FreePos
      <4>2. RingEntry(reqCurrFree) = extReq
        BY <3>1 DEF PoolInv, ExtHoldsSlot, RingEntry
      <4> QED
        BY <4>1, <4>2 DEF InRing
    <3>2. CASE extPc = "fill"
      BY <3>2 DEF InExt
    <3> QED
      BY <3>1, <3>2
  <2>3. extReq \notin sent /\ ~InQueue(extReq)
    BY <2>1, <2>2 DEF PoolInv, OneOwner
  <2>4. msgId[extReq] = NoMsg
    BY <2>1, <2>2 DEF PoolInv, MsgsMatchOwners, InExt
  <2> QED
    BY <2>1, <2>3, <2>4
<1> QED
  BY <1>1, PoolInvariant, PTL

(* What is answered is outstanding, and answered from one slot only.       *)
THEOREM SlotsCarryPendingMsgs ==
  ASSUME ~ResetDuringExt
  PROVE  PoolSpec => []SlotCarriesPendingMsg
<1>1. PoolInv => SlotCarriesPendingMsg
  BY DEF PoolInv, MsgsMatchOwners, SlotCarriesPendingMsg
<1> QED
  BY <1>1, PoolInvariant, PTL

-----------------------------------------------------------------------------
(* A message that is with the outside proxy or waiting stays so, or is     *)
(* answered: a step that keeps msgId of the slots in use keeps it known.   *)
LEMMA StillKnown ==
  ASSUME NoMessageForgotten, pending' \subseteq pending, extMsg' = extMsg,
         extPc \in ExtSteps \ {"none", "check"} =>
           \/ extPc' \in ExtSteps \ {"none", "check"}
           \/ extMsg \notin pending',
         \A s \in Slots :
           (InQueue(s) \/ s \in sent) /\ msgId[s] \in pending' =>
             msgId'[s] = msgId[s] /\ (InQueue(s)' \/ s \in sent')
  PROVE  NoMessageForgotten'
<1> SUFFICES ASSUME NEW m \in pending'
             PROVE  \/ \E s \in Slots : msgId'[s] = m /\ (InQueue(s)' \/ s \in sent')
                    \/ extPc' \in ExtSteps \ {"none", "check"} /\ extMsg' = m
  BY DEF NoMessageForgotten
<1>1. CASE \E s \in Slots : msgId[s] = m /\ (InQueue(s) \/ s \in sent)
  BY <1>1
<1>2. CASE extPc \in ExtSteps \ {"none", "check"} /\ extMsg = m
  BY <1>2
<1> QED
  BY <1>1, <1>2 DEF NoMessageForgotten

(* A step of either handler keeps the messages known.                      *)
LEMMA StepKnown ==
  ASSUME PoolInv, NoMessageForgotten, [PoolNext]_poolVars, ~ResetDuringExt
  PROVE  NoMessageForgotten'
<1>0. /\ reqLastIn \in Slots /\ reqLastOut \in Slots
      /\ QueuePos \subseteq Slots /\ reqQueue \in [Slots -> Slots \cup {NULL}]
      /\ msgId \in [Slots -> Msgs \cup {NoMsg}] /\ sent \subseteq Slots
      /\ pending \subseteq Msgs
  BY AfterSubset DEF PoolInv, PoolTypeOK, QueuePos
<1>1. ASSUME NEW m \in Msgs, handleExt(m) PROVE NoMessageForgotten'
  <2>1. \A s \in Slots : InQueue(s)' = InQueue(s)
    BY <1>1 DEF handleExt, queueVars, InQueue, QueuePos
  <2> QED
    BY <1>1, <2>1 DEF handleExt, NoMessageForgotten, ExtSteps
<1>2. ASSUME \/ rejectOutOfSlots \/ getSlot \/ takeSlot \/ advanceCurrFree
      PROVE  NoMessageForgotten'
  <2>1. \A s \in Slots : InQueue(s)' = InQueue(s)
    BY <1>2 DEF rejectOutOfSlots, getSlot, takeSlot, advanceCurrFree,
       queueVars, InQueue, QueuePos
  <2> QED
    BY <1>2, <2>1, StillKnown DEF rejectOutOfSlots, getSlot, takeSlot,
       advanceCurrFree, ExtSteps
<1>3. ASSUME fillRequest PROVE NoMessageForgotten'
  <2>1. \A s \in Slots : InQueue(s)' = InQueue(s)
    BY <1>3 DEF fillRequest, queueVars, InQueue, QueuePos
  <2>2. extReq \in Slots /\ ~InQueue(extReq) /\ extReq \notin sent
    BY <1>3 DEF fillRequest, PoolInv, ExtHoldsSlot, OneOwner, InExt
  <2> QED
    BY <1>0, <1>3, <2>1, <2>2, StillKnown DEF fillRequest, ExtSteps
<1>4. ASSUME enqueueRequest PROVE NoMessageForgotten'
  <2>1. RING_NEXT(reqLastIn) \in Slots /\ RING_NEXT(reqLastIn) \notin QueuePos
    BY <1>0, NextInRing, AfterTop DEF QueuePos
  <2>2. \A s \in Slots : InQueue(s)' = InQueue(s)
    BY <1>0, <1>4, <2>1 DEF enqueueRequest, InQueue, QueuePos
  <2> QED
    BY <1>4, <2>2, StillKnown DEF enqueueRequest, ExtSteps
<1>5. ASSUME publishRequest PROVE NoMessageForgotten'
  <2>1. extIdx = RING_NEXT(reqLastIn) /\ reqQueue[extIdx] = extReq
    BY <1>5 DEF publishRequest, PoolInv, ExtHoldsSlot
  <2>2. QueuePos' = QueuePos \cup {extIdx}
    BY <1>0, <1>5, <2>1, QueueNotFull, AfterAdvanceHigh DEF publishRequest, QueuePos
  <2>3. \A s \in Slots : InQueue(s)' = (InQueue(s) \/ s = extReq)
    BY <1>5, <2>1, <2>2 DEF publishRequest, InQueue
  <2>4. extReq \in Slots /\ msgId[extReq] = extMsg
    BY <1>5 DEF publishRequest, PoolInv, ExtHoldsSlot, MsgsMatchOwners
  <2> QED
    BY <1>5, <2>3, <2>4 DEF publishRequest, NoMessageForgotten
<1>6. ASSUME extReturn PROVE NoMessageForgotten'
  <2>1. \A s \in Slots : InQueue(s)' = InQueue(s)
    BY <1>6 DEF extReturn, queueVars, InQueue, QueuePos
  <2> QED
    BY <1>6, <2>1, StillKnown DEF extReturn
<1>7. ASSUME getNextRequestToSend PROVE NoMessageForgotten'
  <2> DEFINE idx == RING_NEXT(reqLastOut)
  <2>1. QueuePos' = QueuePos \ {idx} /\ idx \in QueuePos
    BY <1>0, <1>7, AfterAdvanceLow DEF getNextRequestToSend, havingRequest, QueuePos
  <2>2. \A i \in QueuePos' : reqQueue'[i] = reqQueue[i]
    BY <1>0, <1>7, <2>1 DEF getNextRequestToSend
  <2>3. \A s \in Slots : InQueue(s) => InQueue(s)' \/ s = reqQueue[idx]
    BY <2>1, <2>2 DEF InQueue
  <2> QED
    BY <1>7, <2>3, StillKnown DEF getNextRequestToSend, extVars
<1>8. ASSUME NEW s \in sent, replyAndFree(s) PROVE NoMessageForgotten'
  <2>1. \A t \in Slots : InQueue(t)' = InQueue(t)
    BY <1>8 DEF replyAndFree, queueVars, InQueue, QueuePos
  <2>2. \A t \in Slots : msgId[t] \in pending' =>
                         msgId'[t] = msgId[t] /\ (t \in sent => t \in sent')
    BY <1>0, <1>8 DEF replyAndFree, freeSlot
  <2> QED
    BY <1>8, <2>1, <2>2, StillKnown DEF replyAndFree, extVars
<1>9. ASSUME extPc = "none", resetAllRequests PROVE NoMessageForgotten'
  <2>1. pending' = {}
    BY <1>9 DEF resetAllRequests, NoMessageForgotten
  <2> QED
    BY <2>1 DEF NoMessageForgotten
<1>10. CASE UNCHANGED poolVars
  BY <1>10 DEF poolVars, queueVars, extVars, NoMessageForgotten, InQueue, QueuePos
<1> QED
  BY <1>1, <1>2, <1>3, <1>4, <1>5, <1>6, <1>7, <1>8, <1>9, <1>10
     DEF PoolNext, ExtNext, DevNext

(* Every message VMCF holds is in the hands of the external handler, in    *)
(* the queue or with the outside proxy: no client waits for nothing.       *)
THEOREM NoMessageIsForgotten ==
  ASSUME ~ResetDuringExt
  PROVE  PoolSpec => []NoMessageForgotten
<1>1. PoolInit => NoMessageForgotten
  BY DEF PoolInit, NoMessageForgotten
<1>2. PoolInv /\ NoMessageForgotten /\ [PoolNext]_poolVars => NoMessageForgotten'
  BY StepKnown
<1> QED
  BY <1>1, <1>2, PoolInvariant, PTL DEF PoolSpec

-----------------------------------------------------------------------------
(* Slots are moved from place to place and never dropped.                  *)
THEOREM SlotsAreNeverLost ==
  ASSUME ~ResetDuringExt
  PROVE  PoolSpec => []NoSlotLost
<1>1. PoolInit => NoSlotLost
  <2> SUFFICES ASSUME PoolInit, NEW s \in Slots PROVE InRing(s)
    BY DEF NoSlotLost
  <2>1. s \in FreePos /\ RingEntry(s) = s
    BY CountAssumption DEF PoolInit, initRequestBuffers, FreePos, Arc, RingEntry, Slots
  <2> QED
    BY <2>1 DEF InRing
<1>2. PoolInv /\ NoSlotLost /\ [PoolNext]_poolVars => NoSlotLost'
  <2> SUFFICES ASSUME PoolInv, NoSlotLost, [PoolNext]_poolVars
               PROVE  NoSlotLost'
    OBVIOUS
  <2>0. /\ reqCurrFree \in Slots /\ reqLastFree \in Slots /\ reqCurrFree \in FreePos
        /\ reqLastIn \in Slots /\ reqLastOut \in Slots
        /\ FreePos \subseteq Slots /\ QueuePos \subseteq Slots
        /\ reqFree \in [Slots -> Slots \cup {NULL}] /\ reqQueue \in [Slots -> Slots \cup {NULL}]
        /\ sent \subseteq Slots
    BY ArcEnds, AfterSubset DEF PoolInv, PoolTypeOK, FreePos, QueuePos
  <2>1. ASSUME \/ \E m \in Msgs : handleExt(m)
               \/ rejectOutOfSlots \/ getSlot \/ fillRequest \/ extReturn
               \/ UNCHANGED poolVars
        PROVE  NoSlotLost'
    BY <2>1 DEF handleExt, rejectOutOfSlots, getSlot, fillRequest, extReturn, poolVars, freeVars,
       queueVars, extVars, NoSlotLost, InRing, InQueue, InExt, RingEntry, FreePos, QueuePos
  <2>2. ASSUME takeSlot PROVE NoSlotLost'
    <3>1. FreePos' = FreePos /\ \A i \in FreePos : RingEntry(i)' = RingEntry(i)
      BY <2>0, <2>2 DEF takeSlot, FreePos, RingEntry, PoolInv, ExtHoldsSlot
    <3>2. \A s \in Slots : InRing(s)' = InRing(s) /\ InQueue(s)' = InQueue(s) /\ InExt(s)' = InExt(s)
      BY <2>2, <3>1 DEF takeSlot, queueVars, InRing, InQueue, QueuePos, InExt
    <3> QED
      BY <2>2, <3>2 DEF takeSlot, NoSlotLost
  <2>3. ASSUME advanceCurrFree PROVE NoSlotLost'
    <3>1. FreePos' = FreePos \ {reqCurrFree}
      BY <2>0, <2>3, ArcAdvanceLow DEF advanceCurrFree, FreePos, PoolInv, ExtHoldsSlot
    <3>2. /\ \A i \in FreePos' : RingEntry(i)' = RingEntry(i)
          /\ RingEntry(reqCurrFree) = extReq
      BY <2>3, <3>1 DEF advanceCurrFree, RingEntry
    <3>3. \A s \in Slots : /\ InRing(s) => InRing(s)' \/ InExt(s)'
                           /\ InQueue(s)' = InQueue(s) /\ ~InExt(s)
      BY <2>3, <3>1, <3>2 DEF advanceCurrFree, queueVars, InRing, InQueue, QueuePos, InExt
    <3> QED
      BY <2>3, <3>3 DEF advanceCurrFree, NoSlotLost
  <2>4. ASSUME enqueueRequest PROVE NoSlotLost'
    <3>1. RING_NEXT(reqLastIn) \in Slots /\ RING_NEXT(reqLastIn) \notin QueuePos
      BY <2>0, NextInRing, AfterTop DEF QueuePos
    <3>2. \A s \in Slots : InQueue(s)' = InQueue(s) /\ InRing(s)' = InRing(s) /\ InExt(s)' = InExt(s)
      BY <2>0, <2>4, <3>1 DEF enqueueRequest, freeVars, InQueue, QueuePos, InRing, FreePos,
         RingEntry, InExt
    <3> QED
      BY <2>4, <3>2 DEF enqueueRequest, NoSlotLost
  <2>5. ASSUME publishRequest PROVE NoSlotLost'
    <3>1. extIdx = RING_NEXT(reqLastIn) /\ reqQueue[extIdx] = extReq
      BY <2>5 DEF publishRequest, PoolInv, ExtHoldsSlot
    <3>2. QueuePos' = QueuePos \cup {extIdx}
      BY <2>0, <2>5, <3>1, QueueNotFull, AfterAdvanceHigh DEF publishRequest, QueuePos
    <3>3. \A s \in Slots : /\ InQueue(s) \/ InExt(s) => InQueue(s)'
                           /\ InRing(s)' = InRing(s)
      BY <2>5, <3>1, <3>2 DEF publishRequest, freeVars, InQueue, InExt, InRing, FreePos, RingEntry
    <3> QED
      BY <2>5, <3>3 DEF publishRequest, NoSlotLost
  <2>6. ASSUME getNextRequestToSend PROVE NoSlotLost'
    <3> DEFINE idx == RING_NEXT(reqLastOut)
    <3>1. QueuePos' = QueuePos \ {idx} /\ idx \in QueuePos
      BY <2>0, <2>6, AfterAdvanceLow DEF getNextRequestToSend, havingRequest, QueuePos
    <3>2. \A i \in QueuePos' : reqQueue'[i] = reqQueue[i]
      BY <2>0, <2>6, <3>1 DEF getNextRequestToSend
    <3>3. \A s \in Slots : /\ InQueue(s) => InQueue(s)' \/ s = reqQueue[idx]
                           /\ InRing(s)' = InRing(s) /\ InExt(s)' = InExt(s)
      BY <2>6, <3>1, <3>2 DEF getNextRequestToSend, freeVars, extVars, InQueue, InRing, FreePos,
         RingEntry, InExt
    <3> QED
      BY <2>6, <3>3 DEF getNextRequestToSend, NoSlotLost
  <2>7. ASSUME NEW s \in sent, replyAndFree(s) PROVE NoSlotLost'
    <3>0. PICK next \in Slots : next = RING_NEXT(reqLastFree)
      BY <2>0, NextInRing
    <3>1. next # reqCurrFree
      BY <3>0, RingNotFull
    <3>2. FreePos' = FreePos \cup {next} /\ next \notin FreePos
      BY <2>0, <2>7, <3>0, <3>1, ArcAdvanceHigh DEF replyAndFree, freeSlot, FreePos
    <3>3. /\ \A i \in FreePos : RingEntry(i)' = RingEntry(i)
          /\ RingEntry(next)' = s
      BY <2>0, <2>7, <3>0, <3>1, <3>2 DEF replyAndFree, freeSlot, extVars, RingEntry
    <3>4. \A t \in Slots : /\ InRing(t) \/ t = s => InRing(t)'
                           /\ InQueue(t)' = InQueue(t) /\ InExt(t)' = InExt(t)
      BY <2>7, <3>2, <3>3 DEF replyAndFree, queueVars, extVars, InRing, InQueue, QueuePos, InExt
    <3> QED
      BY <2>7, <3>4 DEF replyAndFree, NoSlotLost
  <2>8. ASSUME extPc = "none", resetAllRequests PROVE NoSlotLost'
    <3> SUFFICES ASSUME NEW s \in Slots PROVE InRing(s)'
      BY DEF NoSlotLost
    <3>1. s \in FreePos' /\ RingEntry(s)' = s
      BY <2>8, CountAssumption DEF resetAllRequests, extVars, FreePos, Arc, RingEntry, Slots
    <3> QED
      BY <3>1 DEF InRing
  <2> QED
    BY <2>1, <2>2, <2>3, <2>4, <2>5, <2>6, <2>7, <2>8 DEF PoolNext, ExtNext, DevNext
<1> QED
  BY <1>1, <1>2, PoolInvariant, PTL DEF PoolSpec

(* A request is turned away only when the free ring is down to the one     *)
(* slot it always keeps: all others carry requests.                        *)
THEOREM RejectsOnlyWhenExhausted ==
  ASSUME ~ResetDuringExt
  PROVE  PoolSpec => RejectOnlyWhenExhausted
<1>1. PoolInv /\ NoSlotLost /\ [PoolNext]_poolVars =>
        [rejectOutOfSlots => Cardinality({s \in Slots : msgId[s] # NoMsg}) = MAX_REQUEST_COUNT - 1]_poolVars
  <2> SUFFICES ASSUME PoolInv, NoSlotLost, rejectOutOfSlots
               PROVE  Cardinality({s \in Slots : msgId[s] # NoMsg}) = MAX_REQUEST_COUNT - 1
    OBVIOUS
  <2> DEFINE r == RingEntry(reqCurrFree)
  <2>1. reqCurrFree \in Slots /\ reqLastFree \in Slots /\ reqCurrFree \in FreePos
    BY ArcEnds DEF PoolInv, PoolTypeOK, FreePos
  <2>2. r \in Slots /\ r = reqFree[reqCurrFree]
    BY <2>1 DEF rejectOutOfSlots, RingEntry, PoolInv, RingsHoldSlots
  <2>3. FreePos = {reqCurrFree}
    BY <2>1, <2>2, ArcOfOne, NullAssumption DEF rejectOutOfSlots, FreePos
  <2>4. \A s \in Slots : InRing(s) <=> s = r
    BY <2>3 DEF InRing
  <2>5. \A s \in Slots : msgId[s] # NoMsg <=> s # r
    BY <2>4 DEF rejectOutOfSlots, NoSlotLost, InExt, PoolInv, MsgsMatchOwners
  <2>6. {s \in Slots : msgId[s] # NoMsg} = Slots \ {r}
    BY <2>5
  <2>7. IsFiniteSet(Slots) /\ Cardinality(Slots) = MAX_REQUEST_COUNT
    <3>1. 0 \in Int /\ MAX_REQUEST_COUNT - 1 \in Int
      BY CountAssumption
    <3> QED
      BY <3>1, FS_Interval, CountAssumption DEF Slots
  <2>8. Cardinality(Slots \ {r}) = MAX_REQUEST_COUNT - 1
    BY <2>2, <2>7, FS_RemoveElement
  <2> QED
    BY <2>6, <2>8
<1> QED
  BY <1>1, PoolInvariant, SlotsAreNeverLost, PTL DEF PoolSpec, RejectOnlyWhenExhausted
=============================================================================
