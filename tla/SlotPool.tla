------------------------------ MODULE SlotPool ------------------------------
(***************************************************************************)
(* The request slots of the inside proxy (cms/ioproxy.c): a ring of free   *)
(* request buffers, a ring of requests waiting for their transmission to   *)
(* the outside proxy, and the VMCF message id kept in each buffer.         *)
(*                                                                         *)
(* Two interrupt handlers work on the rings.  The external interrupt       *)
(* handler (handleExt) takes a free slot and enqueues it; the device       *)
(* interrupt handler dequeues, answers and frees.  The device handler may  *)
(* interrupt the external handler between any two of its instructions,     *)
(* never the other way round, so the external handler takes one step per   *)
(* access to shared storage and every device handler step is atomic.       *)
(***************************************************************************)
EXTENDS Common, FiniteSets

CONSTANT ResetDuringExt \* may a reconnection interrupt the external handler?

ASSUME ResetAssumption == ResetDuringExt \in BOOLEAN

VARIABLES
  reqFree,     \* ring of free requests: position -> slot or NULL
  reqCurrFree, \* position of the next request to be used
  reqLastFree, \* position of the last freed request
  reqQueue,    \* ring of waiting requests: position -> slot or NULL
  reqLastIn,   \* position of the last enqueued request
  reqLastOut,  \* position of the last dequeued request
  msgId,       \* slot -> VMCF message id, NoMsg when not in use
  extPc,       \* next step of the external interrupt handler
  extReq,      \* its local: the slot obtained
  extIdx,      \* its local: the queue position to publish
  extMsg,      \* the message in the VMCF interrupt data area
  sent,        \* slots transmitted to the outside proxy, not yet answered
  pending      \* messages VMCF holds for their sender until an answer

freeVars  == <<reqFree, reqCurrFree, reqLastFree>>
queueVars == <<reqQueue, reqLastIn, reqLastOut>>
extVars   == <<extPc, extReq, extIdx, extMsg>>
poolVars  == <<freeVars, queueVars, msgId, extVars, sent, pending>>

ExtSteps == {"none", "getSlot", "take", "advance", "fill",
             "enqueue", "publish", "check"}

(* Slip: the ring wraps one position too late.                             *)
RING_NEXT_late(idx) == IF idx >= MAX_REQUEST_COUNT THEN 0 ELSE idx + 1

RING_NEXT(idx) == IF idx >= MAX_REQUEST_COUNT - 1 THEN 0 ELSE idx + 1

(* The positions from a to b of a ring, both included, going upwards.      *)
Arc(a, b) == {i \in Slots : IF a <= b THEN a <= i /\ i <= b ELSE a <= i \/ i <= b}

(* The positions after a up to b; none when the two are the same.          *)
After(a, b) == IF a = b THEN {} ELSE Arc(RING_NEXT(a), b)

FreePos  == Arc(reqCurrFree, reqLastFree)
QueuePos == After(reqLastOut, reqLastIn)

havingRequest == reqLastOut # reqLastIn

-----------------------------------------------------------------------------
initRequestBuffers ==
  /\ reqFree = [i \in Slots |-> i]
  /\ reqCurrFree = 1
  /\ reqLastFree = 0
  /\ reqQueue = [i \in Slots |-> NULL]
  /\ reqLastIn = 0
  /\ reqLastOut = 0
  /\ msgId = [s \in Slots |-> NoMsg]

PoolInit ==
  /\ initRequestBuffers
  /\ extPc = "none"
  /\ extReq = NULL
  /\ extIdx = 0
  /\ extMsg = NoMsg
  /\ sent = {}
  /\ pending = {}

-----------------------------------------------------------------------------
(* The external interrupt handler, one action per shared access.           *)

(* A VMCF SEND/RECV arrives and the handler is entered.                    *)
handleExt(m) ==
  /\ extPc = "none"
  /\ m \notin pending
  /\ pending' = pending \cup {m}
  /\ extMsg' = m
  /\ extPc' = "getSlot"
  /\ UNCHANGED <<freeVars, queueVars, msgId, extReq, extIdx, sent>>

(* Slip: the request is turned away with one free slot left.               *)
rejectOutOfSlots_early ==
  /\ extPc = "getSlot"
  /\ \/ RING_NEXT(reqCurrFree) = reqLastFree
     \/ reqCurrFree = reqLastFree
     \/ reqFree[reqCurrFree] = NULL
  /\ pending' = pending \ {extMsg}
  /\ extPc' = "none"
  /\ UNCHANGED <<freeVars, queueVars, msgId, extReq, extIdx, extMsg, sent>>

(* No free slot: the request is rejected as out-of-transmission-slots.     *)
rejectOutOfSlots ==
  /\ extPc = "getSlot"
  /\ reqCurrFree = reqLastFree \/ reqFree[reqCurrFree] = NULL
  /\ pending' = pending \ {extMsg}
  /\ extPc' = "none"
  /\ UNCHANGED <<freeVars, queueVars, msgId, extReq, extIdx, extMsg, sent>>

getSlot ==
  /\ extPc = "getSlot"
  /\ reqCurrFree # reqLastFree
  /\ reqFree[reqCurrFree] # NULL
  /\ extReq' = reqFree[reqCurrFree]
  /\ extPc' = "take"
  /\ UNCHANGED <<freeVars, queueVars, msgId, extIdx, extMsg, sent, pending>>

takeSlot ==
  /\ extPc = "take"
  /\ reqFree' = [reqFree EXCEPT ![reqCurrFree] = NULL]
  /\ extPc' = "advance"
  /\ UNCHANGED <<reqCurrFree, reqLastFree, queueVars, msgId,
                 extReq, extIdx, extMsg, sent, pending>>

advanceCurrFree ==
  /\ extPc = "advance"
  /\ reqCurrFree' = RING_NEXT(reqCurrFree)
  /\ extPc' = "fill"
  /\ UNCHANGED <<reqFree, reqLastFree, queueVars, msgId,
                 extReq, extIdx, extMsg, sent, pending>>

fillRequest ==
  /\ extPc = "fill"
  /\ msgId' = [msgId EXCEPT ![extReq] = extMsg]
  /\ extPc' = "enqueue"
  /\ UNCHANGED <<freeVars, queueVars, extReq, extIdx, extMsg, sent, pending>>

enqueueRequest ==
  /\ extPc = "enqueue"
  /\ extIdx' = RING_NEXT(reqLastIn)
  /\ reqQueue' = [reqQueue EXCEPT ![RING_NEXT(reqLastIn)] = extReq]
  /\ extPc' = "publish"
  /\ UNCHANGED <<freeVars, reqLastIn, reqLastOut, msgId,
                 extReq, extMsg, sent, pending>>

publishRequest ==
  /\ extPc = "publish"
  /\ reqLastIn' = extIdx
  /\ extPc' = "check"
  /\ UNCHANGED <<freeVars, reqQueue, reqLastOut, msgId,
                 extReq, extIdx, extMsg, sent, pending>>

(* The rest of the handler works on the transmission state only.           *)
extReturn ==
  /\ extPc = "check"
  /\ extPc' = "none"
  /\ UNCHANGED <<freeVars, queueVars, msgId, extReq, extIdx, extMsg,
                 sent, pending>>

-----------------------------------------------------------------------------
(* What the device interrupt handler does with the slots.                  *)

(* A NULL entry in the ring is a request its caller reads through: there   *)
(* is no next state to model.                                              *)
getNextRequestToSend ==
  /\ havingRequest
  /\ LET idx == RING_NEXT(reqLastOut)
     IN /\ reqQueue[idx] # NULL
        /\ sent' = sent \cup {reqQueue[idx]}
        /\ reqQueue' = [reqQueue EXCEPT ![idx] = NULL]
        /\ reqLastOut' = idx
  /\ UNCHANGED <<freeVars, reqLastIn, msgId, extVars, pending>>

(* Slip: the message id stays in the freed slot.                           *)
freeSlot_keepsMsgId(s) ==
  /\ reqFree' = [reqFree EXCEPT ![RING_NEXT(reqLastFree)] = s]
  /\ reqLastFree' = RING_NEXT(reqLastFree)
  /\ UNCHANGED msgId

freeSlot(s) ==
  /\ msgId' = [msgId EXCEPT ![s] = NoMsg]
  /\ reqFree' = [reqFree EXCEPT ![RING_NEXT(reqLastFree)] = s]
  /\ reqLastFree' = RING_NEXT(reqLastFree)

(* A response for slot s: VMCF REPLY for its message, then the slot is     *)
(* freed.  The code does not look whether s is in use.                     *)
replyAndFree(s) ==
  /\ pending' = pending \ {msgId[s]}
  /\ freeSlot(s)
  /\ sent' = sent \ {s}
  /\ UNCHANGED <<reqCurrFree, queueVars, extVars>>

(* Slip: the buffers are initialised, the clients not told.                *)
resetAllRequests_noReject ==
  /\ reqFree' = [i \in Slots |-> i]
  /\ reqCurrFree' = 1
  /\ reqLastFree' = 0
  /\ reqQueue' = [i \in Slots |-> NULL]
  /\ reqLastIn' = 0
  /\ reqLastOut' = 0
  /\ msgId' = [s \in Slots |-> NoMsg]
  /\ sent' = {}
  /\ UNCHANGED <<extVars, pending>>

(* Slip: the queue of waiting requests survives the reset.                 *)
resetAllRequests_keepsQueue ==
  /\ pending' = pending \ {msgId[s] : s \in Slots}
  /\ reqFree' = [i \in Slots |-> i]
  /\ reqCurrFree' = 1
  /\ reqLastFree' = 0
  /\ msgId' = [s \in Slots |-> NoMsg]
  /\ sent' = {}
  /\ UNCHANGED <<queueVars, extVars>>

(* A new outside proxy has dialed in: every slot with a message is         *)
(* rejected and the buffers are initialised again.                         *)
resetAllRequests ==
  /\ pending' = pending \ {msgId[s] : s \in Slots}
  /\ reqFree' = [i \in Slots |-> i]
  /\ reqCurrFree' = 1
  /\ reqLastFree' = 0
  /\ reqQueue' = [i \in Slots |-> NULL]
  /\ reqLastIn' = 0
  /\ reqLastOut' = 0
  /\ msgId' = [s \in Slots |-> NoMsg]
  /\ sent' = {}
  /\ UNCHANGED extVars

-----------------------------------------------------------------------------
ExtNext ==
  \/ \E m \in Msgs : handleExt(m)
  \/ rejectOutOfSlots
  \/ getSlot
  \/ takeSlot
  \/ advanceCurrFree
  \/ fillRequest
  \/ enqueueRequest
  \/ publishRequest
  \/ extReturn

(* The outside proxy answers each transmitted request once: the rule the   *)
(* pool relies on and does not enforce.                                    *)
DevNext ==
  \/ getNextRequestToSend
  \/ \E s \in sent : replyAndFree(s)
  \/ /\ extPc = "none" \/ ResetDuringExt
     /\ resetAllRequests

PoolNext == ExtNext \/ DevNext

PoolSpec == PoolInit /\ [][PoolNext]_poolVars

-----------------------------------------------------------------------------
(* Where a slot is.  While the external handler is between reading the     *)
(* ring entry and advancing the ring the slot still belongs to the ring.   *)

RingEntry(i) == IF extPc = "advance" /\ i = reqCurrFree
                THEN extReq ELSE reqFree[i]

InRing(s)  == \E i \in FreePos : RingEntry(i) = s
InQueue(s) == \E i \in QueuePos : reqQueue[i] = s
InExt(s)   == extPc \in {"fill", "enqueue", "publish"} /\ extReq = s

(* Ring positions stay in the ring, ring entries are slots or NULL, the    *)
(* locals of handleExt keep their types.                                   *)
PoolTypeOK ==
  /\ reqFree \in [Slots -> Slots \cup {NULL}]
  /\ reqCurrFree \in Slots
  /\ reqLastFree \in Slots
  /\ reqQueue \in [Slots -> Slots \cup {NULL}]
  /\ reqLastIn \in Slots
  /\ reqLastOut \in Slots
  /\ msgId \in [Slots -> Msgs \cup {NoMsg}]
  /\ extPc \in ExtSteps
  /\ extReq \in Slots \cup {NULL}
  /\ extIdx \in Slots
  /\ extMsg \in Msgs \cup {NoMsg}
  /\ sent \in SUBSET Slots
  /\ pending \in SUBSET Msgs

(* No slot has two owners: the two rings hold each slot at most once, and  *)
(* a slot is either free, or with the external handler, or waiting, or     *)
(* with the outside proxy.  It is what getSlot, freeSlot, enqueueRequest   *)
(* and getNextRequestToSend keep together although none of them checks a   *)
(* ring for being full.                                                    *)
OneOwner ==
  /\ \A i, j \in FreePos : RingEntry(i) = RingEntry(j) => i = j
  /\ \A i, j \in QueuePos : reqQueue[i] = reqQueue[j] => i = j
  /\ \A s \in Slots :
       /\ InRing(s)  => ~InQueue(s) /\ ~InExt(s) /\ s \notin sent
       /\ InQueue(s) => ~InExt(s) /\ s \notin sent
       /\ InExt(s)   => s \notin sent

(* The slot in the hands of the external handler is not in use before the  *)
(* handler fills it: a request never overwrites another one (getSlot:      *)
(* "get a free request slot").                                             *)
TakenSlotIsFree ==
  extPc \in {"take", "advance", "fill"} =>
    /\ extReq \in Slots
    /\ msgId[extReq] = NoMsg
    /\ extReq \notin sent
    /\ ~InQueue(extReq)

(* A waiting or transmitted slot carries a message VMCF still holds, and   *)
(* no two slots carry the same one: each reply and each reject answers     *)
(* exactly one outstanding request of a client machine.                    *)
SlotCarriesPendingMsg ==
  /\ \A s \in Slots : (InQueue(s) \/ s \in sent) => msgId[s] \in pending
  /\ \A s, t \in Slots : msgId[s] = msgId[t] /\ msgId[s] # NoMsg => s = t

(* Every message VMCF holds will be answered by someone: it is in a slot   *)
(* that is waiting or transmitted, or the external handler has it.         *)
NoMessageForgotten ==
  \A m \in pending :
    \/ \E s \in Slots : msgId[s] = m /\ (InQueue(s) \/ s \in sent)
    \/ extPc \in ExtSteps \ {"none", "check"} /\ extMsg = m

(* What makes the above inductive.  The rings hold slots where they are    *)
(* in use, the local variables of the external handler agree with the      *)
(* rings between its steps, and the message ids agree with the owners.     *)
RingsHoldSlots ==
  /\ \A i \in FreePos : RingEntry(i) \in Slots
  /\ \A i \in QueuePos : reqQueue[i] \in Slots

ExtHoldsSlot ==
  /\ extPc \in {"take", "advance", "fill", "enqueue", "publish"} => extReq \in Slots
  /\ extPc \in {"take", "advance"} => reqCurrFree # reqLastFree
  /\ extPc = "take" => reqFree[reqCurrFree] = extReq
  /\ extPc = "publish" => extIdx = RING_NEXT(reqLastIn) /\ reqQueue[extIdx] = extReq

MsgsMatchOwners ==
  /\ \A s \in Slots : InRing(s) => msgId[s] = NoMsg
  /\ \A s \in Slots : InQueue(s) \/ s \in sent => msgId[s] # NoMsg
  /\ \A s \in Slots : msgId[s] # NoMsg => msgId[s] \in pending
  /\ \A s, t \in Slots : msgId[s] = msgId[t] /\ msgId[s] # NoMsg => s = t
  /\ extPc \in {"getSlot", "take", "advance", "fill"} =>
       extMsg \in pending /\ \A s \in Slots : msgId[s] # extMsg
  /\ extPc = "fill" => msgId[extReq] = NoMsg
  /\ extPc \in {"enqueue", "publish"} =>
       msgId[extReq] = extMsg /\ extMsg \in pending

PoolInv ==
  /\ PoolTypeOK
  /\ OneOwner
  /\ RingsHoldSlots
  /\ ExtHoldsSlot
  /\ MsgsMatchOwners

(* No slot is lost: each is in one of the four places.                     *)
NoSlotLost == \A s \in Slots : InRing(s) \/ InExt(s) \/ InQueue(s) \/ s \in sent

(* A request is turned away only when all slots but the one the free ring  *)
(* always keeps are in use.                                                *)
RejectOnlyWhenExhausted ==
  [][rejectOutOfSlots =>
       Cardinality({s \in Slots : msgId[s] # NoMsg}) = MAX_REQUEST_COUNT - 1
    ]_poolVars
=============================================================================
