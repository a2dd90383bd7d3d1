---------------------------- MODULE NicofClient -----------------------------
(***************************************************************************)
(* The client side of NICOF (cms/nicofclt.c): request buffers with their   *)
(* life cycle, the VMCF interrupt that delivers responses, and the waits   *)
(* on the ECB that the interrupt posts.                                    *)
(*                                                                         *)
(* The client program is one thread; the VMCF interrupt and the timer may  *)
(* come between any two of its accesses to shared storage, and the         *)
(* interrupt handler itself is not interrupted.  A scan of the request     *)
(* list is one step: a response that arrives while the scan is past it has *)
(* posted the ECB, exactly as one that arrives after the scan.             *)
(* Calls that return an error change nothing and are not actions.          *)
(***************************************************************************)
EXTENDS Integers

CONSTANTS
  Tags,           \* filter tags, NO_FILTER not among them
  NO_FILTER,
  INIT_REQ_COUNT, \* buffers allocated at the start
  MaxRequests,    \* bound: request buffers that exist at a time
  MaxMsgId        \* bound: the last message id, 2^32 - 1 before it wraps

ASSUME FilterAssumption == NO_FILTER \notin Tags
ASSUME ClientBounds ==
  /\ INIT_REQ_COUNT \in Nat
  /\ MaxRequests \in Nat /\ MaxRequests >= INIT_REQ_COUNT
  /\ MaxMsgId \in Nat /\ MaxMsgId > 10

MID_UNUSED == 0 \* no such buffer
MID_FREE == 2
MID_NEW  == 4
MID_RCVD == 6
MID_RTRN == 8
MID_PEND == 10

VARIABLES
  vmcparm,        \* has ncf_001 been called?
  allocated,      \* the list of requests: handles allocated down to 1
  msgId,          \* handle -> state, or the message id while pending
  filterTag,      \* handle -> tag
  lastMsgId,
  responseFilter, \* only responses with this tag post the ECB
  rcv_ecb,        \* 1 when posted, else 0
  timer,          \* "off", "running" or "posted" (timer_ecb)
  pc,             \* where the client program is
  cur,            \* the handle it is working with, 0 for NULL_REQUEST
  authorized,     \* may this machine use VMCF?
  outstanding     \* message ids VMCF has not yet returned

waitVars   == <<responseFilter, rcv_ecb, timer>>
clientVars == <<vmcparm, allocated, msgId, filterTag, lastMsgId, waitVars,
                pc, cur, authorized, outstanding>>

Handles  == 1 .. MaxRequests
requests == 1 .. allocated
AnyTag   == Tags \cup {NO_FILTER}

Pending(h) == msgId[h] >= MID_PEND

(* The request a search from the head of the list finds first.             *)
IsFirst(h, S) == h \in S /\ \A g \in S : g <= h

ClientInit ==
  /\ vmcparm = FALSE
  /\ allocated = 0
  /\ msgId = [h \in Handles |-> MID_UNUSED]
  /\ filterTag \in [Handles -> AnyTag] \* never initialised by the code
  /\ lastMsgId = MID_PEND
  /\ responseFilter = NO_FILTER
  /\ rcv_ecb = 0
  /\ timer = "off"
  /\ pc = "idle"
  /\ cur = 0
  /\ authorized = FALSE
  /\ outstanding = {}

-----------------------------------------------------------------------------
(* Calls that do not wait.                                                 *)

(* nicofclt_init: VMCF may refuse the authorization.                       *)
ncf_001 ==
  /\ ~vmcparm
  /\ vmcparm' = TRUE
  /\ allocated' = INIT_REQ_COUNT
  /\ msgId' = [h \in Handles |-> IF h <= INIT_REQ_COUNT THEN MID_FREE ELSE msgId[h]]
  /\ authorized' \in BOOLEAN
  /\ UNCHANGED <<filterTag, lastMsgId, waitVars, pc, cur, outstanding>>

(* nicofclt_deinit: VMCF drops what it holds, then the buffers are freed.  *)
ncf_002 ==
  /\ vmcparm /\ pc = "idle"
  /\ authorized' = FALSE
  /\ outstanding' = {}
  /\ allocated' = 0
  /\ msgId' = [h \in Handles |-> MID_UNUSED]
  /\ UNCHANGED <<vmcparm, filterTag, lastMsgId, waitVars, pc, cur>>

getRequest(h) ==
  LET free == {g \in requests : msgId[g] = MID_FREE}
  IN \/ IsFirst(h, free) /\ UNCHANGED allocated
     \/ free = {} /\ h = allocated + 1 /\ h <= MaxRequests /\ allocated' = h

(* nicofclt_createRequest                                                  *)
ncf_010 ==
  /\ vmcparm /\ pc = "idle"
  /\ \E h \in Handles :
       /\ getRequest(h)
       /\ msgId' = [msgId EXCEPT ![h] = MID_NEW]
  /\ UNCHANGED <<vmcparm, filterTag, lastMsgId, waitVars, pc, cur,
                 authorized, outstanding>>

(* Slip: the last id used is used again.                                   *)
ncf_021_postIncrement(h, wait) ==
  /\ pc = "idle"
  /\ msgId[h] = MID_NEW
  /\ lastMsgId < MaxMsgId
  /\ lastMsgId' = lastMsgId + 1
  /\ msgId' = [msgId EXCEPT ![h] = lastMsgId]
  /\ cur' = h
  /\ pc' = IF wait THEN "requestAndWait" ELSE "request"
  /\ UNCHANGED <<vmcparm, allocated, filterTag, waitVars, authorized, outstanding>>

(* nicofclt_sendRequest, nicofclt_sendRequestAndWait: up to the call of    *)
(* VMCF ...                                                                *)
ncf_021(h, wait) ==
  /\ pc = "idle"
  /\ msgId[h] = MID_NEW
  /\ lastMsgId < MaxMsgId
  /\ lastMsgId' = lastMsgId + 1
  /\ msgId' = [msgId EXCEPT ![h] = lastMsgId + 1]
  /\ cur' = h
  /\ pc' = IF wait THEN "requestAndWait" ELSE "request"
  /\ UNCHANGED <<vmcparm, allocated, filterTag, waitVars, authorized, outstanding>>

(* ... and what becomes of it.                                             *)
vmcf_request ==
  /\ pc \in {"request", "requestAndWait"}
  /\ \/ /\ authorized
        /\ outstanding' = outstanding \cup {msgId[cur]}
        /\ pc' = IF pc = "request" THEN "idle" ELSE "check"
        /\ UNCHANGED msgId
     \/ /\ msgId' = [msgId EXCEPT ![cur] = MID_NEW]
        /\ pc' = "idle"
        /\ UNCHANGED outstanding
  /\ UNCHANGED <<vmcparm, allocated, filterTag, lastMsgId, waitVars, cur, authorized>>

(* nicofclt_setFilterTag                                                   *)
ncf_035(h, t) ==
  /\ pc = "idle"
  /\ filterTag' = [filterTag EXCEPT ![h] = t]
  /\ UNCHANGED <<vmcparm, allocated, msgId, lastMsgId, waitVars, pc, cur,
                 authorized, outstanding>>

(* nicofclt_getResponseUserWords and its kin on an available response:     *)
(* they receive it, as ncf_030 would.                                      *)
ncf_040(h) ==
  /\ pc = "idle"
  /\ msgId[h] = MID_RCVD
  /\ msgId' = [msgId EXCEPT ![h] = MID_RTRN]
  /\ UNCHANGED <<vmcparm, allocated, filterTag, lastMsgId, waitVars, pc, cur,
                 authorized, outstanding>>

(* Slip: a pending request can be freed.                                   *)
ncf_050_pendingToo(h) ==
  /\ pc = "idle"
  /\ msgId' = [msgId EXCEPT ![h] = MID_FREE]
  /\ UNCHANGED <<vmcparm, allocated, filterTag, lastMsgId, waitVars, pc, cur,
                 authorized, outstanding>>

(* nicofclt_freeRequest                                                    *)
ncf_050(h) ==
  /\ pc = "idle"
  /\ ~Pending(h)
  /\ msgId' = [msgId EXCEPT ![h] = MID_FREE]
  /\ UNCHANGED <<vmcparm, allocated, filterTag, lastMsgId, waitVars, pc, cur,
                 authorized, outstanding>>

-----------------------------------------------------------------------------
(* The waits.  A wait on the ECB ends when it is posted; the ECB is then   *)
(* cleared, and only then is the condition looked at again.                *)

goto(from, to) ==
  /\ pc = from
  /\ pc' = to
  /\ UNCHANGED <<vmcparm, allocated, filterTag, lastMsgId, authorized, outstanding>>

waitEcb(from, to, posted) ==
  /\ goto(from, to)
  /\ posted
  /\ UNCHANGED <<msgId, cur, waitVars>>

clearEcb(from, to) ==
  /\ goto(from, to)
  /\ rcv_ecb' = 0
  /\ UNCHANGED <<msgId, cur, responseFilter, timer>>

(* nicofclt_waitForResponse, not yet returned to the client                *)
ncf_030(h) ==
  /\ msgId[h] >= MID_RCVD /\ msgId[h] # MID_RTRN
  /\ goto("idle", "check")
  /\ cur' = h
  /\ UNCHANGED <<msgId, waitVars>>

checkReceived ==
  \/ /\ goto("check", "idle")
     /\ msgId[cur] = MID_RCVD
     /\ msgId' = [msgId EXCEPT ![cur] = MID_RTRN]
     /\ UNCHANGED <<cur, waitVars>>
  \/ /\ goto("check", "wait")
     /\ msgId[cur] # MID_RCVD
     /\ UNCHANGED <<msgId, cur, waitVars>>

waitForVmcfResponse == waitEcb("wait", "clear", rcv_ecb = 1) \/ clearEcb("clear", "check")

AnyPending == \E h \in requests : msgId[h] = MID_RCVD \/ Pending(h)

(* nicofclt_waitForAnyAvailable, also when called by ..AvailableX with     *)
(* neither filter nor timeout: the head of the list is taken for a request *)
(* with a response.                                                        *)
ncf_031 ==
  /\ AnyPending
  /\ goto("idle", "idle")
  /\ cur' = allocated
  /\ UNCHANGED <<msgId, waitVars>>

(* nicofclt_waitForAnyAvailableX without a timeout, with a filter          *)
ncf_037_forever(f) ==
  /\ AnyPending
  /\ f # NO_FILTER
  /\ goto("idle", "anyScan")
  /\ responseFilter' = f
  /\ cur' = 0
  /\ UNCHANGED <<msgId, rcv_ecb, timer>>

(* ... and with a timeout, with or without a filter                        *)
ncf_037_timeout(f) ==
  /\ AnyPending
  /\ goto("idle", "timedScan")
  /\ responseFilter' = f
  /\ timer' = "running"
  /\ cur' = 0
  /\ UNCHANGED <<msgId, rcv_ecb>>

Available == {h \in requests : /\ msgId[h] = MID_RCVD
                               /\ responseFilter \in {NO_FILTER, filterTag[h]}}

scan(from, found, none) ==
  \/ /\ goto(from, found)
     /\ \E h \in Available : IsFirst(h, Available) /\ cur' = h
     /\ UNCHANGED <<msgId, waitVars>>
  \/ /\ Available = {}
     /\ goto(from, none)
     /\ UNCHANGED <<msgId, cur, waitVars>>

anyScan == scan("anyScan", "done", "anyWait")
anyWait == waitEcb("anyWait", "anyClear", rcv_ecb = 1) \/ clearEcb("anyClear", "anyScan")

timedScan ==
  \/ timer # "posted" /\ scan("timedScan", "done", "timedWait")
  \/ timer = "posted" /\ goto("timedScan", "done") /\ UNCHANGED <<msgId, cur, waitVars>>

timedWait ==
  \/ waitEcb("timedWait", "timedClear", rcv_ecb = 1 \/ timer = "posted")
  \/ clearEcb("timedClear", "timedScan")

(* Slip: the filter stays.                                                 *)
ncf_037_return_keepsFilter ==
  /\ goto("done", "idle")
  /\ timer' = "off"
  /\ UNCHANGED <<msgId, cur, rcv_ecb, responseFilter>>

(* "reset filter and timer"                                                *)
ncf_037_return ==
  /\ goto("done", "idle")
  /\ responseFilter' = NO_FILTER
  /\ timer' = "off"
  /\ UNCHANGED <<msgId, cur, rcv_ecb>>

-----------------------------------------------------------------------------
(* Slip: without a filter no response posts the ECB.                       *)
handleExt_matchOnly(m) ==
  /\ outstanding' = outstanding \ {m}
  /\ \/ \E h \in requests :
          /\ IsFirst(h, {g \in requests : msgId[g] = m})
          /\ msgId' = [msgId EXCEPT ![h] = MID_RCVD]
          /\ rcv_ecb' = IF responseFilter = filterTag[h] THEN 1 ELSE rcv_ecb
     \/ /\ \A h \in requests : msgId[h] # m
        /\ UNCHANGED <<msgId, rcv_ecb>>
  /\ UNCHANGED <<vmcparm, allocated, filterTag, lastMsgId, responseFilter, timer,
                 pc, cur, authorized>>

(* The VMCF interrupt that returns message m, replied to or rejected.      *)
handleExt(m) ==
  /\ outstanding' = outstanding \ {m}
  /\ \/ \E h \in requests :
          /\ IsFirst(h, {g \in requests : msgId[g] = m})
          /\ msgId' = [msgId EXCEPT ![h] = MID_RCVD]
          /\ rcv_ecb' = IF responseFilter \in {NO_FILTER, filterTag[h]} THEN 1 ELSE rcv_ecb
     \/ /\ \A h \in requests : msgId[h] # m
        /\ UNCHANGED <<msgId, rcv_ecb>>
  /\ UNCHANGED <<vmcparm, allocated, filterTag, lastMsgId, responseFilter, timer,
                 pc, cur, authorized>>

(* The STIMER exit posts the ECB of the timer.                             *)
TMRHNDL ==
  /\ timer = "running"
  /\ timer' = "posted"
  /\ UNCHANGED <<vmcparm, allocated, msgId, filterTag, lastMsgId, responseFilter,
                 rcv_ecb, pc, cur, authorized, outstanding>>

Call ==
  \/ ncf_001
  \/ ncf_002
  \/ ncf_010
  \/ \E h \in requests :
       \/ \E wait \in BOOLEAN : ncf_021(h, wait)
       \/ \E t \in AnyTag : ncf_035(h, t)
       \/ ncf_040(h)
       \/ ncf_050(h)
       \/ ncf_030(h)
  \/ ncf_031
  \/ \E f \in AnyTag : ncf_037_forever(f) \/ ncf_037_timeout(f)

Continue ==
  \/ vmcf_request
  \/ checkReceived
  \/ waitForVmcfResponse
  \/ anyScan
  \/ anyWait
  \/ timedScan
  \/ timedWait
  \/ ncf_037_return

Interrupt == (\E m \in outstanding : handleExt(m)) \/ TMRHNDL

ClientNext == Call \/ Continue \/ Interrupt

ClientSpec == ClientInit /\ [][ClientNext]_clientVars

(* The client program runs, the timer expires and every message is         *)
(* returned in the end, by a reply or by a reject.                         *)
ClientFairSpec ==
  /\ ClientSpec
  /\ WF_clientVars(Continue)
  /\ WF_clientVars(TMRHNDL)
  /\ \A m \in MID_PEND .. MaxMsgId : WF_clientVars(m \in outstanding /\ handleExt(m))

-----------------------------------------------------------------------------
Steps == {"idle", "request", "requestAndWait", "check", "wait", "clear",
          "anyScan", "anyWait", "anyClear",
          "timedScan", "timedWait", "timedClear", "done"}

(* A request is in one of its states or carries a message id, the two      *)
(* never mix; the client program is at one of its steps.                   *)
ClientTypeOK ==
  /\ vmcparm \in BOOLEAN
  /\ allocated \in 0 .. MaxRequests
  /\ msgId \in [Handles -> {MID_UNUSED, MID_FREE, MID_NEW, MID_RCVD, MID_RTRN}
                           \cup (MID_PEND + 1) .. MaxMsgId]
  /\ filterTag \in [Handles -> AnyTag]
  /\ lastMsgId \in MID_PEND .. MaxMsgId
  /\ responseFilter \in AnyTag
  /\ rcv_ecb \in {0, 1}
  /\ timer \in {"off", "running", "posted"}
  /\ pc \in Steps
  /\ cur \in 0 .. MaxRequests
  /\ authorized \in BOOLEAN
  /\ outstanding \in SUBSET ((MID_PEND + 1) .. MaxMsgId)

(* VMCF writes a response into the buffer it was sent from: as long as a   *)
(* message is outstanding exactly one request carries its id, and it is    *)
(* neither freed nor used for another request.  Conversely a request that  *)
(* is pending is known to VMCF, so that its response will come.            *)
PendingIsOutstanding ==
  /\ \A m \in outstanding : \E h \in requests : msgId[h] = m
  /\ \A g, h \in Handles : msgId[g] = msgId[h] /\ Pending(g) => g = h
  /\ \A h \in Handles : Pending(h) =>
       msgId[h] \in outstanding \/ (pc \in {"request", "requestAndWait"} /\ h = cur)

(* A client that sleeps on the ECB has nothing to wake up for: the         *)
(* response it waits for has not come, whenever the interrupt falls        *)
(* between the look at the request, the wait and the clearing of the ECB,  *)
(* and whatever filter an earlier wait had set.                            *)
NoLostWakeup ==
  rcv_ecb = 0 =>
    /\ pc = "wait" => msgId[cur] # MID_RCVD
    /\ pc \in {"anyWait", "timedWait"} => Available = {}

(* What makes the above inductive: message ids are handed out upwards, a   *)
(* filter is set only while ncf_037 waits, the request the client program  *)
(* works with is in the list and, before VMCF has it, not outstanding.     *)
ClientAux ==
  /\ ~vmcparm => allocated = 0 /\ pc = "idle"
  /\ \A m \in outstanding : m <= lastMsgId
  /\ \A h \in Handles : msgId[h] <= lastMsgId
  /\ \A h \in Handles \ requests : msgId[h] = MID_UNUSED
  /\ pc \in {"idle", "request", "requestAndWait", "check", "wait", "clear"} =>
       responseFilter = NO_FILTER
  /\ pc \in {"request", "requestAndWait", "check", "wait", "clear"} => cur \in requests
  /\ pc \in {"request", "requestAndWait"} => Pending(cur) /\ msgId[cur] \notin outstanding

ClientInv == ClientTypeOK /\ PendingIsOutstanding /\ NoLostWakeup /\ ClientAux

(* A wait for a response, and a wait with a timeout, come to an end; so    *)
(* does a wait without a timeout when a response with its tag is to come.  *)
WaitEnds ==
  /\ pc \in {"check", "wait", "timedScan", "timedWait"} ~> pc = "idle"
  /\ (pc = "anyWait" /\ \E h \in requests : Pending(h) /\ filterTag[h] = responseFilter)
       ~> pc = "idle"
=============================================================================
