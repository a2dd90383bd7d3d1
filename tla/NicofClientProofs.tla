------------------------- MODULE NicofClientProofs --------------------------
(***************************************************************************)
(* For any number of request buffers, message ids and filter tags: a       *)
(* buffer is not reused while VMCF may write into it, and no wakeup is     *)
(* lost, wherever the VMCF interrupt and the timer fall.                   *)
(***************************************************************************)
EXTENDS NicofClient, TLAPS

USE DEF MID_UNUSED, MID_FREE, MID_NEW, MID_RCVD, MID_RTRN, MID_PEND,
        Handles, requests, AnyTag, Steps

(* Before nicofclt_init there are no requests and nothing is waited for.   *)
LEMMA ClientInitInv == ClientInit => ClientInv
<1> SUFFICES ASSUME ClientInit PROVE ClientInv
  OBVIOUS
<1> USE FilterAssumption, ClientBounds DEF ClientInit
<1>1. ClientTypeOK
  <2>1. MID_UNUSED \in {MID_UNUSED, MID_FREE, MID_NEW, MID_RCVD, MID_RTRN}
                        \cup (MID_PEND + 1) .. MaxMsgId
    OBVIOUS
  <2>2. lastMsgId \in MID_PEND .. MaxMsgId /\ allocated \in 0 .. MaxRequests
        /\ cur \in 0 .. MaxRequests
    OBVIOUS
  <2>3. vmcparm \in BOOLEAN /\ authorized \in BOOLEAN
    OBVIOUS
  <2> QED
    BY <2>1, <2>2, <2>3 DEF ClientTypeOK
<1>2. PendingIsOutstanding
  BY DEF PendingIsOutstanding, Pending
<1>3. NoLostWakeup
  BY DEF NoLostWakeup
<1>4. ClientAux
  BY DEF ClientAux
<1> QED
  BY <1>1, <1>2, <1>3, <1>4 DEF ClientInv

(* What the client program calls preserves the invariant.                  *)
LEMMA CallInv ==
  ASSUME ClientInv, Call PROVE ClientInv'
<1> USE FilterAssumption, ClientBounds DEF ClientInv
<1>1. CASE ncf_001
  <2> USE <1>1 DEF ncf_001, waitVars
  <2>1. ClientTypeOK'
    <3>1. \A h \in Handles : msgId'[h] \in {MID_UNUSED, MID_FREE, MID_NEW, MID_RCVD, MID_RTRN}
                                          \cup (MID_PEND + 1) .. MaxMsgId
      BY DEF ClientTypeOK
    <3>2. msgId' = [h \in Handles |-> msgId'[h]]
      OBVIOUS
    <3>3. vmcparm' \in BOOLEAN /\ authorized' \in BOOLEAN
      OBVIOUS
    <3>4. allocated' \in 0 .. MaxRequests
      OBVIOUS
    <3>5. msgId' \in [Handles -> {MID_UNUSED, MID_FREE, MID_NEW, MID_RCVD, MID_RTRN}
                                 \cup (MID_PEND + 1) .. MaxMsgId]
      BY <3>1, <3>2
    <3> QED
      BY <3>3, <3>4, <3>5 DEF ClientTypeOK
  <2>2. PendingIsOutstanding'
    BY DEF ClientTypeOK, PendingIsOutstanding, Pending, ClientAux
  <2>3. NoLostWakeup'
    BY DEF ClientTypeOK, NoLostWakeup, Available, ClientAux
  <2>4. ClientAux'
    BY DEF ClientTypeOK, ClientAux, Pending
  <2> QED
    BY <2>1, <2>2, <2>3, <2>4
<1>2. CASE ncf_002
  <2> USE <1>2 DEF ncf_002, waitVars
  <2>1. ClientTypeOK'
    <3>1. msgId' \in [Handles -> {MID_UNUSED, MID_FREE, MID_NEW, MID_RCVD, MID_RTRN}
                                 \cup (MID_PEND + 1) .. MaxMsgId]
      OBVIOUS
    <3>2. allocated' \in 0 .. MaxRequests
      OBVIOUS
    <3>3. authorized' \in BOOLEAN
      OBVIOUS
    <3> QED
      BY <3>1, <3>2, <3>3 DEF ClientTypeOK
  <2>2. PendingIsOutstanding'
    BY DEF ClientTypeOK, PendingIsOutstanding, Pending, ClientAux
  <2>3. NoLostWakeup'
    BY DEF ClientTypeOK, NoLostWakeup, Available, ClientAux
  <2>4. ClientAux'
    BY DEF ClientTypeOK, ClientAux, Pending
  <2> QED
    BY <2>1, <2>2, <2>3, <2>4
<1>3. CASE ncf_010
  <2> USE <1>3 DEF ncf_010, getRequest, IsFirst, waitVars
  <2>1. ClientTypeOK'
    BY DEF ClientTypeOK, ClientAux
  <2>2. PendingIsOutstanding'
    BY DEF ClientTypeOK, PendingIsOutstanding, Pending, ClientAux
  <2>3. NoLostWakeup'
    BY DEF ClientTypeOK, NoLostWakeup, Available, ClientAux
  <2>4. ClientAux'
    BY DEF ClientTypeOK, ClientAux, Pending
  <2> QED
    BY <2>1, <2>2, <2>3, <2>4
<1>4. ASSUME NEW h \in requests, NEW wait \in BOOLEAN, ncf_021(h, wait) PROVE ClientInv'
  <2> USE <1>4 DEF ncf_021, waitVars
  <2>1. ClientTypeOK'
    BY DEF ClientTypeOK, ClientAux
  <2>2. PendingIsOutstanding'
    BY DEF ClientTypeOK, PendingIsOutstanding, Pending, ClientAux
  <2>3. NoLostWakeup'
    BY DEF ClientTypeOK, NoLostWakeup, Available, ClientAux
  <2>4. ClientAux'
    BY DEF ClientTypeOK, ClientAux, Pending
  <2> QED
    BY <2>1, <2>2, <2>3, <2>4
<1>5. ASSUME NEW h \in requests, NEW t \in AnyTag, ncf_035(h, t) PROVE ClientInv'
  <2> USE <1>5 DEF ncf_035, waitVars
  <2>1. ClientTypeOK'
    BY DEF ClientTypeOK, ClientAux
  <2>2. PendingIsOutstanding'
    BY DEF ClientTypeOK, PendingIsOutstanding, Pending, ClientAux
  <2>3. NoLostWakeup'
    BY DEF ClientTypeOK, NoLostWakeup, Available, ClientAux
  <2>4. ClientAux'
    BY DEF ClientTypeOK, ClientAux, Pending
  <2> QED
    BY <2>1, <2>2, <2>3, <2>4
<1>6. ASSUME NEW h \in requests, ncf_040(h) PROVE ClientInv'
  <2> USE <1>6 DEF ncf_040, waitVars
  <2>1. ClientTypeOK'
    BY DEF ClientTypeOK, ClientAux
  <2>2. PendingIsOutstanding'
    BY DEF ClientTypeOK, PendingIsOutstanding, Pending, ClientAux
  <2>3. NoLostWakeup'
    BY DEF ClientTypeOK, NoLostWakeup, Available, ClientAux
  <2>4. ClientAux'
    BY DEF ClientTypeOK, ClientAux, Pending
  <2> QED
    BY <2>1, <2>2, <2>3, <2>4
<1>7. ASSUME NEW h \in requests, ncf_050(h) PROVE ClientInv'
  <2> USE <1>7 DEF ncf_050, Pending, waitVars
  <2>1. ClientTypeOK'
    BY DEF ClientTypeOK, ClientAux
  <2>2. PendingIsOutstanding'
    BY DEF ClientTypeOK, PendingIsOutstanding, Pending, ClientAux
  <2>3. NoLostWakeup'
    BY DEF ClientTypeOK, NoLostWakeup, Available, ClientAux
  <2>4. ClientAux'
    BY DEF ClientTypeOK, ClientAux, Pending
  <2> QED
    BY <2>1, <2>2, <2>3, <2>4
<1>8. ASSUME NEW h \in requests, ncf_030(h) PROVE ClientInv'
  <2> USE <1>8 DEF ncf_030, goto, waitVars
  <2>1. ClientTypeOK'
    BY DEF ClientTypeOK, ClientAux
  <2>2. PendingIsOutstanding'
    BY DEF ClientTypeOK, PendingIsOutstanding, Pending, ClientAux
  <2>3. NoLostWakeup'
    BY DEF ClientTypeOK, NoLostWakeup, Available, ClientAux
  <2>4. ClientAux'
    BY DEF ClientTypeOK, ClientAux, Pending
  <2> QED
    BY <2>1, <2>2, <2>3, <2>4
<1>9. CASE ncf_031
  <2> USE <1>9 DEF ncf_031, goto, waitVars, AnyPending
  <2>1. ClientTypeOK'
    BY DEF ClientTypeOK, ClientAux
  <2>2. PendingIsOutstanding'
    BY DEF ClientTypeOK, PendingIsOutstanding, Pending, ClientAux
  <2>3. NoLostWakeup'
    BY DEF ClientTypeOK, NoLostWakeup, Available, ClientAux
  <2>4. ClientAux'
    BY DEF ClientTypeOK, ClientAux, Pending
  <2> QED
    BY <2>1, <2>2, <2>3, <2>4
<1>10. ASSUME NEW f \in AnyTag, ncf_037_forever(f) PROVE ClientInv'
  <2> USE <1>10 DEF ncf_037_forever, goto, AnyPending
  <2>1. ClientTypeOK'
    BY DEF ClientTypeOK, ClientAux
  <2>2. PendingIsOutstanding'
    BY DEF ClientTypeOK, PendingIsOutstanding, Pending, ClientAux
  <2>3. NoLostWakeup'
    BY DEF ClientTypeOK, NoLostWakeup, Available, ClientAux
  <2>4. ClientAux'
    BY DEF ClientTypeOK, ClientAux, Pending
  <2> QED
    BY <2>1, <2>2, <2>3, <2>4
<1>11. ASSUME NEW f \in AnyTag, ncf_037_timeout(f) PROVE ClientInv'
  <2> USE <1>11 DEF ncf_037_timeout, goto, AnyPending
  <2>1. ClientTypeOK'
    BY DEF ClientTypeOK, ClientAux
  <2>2. PendingIsOutstanding'
    BY DEF ClientTypeOK, PendingIsOutstanding, Pending, ClientAux
  <2>3. NoLostWakeup'
    BY DEF ClientTypeOK, NoLostWakeup, Available, ClientAux
  <2>4. ClientAux'
    BY DEF ClientTypeOK, ClientAux, Pending
  <2> QED
    BY <2>1, <2>2, <2>3, <2>4
<1> QED
  BY <1>1, <1>2, <1>3, <1>4, <1>5, <1>6, <1>7, <1>8, <1>9, <1>10, <1>11 DEF Call

(* So does what a call goes on with after an interrupt was possible.       *)
LEMMA ContinueInv ==
  ASSUME ClientInv, Continue PROVE ClientInv'
<1> USE FilterAssumption, ClientBounds DEF ClientInv
<1>1. CASE vmcf_request
  <2> USE <1>1 DEF vmcf_request, waitVars
  <2>1. ASSUME authorized, outstanding' = outstanding \cup {msgId[cur]}, UNCHANGED msgId,
               pc' = IF pc = "request" THEN "idle" ELSE "check"
        PROVE  ClientInv'
    <3> USE <2>1
    <3>1. ClientTypeOK'
      <4>1. msgId[cur] \in (MID_PEND + 1) .. MaxMsgId
        BY DEF ClientTypeOK, ClientAux, Pending
      <4> QED
        BY <4>1 DEF ClientTypeOK
    <3>2. PendingIsOutstanding'
      BY DEF ClientTypeOK, PendingIsOutstanding, Pending, ClientAux
    <3>3. NoLostWakeup'
      BY DEF ClientTypeOK, NoLostWakeup, Available, ClientAux
    <3>4. ClientAux'
      BY DEF ClientTypeOK, ClientAux, Pending
    <3> QED
      BY <3>1, <3>2, <3>3, <3>4
  <2>2. ASSUME msgId' = [msgId EXCEPT ![cur] = MID_NEW], pc' = "idle", UNCHANGED outstanding
        PROVE  ClientInv'
    <3> USE <2>2
    <3>1. ClientTypeOK'
      BY DEF ClientTypeOK, ClientAux
    <3>2. PendingIsOutstanding'
      BY DEF ClientTypeOK, PendingIsOutstanding, Pending, ClientAux
    <3>3. NoLostWakeup'
      BY DEF ClientTypeOK, NoLostWakeup, Available, ClientAux
    <3>4. ClientAux'
      BY DEF ClientTypeOK, ClientAux, Pending
    <3> QED
      BY <3>1, <3>2, <3>3, <3>4
  <2> QED
    BY <2>1, <2>2
<1>2. CASE checkReceived
  <2> USE DEF goto, waitVars
  <2>1. ASSUME goto("check", "idle"), msgId[cur] = MID_RCVD,
               msgId' = [msgId EXCEPT ![cur] = MID_RTRN], UNCHANGED <<cur, waitVars>>
        PROVE  ClientInv'
    <3> USE <2>1
    <3>1. ClientTypeOK'
      BY DEF ClientTypeOK, ClientAux
    <3>2. PendingIsOutstanding'
      BY DEF ClientTypeOK, PendingIsOutstanding, Pending, ClientAux
    <3>3. NoLostWakeup'
      BY DEF ClientTypeOK, NoLostWakeup, Available, ClientAux
    <3>4. ClientAux'
      BY DEF ClientTypeOK, ClientAux, Pending
    <3> QED
      BY <3>1, <3>2, <3>3, <3>4
  <2>2. ASSUME goto("check", "wait"), msgId[cur] # MID_RCVD, UNCHANGED <<msgId, cur, waitVars>>
        PROVE  ClientInv'
    <3> USE <2>2
    <3>1. ClientTypeOK'
      BY DEF ClientTypeOK, ClientAux
    <3>2. PendingIsOutstanding'
      BY DEF ClientTypeOK, PendingIsOutstanding, Pending, ClientAux
    <3>3. NoLostWakeup'
      BY DEF ClientTypeOK, NoLostWakeup, Available, ClientAux
    <3>4. ClientAux'
      BY DEF ClientTypeOK, ClientAux, Pending
    <3> QED
      BY <3>1, <3>2, <3>3, <3>4
  <2> QED
    BY <1>2, <2>1, <2>2 DEF checkReceived
<1>3. CASE waitForVmcfResponse
  <2> USE <1>3 DEF waitForVmcfResponse, waitEcb, clearEcb, goto, waitVars
  <2>1. ClientTypeOK'
    BY DEF ClientTypeOK, ClientAux
  <2>2. PendingIsOutstanding'
    BY DEF ClientTypeOK, PendingIsOutstanding, Pending, ClientAux
  <2>3. NoLostWakeup'
    BY DEF ClientTypeOK, NoLostWakeup, Available, ClientAux
  <2>4. ClientAux'
    BY DEF ClientTypeOK, ClientAux, Pending
  <2> QED
    BY <2>1, <2>2, <2>3, <2>4
<1>4. CASE anyScan
  <2> USE <1>4 DEF anyScan, scan, goto, IsFirst, Available, waitVars
  <2>1. ClientTypeOK'
    <3>1. cur' \in 0 .. MaxRequests
      BY DEF ClientTypeOK
    <3> QED
      BY <3>1 DEF ClientTypeOK
  <2>2. PendingIsOutstanding'
    BY DEF ClientTypeOK, PendingIsOutstanding, Pending, ClientAux
  <2>3. NoLostWakeup'
    BY DEF ClientTypeOK, NoLostWakeup, Available, ClientAux
  <2>4. ClientAux'
    BY DEF ClientTypeOK, ClientAux, Pending
  <2> QED
    BY <2>1, <2>2, <2>3, <2>4
<1>5. CASE anyWait
  <2> USE <1>5 DEF anyWait, waitEcb, clearEcb, goto, waitVars
  <2>1. ClientTypeOK'
    BY DEF ClientTypeOK, ClientAux
  <2>2. PendingIsOutstanding'
    BY DEF ClientTypeOK, PendingIsOutstanding, Pending, ClientAux
  <2>3. NoLostWakeup'
    BY DEF ClientTypeOK, NoLostWakeup, Available, ClientAux
  <2>4. ClientAux'
    BY DEF ClientTypeOK, ClientAux, Pending
  <2> QED
    BY <2>1, <2>2, <2>3, <2>4
<1>6. CASE timedScan
  <2> USE <1>6 DEF timedScan, scan, goto, IsFirst, Available, waitVars
  <2>1. ClientTypeOK'
    <3>1. cur' \in 0 .. MaxRequests
      BY DEF ClientTypeOK
    <3> QED
      BY <3>1 DEF ClientTypeOK
  <2>2. PendingIsOutstanding'
    BY DEF ClientTypeOK, PendingIsOutstanding, Pending, ClientAux
  <2>3. NoLostWakeup'
    BY DEF ClientTypeOK, NoLostWakeup, Available, ClientAux
  <2>4. ClientAux'
    BY DEF ClientTypeOK, ClientAux, Pending
  <2> QED
    BY <2>1, <2>2, <2>3, <2>4
<1>7. CASE timedWait
  <2> USE <1>7 DEF timedWait, waitEcb, clearEcb, goto, waitVars
  <2>1. ClientTypeOK'
    BY DEF ClientTypeOK, ClientAux
  <2>2. PendingIsOutstanding'
    BY DEF ClientTypeOK, PendingIsOutstanding, Pending, ClientAux
  <2>3. NoLostWakeup'
    BY DEF ClientTypeOK, NoLostWakeup, Available, ClientAux
  <2>4. ClientAux'
    BY DEF ClientTypeOK, ClientAux, Pending
  <2> QED
    BY <2>1, <2>2, <2>3, <2>4
<1>8. CASE ncf_037_return
  <2> USE <1>8 DEF ncf_037_return, goto
  <2>1. ClientTypeOK'
    BY DEF ClientTypeOK, ClientAux
  <2>2. PendingIsOutstanding'
    BY DEF ClientTypeOK, PendingIsOutstanding, Pending, ClientAux
  <2>3. NoLostWakeup'
    BY DEF ClientTypeOK, NoLostWakeup, Available, ClientAux
  <2>4. ClientAux'
    BY DEF ClientTypeOK, ClientAux, Pending
  <2> QED
    BY <2>1, <2>2, <2>3, <2>4
<1> QED
  BY <1>1, <1>2, <1>3, <1>4, <1>5, <1>6, <1>7, <1>8 DEF Continue

(* So do the VMCF interrupt and the timer.                                 *)
LEMMA InterruptInv ==
  ASSUME ClientInv, Interrupt PROVE ClientInv'
<1> USE FilterAssumption, ClientBounds DEF ClientInv
<1>1. ASSUME NEW m \in outstanding, handleExt(m) PROVE ClientInv'
  <2> USE <1>1 DEF handleExt, IsFirst
  <2>1. ClientTypeOK'
    BY DEF ClientTypeOK, ClientAux
  <2>2. PendingIsOutstanding'
    <3>1. PICK h \in requests : msgId[h] = m
      BY DEF PendingIsOutstanding
    <3>2. requests \subseteq Handles /\ \A g \in Handles : msgId[g] = m => g = h
      BY <3>1 DEF PendingIsOutstanding, Pending, ClientTypeOK
    <3>3. msgId' = [msgId EXCEPT ![h] = MID_RCVD]
      <4>1. \E g \in requests : g \in {i \in requests : msgId[i] = m}
                              /\ msgId' = [msgId EXCEPT ![g] = MID_RCVD]
        BY <3>1
      <4> QED
        BY <3>2, <4>1
    <3>4. UNCHANGED <<pc, cur, requests>> /\ outstanding' = outstanding \ {m}
      OBVIOUS
    <3>5. \A g \in Handles : msgId'[g] = IF g = h THEN MID_RCVD ELSE msgId[g]
      BY <3>3 DEF ClientTypeOK
    <3>6. m > MID_PEND
      BY DEF ClientTypeOK
    <3> HIDE <1>1
    <3>7. (\A n \in outstanding : \E g \in requests : msgId[g] = n)'
      BY <3>1, <3>2, <3>4, <3>5 DEF PendingIsOutstanding
    <3>8. (\A f, g \in Handles : msgId[f] = msgId[g] /\ Pending(f) => f = g)'
      BY <3>5 DEF PendingIsOutstanding, Pending
    <3>9. (\A g \in Handles : Pending(g) =>
             msgId[g] \in outstanding \/ (pc \in {"request", "requestAndWait"} /\ g = cur))'
      BY <3>1, <3>2, <3>4, <3>5, <3>6 DEF PendingIsOutstanding, Pending
    <3> QED
      BY <3>7, <3>8, <3>9 DEF PendingIsOutstanding
  <2>3. NoLostWakeup'
    BY DEF ClientTypeOK, NoLostWakeup, Available, ClientAux
  <2>4. ClientAux'
    BY DEF ClientTypeOK, ClientAux, Pending
  <2> QED
    BY <2>1, <2>2, <2>3, <2>4
<1>2. CASE TMRHNDL
  <2> USE <1>2 DEF TMRHNDL
  <2>1. ClientTypeOK'
    BY DEF ClientTypeOK, ClientAux
  <2>2. PendingIsOutstanding'
    BY DEF ClientTypeOK, PendingIsOutstanding, Pending, ClientAux
  <2>3. NoLostWakeup'
    BY DEF ClientTypeOK, NoLostWakeup, Available, ClientAux
  <2>4. ClientAux'
    BY DEF ClientTypeOK, ClientAux, Pending
  <2> QED
    BY <2>1, <2>2, <2>3, <2>4
<1> QED
  BY <1>1, <1>2 DEF Interrupt

(* ClientInv is an invariant of the client.                                *)
THEOREM ClientInvariant == ClientSpec => []ClientInv
<1>1. ClientInit => ClientInv
  BY ClientInitInv
<1>2. ClientInv /\ [ClientNext]_clientVars => ClientInv'
  <2> SUFFICES ASSUME ClientInv, [ClientNext]_clientVars PROVE ClientInv'
    OBVIOUS
  <2>1. CASE ClientNext
    BY <2>1, CallInv, ContinueInv, InterruptInv DEF ClientNext
  <2>2. CASE UNCHANGED clientVars
    BY <2>2 DEF clientVars, waitVars, ClientInv, ClientTypeOK, PendingIsOutstanding,
                NoLostWakeup, ClientAux, Pending, Available
  <2> QED
    BY <2>1, <2>2
<1> QED
  BY <1>1, <1>2, PTL DEF ClientSpec

(* A response always finds the buffer that VMCF writes it into, and no     *)
(* request is pending that VMCF does not know of.                          *)
THEOREM PendingIsAlwaysOutstanding == ClientSpec => []PendingIsOutstanding
  BY ClientInvariant, PTL DEF ClientInv

(* No client sleeps through the response it waits for.                     *)
THEOREM NoWakeupIsLost == ClientSpec => []NoLostWakeup
  BY ClientInvariant, PTL DEF ClientInv

(* The state machine of the requests and of the waits keeps to its types.  *)
THEOREM ClientTypeCorrect == ClientSpec => []ClientTypeOK
  BY ClientInvariant, PTL DEF ClientInv
=============================================================================
