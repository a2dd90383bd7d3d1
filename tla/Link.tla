-------------------------------- MODULE Link --------------------------------
(***************************************************************************)
(* The inside and the outside proxy joined by the DIALed 3270 line: the    *)
(* path of a request from its VMCF interrupt to its VMCF reply.            *)
(***************************************************************************)
EXTENDS IoProxy, Connector

VARIABLE
  overtaken \* history: a device interrupt made handleExt's idle check stale

vars == <<poolVars, ioVars, outVars, overtaken>>

Init == PoolInit /\ IoInit /\ OutInit /\ overtaken = FALSE

(* A device interrupt falls into handleExt (its comment says that "may     *)
(* happen") and overtakes the code it interrupts: the request that was     *)
(* just enqueued is gone when IDLE is seen, or the state machine leaves    *)
(* the state from which WILL_SEND is to be sent.                           *)
Overtaking ==
  \/ extPc = "check" /\ extPc' = "enter" /\ ~havingRequest
  \/ extPc \in {"enter", "startIO"} /\ extPc' = extPc /\ pstate' \notin {pstate, Settled(pstate)}

Watched == overtaken' = (overtaken \/ Overtaking)

Inside  == (ExtHandler \/ devintHandler) /\ UNCHANGED outVars /\ Watched
Outside == OutNext /\ UNCHANGED <<poolVars, pstate, inRecv, devBusy, overtaken>>

Next == Inside \/ Outside

Spec == Init /\ [][Next]_vars

(* With connections that are lost while the outside proxy lives on.        *)
Lossy == loseConnection /\ UNCHANGED <<poolVars, pstate, inRecv, devBusy, overtaken>>

LossySpec == Init /\ [][Next \/ Lossy]_vars

(* Interrupts that are pending are taken, the handlers run to their end,   *)
(* the receiving thread reads on, worker threads finish.  Clients need not *)
(* send requests.                                                          *)
HandlerFairness ==
  /\ WF_vars(extPc # "none" /\ ExtHandler /\ UNCHANGED outVars /\ Watched)
  /\ WF_vars(devintHandler /\ UNCHANGED outVars /\ Watched)
  /\ WF_vars((receiveRecord \/ connect) /\ UNCHANGED <<poolVars, pstate, inRecv, devBusy, overtaken>>)
  /\ WF_vars(\E r \in working :
       sendResponse(r) /\ UNCHANGED <<poolVars, pstate, inRecv, devBusy, overtaken>>)

FairSpec == Spec /\ HandlerFairness

-----------------------------------------------------------------------------
(* The state machine is in one of its states, the records on the line and  *)
(* the queues of the outside proxy are well-formed.                        *)
TypeOK == IoTypeOK /\ LineTypeOK /\ OutTypeOK

(* The slot pool as the two handlers and the outside proxy really use it:  *)
(* in particular a slot is answered and freed only while it is with the    *)
(* outside proxy, so that the invariants of the pool hold in the link.     *)
(* Once handleExt was overtaken the WILL_SEND that it sends nevertheless   *)
(* makes the outside proxy forget what it is sending, and send it again;   *)
(* that is as far as this and the following properties go.                 *)
Pool == INSTANCE SlotPool WITH
  extPc <- IF extPc \in {"enter", "startIO"} THEN "check" ELSE extPc

PoolRefined ==
  Pool!PoolInit /\ [][~overtaken => Pool!PoolNext]_(Pool!poolVars)

(* A response packet is taken from the line in the state that allows it.   *)
ResponseTaken ==
  /\ pstate \in {"RECEIVING", "iRECEIVING"}
  /\ inRecv /\ ~inRecv'
  /\ toIn # <<>>
  /\ toIn[1].kind \in {"DATA", "DATA_WANT_SEND"}

(* endReceivePacket answers the client whose request the response is for:  *)
(* the message VMCF then no longer holds is the one the packet carries.    *)
ReplyAnswersItsRequest ==
  [][ResponseTaken /\ ~overtaken => pending \ pending' \subseteq {toIn[1].msg}]_vars

(* endReceivePacket on a slot that is not in use: "slot not in use =>      *)
(* ignore", the free ring does not get the slot a second time.             *)
SlotNotInUseIsIgnored ==
  [][ResponseTaken /\ msgId[toIn[1].slot] = NoMsg => UNCHANGED freeVars]_vars

(* The slots innerReceiveRecord keeps in slotsInUse.                       *)
slotsInUse == {r.slot : r \in working} \cup {waiting[i].slot : i \in DOMAIN waiting}

(* innerReceiveRecord never logs a "duplicate slot usage": a packet comes  *)
(* only for a slot the outside proxy has no request of.                    *)
NoDuplicateSlotUsage ==
  phase = "up" /\ toOut # <<>> /\ Head(toOut).kind = "DATA" /\ ~overtaken
    => Head(toOut).slot \notin slotsInUse

(* When the outside proxy acknowledges a will-send there is a request to   *)
(* transmit: enter_iTRANSMITTING is called with a NULL request only when   *)
(* an interrupt has overtaken handleExt.                                   *)
NoNullTransmit == pstate = "NULL_REQUEST" => overtaken

(* A waiting request leaves the queue, whatever handshakes collide: it is  *)
(* transmitted, or rejected when a new outside proxy has dialed in.        *)
RequestLeavesQueue == \A s \in Slots : InQueue(s) ~> ~InQueue(s)

(* A new outside proxy always gets through CLEAR, CP READ and DIAL.        *)
LineComesUp == phase # "up" ~> phase = "up"

(* Every message gets its reply or its reject: a response that is not the  *)
(* head of the queue "will automatically be sent subsequently".            *)
MessageIsAnswered == \A m \in Msgs : m \in pending ~> m \notin pending
-----------------------------------------------------------------------------
(* The inductive invariant, which holds until handleExt is overtaken.  It  *)
(* says what is on the line in each state of the transmission state        *)
(* machine while the connection is up, and where the transmitted slots     *)
(* are.                                                                    *)

(* A sequence of records without the request to dump the state, which the  *)
(* outside proxy does not answer.                                          *)
Handshakes(s) ==
  IF \E i \in DOMAIN s : s[i].kind = "STATE"
  THEN LET p == CHOOSE i \in DOMAIN s : s[i].kind = "STATE"
       IN [i \in 1 .. Len(s) - 1 |-> s[IF i < p THEN i ELSE i + 1]]
  ELSE s

outbound == Handshakes(toOut)

One(s, a)         == Len(s) = 1 /\ s[1].kind = a
Two(s, a, b)      == Len(s) = 2 /\ s[1].kind = a /\ s[2].kind = b
Three(s, a, b, c) == Len(s) = 3 /\ s[1].kind = a /\ s[2].kind = b /\ s[3].kind = c

(* sendResponse will not write a WANT_SEND.                                *)
Held == mayRequestSend => pendingRequestSend

(* The states in which a write of the state machine is under way.          *)
Writing == {"iWELCOME", "iIDLE", "iTRANSMITTING", "iRECEIVING", "iRESET"}

Idling        == pstate \in {"iIDLE", "IDLE"}
Preparing     == pstate \in {"iTRANSMITPREP", "TRANSMITPREP"}
Transmitting  == pstate \in {"iTRANSMITTING", "TRANSMITTING"}
Receiving     == pstate \in {"iRECEIVING", "RECEIVING"}
Resetting     == pstate \in {"iRESET", "RESET"}

(* The first records after a DIAL.                                         *)
WelcomeLine ==
  /\ Held
  /\ \/ pstate = "INITIAL" /\ outbound = <<>> /\ One(toIn, "WELCOME")
     \/ pstate = "iWELCOME" /\ (outbound = <<>> \/ One(outbound, "WELCOME")) /\ toIn = <<>>

(* Nothing is agreed upon: the outside proxy may ask for the line.         *)
IdleLine ==
  \/ Two(outbound, "WELCOME", "ACK") /\ toIn = <<>> /\ Held
  \/ One(outbound, "ACK") /\ toIn = <<>> /\ Held
  \/ outbound = <<>> /\ toIn = <<>>
  \/ /\ Held /\ waiting # <<>>
     /\ \/ outbound = <<>> /\ (One(toIn, "WANT_SEND") \/ One(toIn, "ACK_WANT_SEND"))
        \/ One(outbound, "DATA") /\ toIn = <<>>

(* WILL_SEND is on the line, or the ACK for it, and may have crossed a     *)
(* WANT_SEND.                                                              *)
PrepLine ==
  \/ One(outbound, "WILL_SEND") /\ toIn = <<>>
  \/ /\ Held
     /\ \/ Three(outbound, "WELCOME", "ACK", "WILL_SEND") /\ toIn = <<>>
        \/ Two(outbound, "ACK", "WILL_SEND") /\ toIn = <<>>
        \/ outbound = <<>> /\ One(toIn, "ACK")
  \/ /\ Held /\ waiting # <<>>
     /\ \/ /\ toIn = <<>>
           /\ \/ Two(outbound, "DATA", "WILL_SEND")
              \/ Two(outbound, "WILL_SEND", "WILL_SEND")
              \/ Two(outbound, "RESET", "WILL_SEND")
        \/ /\ One(outbound, "WILL_SEND")
           /\ One(toIn, "WANT_SEND") \/ One(toIn, "ACK_WANT_SEND") \/ One(toIn, "ACK")
        \/ /\ outbound = <<>>
           /\ Two(toIn, "ACK", "ACK") \/ Two(toIn, "ACK_WANT_SEND", "ACK")
                \/ Two(toIn, "WANT_SEND", "ACK")

(* A request is on the line, or the answer to it.                          *)
TransmitLine ==
  \/ One(outbound, "DATA") /\ toIn = <<>> /\ Held
  \/ outbound = <<>> /\ One(toIn, "ACK")
  \/ /\ Held /\ waiting # <<>>
     /\ \/ One(outbound, "DATA") /\ One(toIn, "ACK")
        \/ Two(outbound, "WILL_SEND", "DATA") /\ toIn = <<>>
        \/ /\ outbound = <<>>
           /\ One(toIn, "ACK_WANT_SEND") \/ Two(toIn, "ACK", "ACK_WANT_SEND")
                \/ Two(toIn, "ACK", "WANT_SEND")

(* A WANT_SEND was received where none is expected.                        *)
ResetLine ==
  /\ Held /\ waiting # <<>>
  /\ \/ One(outbound, "RESET") /\ toIn = <<>>
     \/ outbound = <<>> /\ (One(toIn, "ACK_WANT_SEND") \/ Two(toIn, "ACK", "ACK_WANT_SEND"))
     \/ /\ havingRequest
        /\ \/ One(outbound, "RESET") /\ One(toIn, "ACK")
           \/ Two(outbound, "WILL_SEND", "RESET") /\ toIn = <<>>

(* The outside proxy may send a response, has sent it, or is asked for the *)
(* next one.                                                               *)
ReceiveLine ==
  /\ Held
  /\ \/ outbound = <<>> /\ One(toIn, "DATA") /\ sending
     \/ outbound = <<>> /\ One(toIn, "DATA_WANT_SEND") /\ sending /\ Len(waiting) > 1
     \/ /\ One(outbound, "SEND_PACKET") /\ toIn = <<>>
        /\ IF sending THEN Len(waiting) > 1 ELSE waiting # <<>>

LineUp ==
  \/ WelcomeLine
  \/ Idling /\ IdleLine
  \/ Preparing /\ (IdleLine \/ PrepLine)
  \/ Transmitting /\ TransmitLine
  \/ Receiving /\ ReceiveLine
  \/ Resetting /\ ResetLine

(* sending: the head of the queue is on the line, or the inside proxy has  *)
(* it and the record that says so comes next.                              *)
SendingHead ==
  sending =>
    /\ waiting # <<>>
    /\ \/ /\ toIn = <<>>
          /\ One(outbound, "ACK") \/ Two(outbound, "ACK", "WILL_SEND") \/ One(outbound, "SEND_PACKET")
       \/ One(toIn, "DATA") \/ One(toIn, "DATA_WANT_SEND")

(* A new outside proxy is connecting: it has neither requests nor          *)
(* responses, and the old ones are not on the line.                        *)
LineDown ==
  /\ waiting = <<>> /\ working = {} /\ ~sending /\ Held
  /\ \A i \in DOMAIN toOut : toOut[i].kind # "DATA"
  /\ \A i \in DOMAIN toIn : toIn[i].kind \in {"CLEAR", "DIAL"}
  /\ \A i \in DOMAIN toIn : toIn[i].kind = "DIAL" =>
       /\ phase = "dial" /\ i = Len(toIn)
       /\ \A j \in DOMAIN toOut : toOut[j].kind # "DIALED"
  /\ \A i \in DOMAIN toOut : toOut[i].kind = "DIALED" =>
       /\ phase = "dial" /\ toIn = <<>> /\ pstate = "INITIAL"
       /\ \A j \in i + 1 .. Len(toOut) : toOut[j].kind = "STATE"

LineOK == IF phase = "up" THEN LineUp ELSE LineDown

OneState ==
  \A i, j \in DOMAIN toOut : toOut[i].kind = "STATE" /\ toOut[j].kind = "STATE" => i = j

(* A request is waiting whenever the line was or will be asked for one.    *)
Announces ==
  /\ Preparing => havingRequest
  /\ extPc \in {"enter", "startIO"} => havingRequest
  /\ extPc = "enter" => pstate = "IDLE"
  /\ extPc = "startIO" => Preparing /\ (phase = "up" => IdleLine)
  /\ pstate \in Writing => devBusy /\ ~inRecv

Control == OneState /\ LineOK /\ SendingHead /\ Announces

(* The response has been taken over by the inside proxy.                   *)
Returned == sending /\ toIn = <<>>

(* r is the request in its slot, which is with the outside proxy.          *)
IsSent(r) == r.slot \in sent /\ r.msg = msgId[r.slot]

(* Each transmitted slot is in one place: on the line, with a worker or in *)
(* the queue of responses, whose head is also on the line.                 *)
RequestsOnLine ==
  /\ \A i \in DOMAIN toOut : toOut[i].kind = "DATA" =>
       IsSent(toOut[i]) /\ toOut[i].slot \notin slotsInUse
  /\ \A i, j \in DOMAIN toOut :
       toOut[i].kind = "DATA" /\ toOut[j].kind = "DATA" /\ toOut[i].slot = toOut[j].slot => i = j

RequestsWithWorkers ==
  \A r \in working : IsSent(r) /\ \A i \in DOMAIN waiting : waiting[i].slot # r.slot

ResponsesQueued ==
  /\ \A i \in DOMAIN waiting :
       IF i = 1 /\ Returned THEN waiting[i].slot \notin sent ELSE IsSent(waiting[i])
  /\ \A i, j \in DOMAIN waiting : waiting[i].slot = waiting[j].slot => i = j

ResponseOnLine ==
  \A i \in DOMAIN toIn : toIn[i].kind \in {"DATA", "DATA_WANT_SEND"} =>
    waiting # <<>> /\ toIn[i].slot = waiting[1].slot /\ toIn[i].msg = waiting[1].msg

OnePlace == RequestsOnLine /\ RequestsWithWorkers /\ ResponsesQueued /\ ResponseOnLine

LinkInv ==
  /\ TypeOK
  /\ Pool!PoolInv
  /\ Control
  /\ OnePlace
=============================================================================
