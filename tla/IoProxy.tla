------------------------------ MODULE IoProxy -------------------------------
(***************************************************************************)
(* The inside proxy (cms/ioproxy.c): the transmission state machine driven *)
(* by interrupts of the DIALed 3270 device 097, on top of the slot pool.   *)
(*                                                                         *)
(* The device is external.  It runs one channel program at a time; a SIO   *)
(* while it is busy is refused, and so is the one retry of doSIO, in which *)
(* case the handshake is silently not sent.  A write reaches the outside   *)
(* proxy in order; a READ MODIFIED returns the oldest records that have    *)
(* arrived, possibly several of them in one buffer.                        *)
(***************************************************************************)
EXTENDS SlotPool, Line

CONSTANTS
  MaxCoalesce,      \* how many records one READ MODIFIED may return
  DevInterruptsExt, \* may a device interrupt arrive within handleExt?
  StatRequests      \* may users send the STAT command?

ASSUME CoalesceAssumption == MaxCoalesce \in Nat \ {0}
ASSUME ProxyFlagsAssumption ==
  /\ DevInterruptsExt \in BOOLEAN
  /\ StatRequests \in BOOLEAN

VARIABLES
  pstate,   \* the state of the transmission state machine
  inRecv,   \* receiving data from the 3270 device?
  devBusy   \* a channel program is running or its device end is pending

devVars == <<devBusy, toOut>>
ioVars  == <<pstate, inRecv, devBusy, toOut, toIn>>

PStates == {"INITIAL", "iWELCOME", "iIDLE", "IDLE",
            "iTRANSMITPREP", "TRANSMITPREP", "iTRANSMITTING", "TRANSMITTING",
            "iRECEIVING", "RECEIVING", "iRESET", "RESET",
            "iRECONNECT_CPREAD", "NULL_REQUEST"}

IoInit ==
  /\ pstate = "INITIAL"
  /\ inRecv = FALSE
  /\ devBusy = FALSE

-----------------------------------------------------------------------------
(* SIO issued where the device may be busy: the external handler.          *)
doSIO(rec) ==
  IF devBusy
  THEN UNCHANGED devVars
  ELSE /\ devBusy' = TRUE
       /\ toOut' = Append(toOut, rec)

(* SIO issued by the device handler at a device end: the device is free.   *)
doSIOAtEnd(rec) ==
  /\ devBusy' = TRUE
  /\ toOut' = Append(toOut, rec)

noSIOAtEnd ==
  /\ devBusy' = FALSE
  /\ UNCHANGED toOut

enter_iWELCOME          == pstate' = "iWELCOME" /\ doSIOAtEnd(Token("WELCOME"))
enter_iTRANSMITPREP     == pstate' = "iTRANSMITPREP" /\ doSIOAtEnd(Token("WILL_SEND"))
enter_iRECEIVING        == pstate' = "iRECEIVING" /\ doSIOAtEnd(Token("SEND_PACKET"))
enter_iIDLE             == pstate' = "iIDLE" /\ doSIOAtEnd(Token("ACK"))
enter_iRESET            == pstate' = "iRESET" /\ doSIOAtEnd(Token("RESET"))
enter_iRECONNECT_CPREAD == pstate' = "iRECONNECT_CPREAD" /\ doSIOAtEnd(Token("CPREAD"))

(* Slip: the state of its name is entered, which no interrupt leaves.      *)
enter_iRECONNECT_DIALED_named ==
  pstate' = "iRECONNECT_DIALED" /\ doSIOAtEnd(Token("DIALED"))

enter_iRECONNECT_DIALED == pstate' = "INITIAL" /\ doSIOAtEnd(Token("DIALED"))

(* The request is read from VMCF and written with its slot number.         *)
enter_iTRANSMITTING(s) ==
  /\ pstate' = "iTRANSMITTING"
  /\ doSIOAtEnd(Packet("DATA", s, msgId[s]))

-----------------------------------------------------------------------------
(* The external interrupt handler: the slot pool's part, then the check    *)
(* whether the line is idle, the transition and the SIO, each of which a   *)
(* device interrupt may precede.                                           *)

extEnqueues ==
  /\ \/ \E m \in Msgs : handleExt(m)
     \/ rejectOutOfSlots
     \/ getSlot
     \/ takeSlot
     \/ advanceCurrFree
     \/ fillRequest
     \/ enqueueRequest
     \/ publishRequest
  /\ UNCHANGED ioVars

extStep(from, to) ==
  /\ extPc = from
  /\ extPc' = to
  /\ UNCHANGED <<freeVars, queueVars, msgId, extReq, extIdx, extMsg,
                 sent, pending>>

extCheckIdle ==
  /\ extStep("check", IF pstate = "IDLE" THEN "enter" ELSE "none")
  /\ UNCHANGED ioVars

extEnterTransmitPrep ==
  /\ extStep("enter", "startIO")
  /\ pstate' = "iTRANSMITPREP"
  /\ UNCHANGED <<inRecv, devVars, toIn>>

extStartIO ==
  /\ extStep("startIO", "none")
  /\ doSIO(Token("WILL_SEND"))
  /\ UNCHANGED <<pstate, inRecv, toIn>>

(* SMSG STAT: the outside proxy is told to dump its state.  One dump at a  *)
(* time is a bound of the model.                                           *)
extStat ==
  /\ StatRequests
  /\ extPc = "none"
  /\ \A i \in DOMAIN toOut : toOut[i].kind # "STATE"
  /\ doSIO(Token("STATE"))
  /\ UNCHANGED <<poolVars, pstate, inRecv, toIn>>

ExtHandler ==
  \/ extEnqueues
  \/ extCheckIdle
  \/ extEnterTransmitPrep
  \/ extStartIO
  \/ extStat

-----------------------------------------------------------------------------
(* The device interrupt handler.                                           *)

MayInterrupt ==
  /\ extPc = "none" \/ DevInterruptsExt
  /\ pstate # "NULL_REQUEST"

(* Attention: the outside proxy has sent something.                        *)
beginReceivePacket ==
  /\ MayInterrupt
  /\ ~devBusy
  /\ toIn # <<>>
  /\ inRecv' = TRUE
  /\ devBusy' = TRUE
  /\ UNCHANGED <<poolVars, pstate, toOut, toIn>>

(* Device end of a write.                                                  *)
Settled(p) == CASE p = "iTRANSMITPREP" -> "TRANSMITPREP"
                [] p = "iRECEIVING"    -> "RECEIVING"
                [] p = "iTRANSMITTING" -> "TRANSMITTING"
                [] p = "iIDLE"         -> "IDLE"
                [] p = "iRESET"        -> "RESET"
                [] OTHER               -> p

(* Slip: will-send is sent after an ack although nothing waits.            *)
deviceEnd_alwaysPrep ==
  \/ pstate = "iIDLE" /\ enter_iTRANSMITPREP
  \/ pstate = "iWELCOME" /\ enter_iIDLE
  \/ pstate \notin {"iIDLE", "iWELCOME"} /\ pstate' = Settled(pstate) /\ noSIOAtEnd

(* Slip: the queue is not looked at when the line becomes idle.            *)
deviceEnd_noQueueCheck ==
  \/ pstate = "iWELCOME" /\ enter_iIDLE
  \/ pstate # "iWELCOME" /\ pstate' = Settled(pstate) /\ noSIOAtEnd

deviceEnd ==
  \/ /\ pstate = "iIDLE" /\ havingRequest
     /\ enter_iTRANSMITPREP
  \/ /\ pstate = "iWELCOME"
     /\ enter_iIDLE
  \/ /\ pstate # "iWELCOME"
     /\ ~(pstate = "iIDLE" /\ havingRequest)
     /\ pstate' = Settled(pstate)
     /\ noSIOAtEnd

endWrite ==
  /\ MayInterrupt
  /\ devBusy /\ ~inRecv
  /\ deviceEnd
  /\ UNCHANGED <<poolVars, inRecv, toIn>>

(* What a received record makes of the state machine and of the pool.      *)

onWantSend ==
  /\ \/ pstate = "IDLE" /\ enter_iRECEIVING
     \/ pstate = "TRANSMITPREP" /\ enter_iTRANSMITPREP
     \/ pstate \notin {"IDLE", "TRANSMITPREP"} /\ enter_iRESET
  /\ UNCHANGED poolVars

onWelcome ==
  /\ \/ pstate = "INITIAL" /\ enter_iWELCOME
     \/ pstate # "INITIAL" /\ enter_iRESET
  /\ UNCHANGED poolVars

nextRequest ==
  IF havingRequest THEN reqQueue[RING_NEXT(reqLastOut)] ELSE NULL

(* enter_iTRANSMITTING(getNextRequestToSend()), which does not look        *)
(* whether the request is NULL before it reads through it.                 *)
onAckInTransmitPrep ==
  /\ pstate = "TRANSMITPREP"
  /\ \/ /\ nextRequest # NULL
        /\ enter_iTRANSMITTING(nextRequest)
        /\ getNextRequestToSend
     \/ /\ nextRequest = NULL
        /\ pstate' = "NULL_REQUEST"
        /\ noSIOAtEnd
        /\ UNCHANGED poolVars

(* followed: the buffer goes on with a want-send after the ack.            *)
onAck(followed) ==
  \/ onAckInTransmitPrep
  \/ /\ pstate \in {"TRANSMITTING", "RESET"}
     /\ \/ havingRequest /\ enter_iTRANSMITPREP
        \/ ~havingRequest /\ followed /\ enter_iRECEIVING
        \/ ~havingRequest /\ ~followed /\ pstate' = "IDLE" /\ noSIOAtEnd
     /\ UNCHANGED poolVars
  \/ /\ pstate \notin {"TRANSMITPREP", "TRANSMITTING", "RESET"}
     /\ noSIOAtEnd
     /\ UNCHANGED <<poolVars, pstate>>

onAckWantSend ==
  /\ \/ pstate \in {"TRANSMITTING", "RESET"} /\ enter_iRECEIVING
     \/ pstate \notin {"TRANSMITTING", "RESET"} /\ enter_iRESET
  /\ UNCHANGED poolVars

onClear ==
  /\ enter_iRECONNECT_CPREAD
  /\ UNCHANGED poolVars

(* A DIAL command line is answered while CP READ is shown; elsewhere it is *)
(* an ENTER too short for a response header.                               *)
onDial ==
  \/ /\ pstate = "iRECONNECT_CPREAD"
     /\ extPc = "none" \/ ResetDuringExt
     /\ resetAllRequests
     /\ enter_iRECONNECT_DIALED
  \/ /\ pstate # "iRECONNECT_CPREAD"
     /\ enter_iRESET
     /\ UNCHANGED poolVars

(* A response packet, with (AID F4) or without (ENTER) another one to      *)
(* follow.  While CP READ is shown an ENTER that is no DIAL is refused.    *)
onData(rec, keepReceiving) ==
  \/ /\ pstate \in {"RECEIVING", "iRECEIVING"}
     /\ replyAndFree(rec.slot)
     /\ IF keepReceiving THEN enter_iRECEIVING ELSE enter_iIDLE
  \/ /\ pstate \notin {"RECEIVING", "iRECEIVING"}
     /\ IF pstate = "iRECONNECT_CPREAD" /\ ~keepReceiving
        THEN enter_iRECONNECT_CPREAD
        ELSE enter_iRESET
     /\ UNCHANGED poolVars

receive(rec, followed) ==
  \/ rec.kind = "WANT_SEND" /\ onWantSend
  \/ rec.kind = "WELCOME" /\ onWelcome
  \/ rec.kind = "ACK" /\ onAck(followed)
  \/ rec.kind = "ACK_WANT_SEND" /\ onAckWantSend
  \/ rec.kind = "CLEAR" /\ onClear
  \/ rec.kind = "DIAL" /\ onDial
  \/ rec.kind = "DATA" /\ onData(rec, FALSE)
  \/ rec.kind = "DATA_WANT_SEND" /\ onData(rec, TRUE)

(* Device end of a READ MODIFIED: only the first record of the buffer is   *)
(* looked at, apart from a want-send directly behind an ack.               *)
endReceivePacket ==
  /\ MayInterrupt
  /\ devBusy /\ inRecv
  /\ inRecv' = FALSE
  /\ \/ /\ toIn = <<>> \* not even an AID code
        /\ noSIOAtEnd
        /\ UNCHANGED <<poolVars, pstate, toIn>>
     \/ \E k \in 1 .. MaxCoalesce :
          /\ k <= Len(toIn)
          /\ toIn' = SubSeq(toIn, k + 1, Len(toIn))
          /\ receive(toIn[1], k >= 2 /\ toIn[2].kind = "WANT_SEND")

devintHandler == beginReceivePacket \/ endWrite \/ endReceivePacket

IoTypeOK ==
  /\ pstate \in PStates
  /\ inRecv \in BOOLEAN
  /\ devBusy \in BOOLEAN
=============================================================================
