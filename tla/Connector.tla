----------------------------- MODULE Connector ------------------------------
(***************************************************************************)
(* The outside proxy's end of the line (Dialed3270HostConnector.java) with *)
(* the worker threads of CommProxy.java that produce the responses.  Each  *)
(* handler runs in synchronized(this), so each is one action.              *)
(***************************************************************************)
EXTENDS Line

CONSTANTS
  MaxReconnects, \* bound: how often the connection is lost
  MaxRestarts    \* bound: how often the outside proxy dies and is replaced

ASSUME LossAssumption == MaxReconnects \in Nat /\ MaxRestarts \in Nat

VARIABLES
  phase,              \* where connect() stands; "up": DIALed to the proxy
  sending,            \* the queue head has been transmitted, not yet acked
  mayRequestSend,     \* the host is known to be idle
  pendingRequestSend, \* waiting for permission to send
  waiting,            \* responses queued for the host
  working,            \* requests received, their response not yet queued
  reconnects,         \* connections lost so far
  restarts            \* outside proxies that have died so far

lossVars == <<reconnects, restarts>>
flagVars == <<sending, mayRequestSend, pendingRequestSend>>
outVars  == <<phase, flagVars, waiting, working, lossVars>>

Requests == [slot : Slots, msg : Msgs \cup {NoMsg}]

(* dialToVm() has just sent the first welcome.                             *)
OutInit ==
  /\ phase = "up"
  /\ sending = FALSE
  /\ mayRequestSend = FALSE
  /\ pendingRequestSend = FALSE
  /\ waiting = <<>>
  /\ working = {}
  /\ reconnects = 0
  /\ restarts = 0
  /\ toOut = <<>>
  /\ toIn = <<Token("WELCOME")>>

-----------------------------------------------------------------------------
write(rec) == toIn' = Append(toIn, rec)

flags(s, m, p) ==
  /\ sending' = s
  /\ mayRequestSend' = m
  /\ pendingRequestSend' = p

(* finishFirstQueued(): the queue without its head if the head was sent.   *)
finishFirstQueued == IF sending /\ waiting # <<>> THEN Tail(waiting) ELSE waiting

(* Slip: the slot of the wrong end of the queue.                           *)
sendFirstQueued_slotOfLast(q) ==
  IF q = <<>>
  THEN sending' = FALSE /\ UNCHANGED toIn
  ELSE /\ sending' = TRUE
       /\ write(Packet(IF Len(q) = 1 THEN "DATA" ELSE "DATA_WANT_SEND",
                       q[Len(q)].slot, Head(q).msg))

(* sendFirstQueued() after sending was reset: the head of queue q, as the  *)
(* last packet or with the request to send another one.                    *)
sendFirstQueued(q) ==
  IF q = <<>>
  THEN sending' = FALSE /\ UNCHANGED toIn
  ELSE /\ sending' = TRUE
       /\ write(Packet(IF Len(q) = 1 THEN "DATA" ELSE "DATA_WANT_SEND",
                       Head(q).slot, Head(q).msg))

onWillSend ==
  /\ flags(FALSE, FALSE, FALSE)
  /\ write(Token("ACK"))
  /\ UNCHANGED <<waiting, working>>

(* Slip: the acknowledged head stays in the queue.                         *)
onHostAck_keepsHead ==
  /\ flags(FALSE, TRUE, FALSE)
  /\ UNCHANGED <<waiting, working, toIn>>

onHostAck ==
  /\ waiting' = finishFirstQueued
  /\ flags(FALSE, TRUE, FALSE)
  /\ UNCHANGED <<working, toIn>>

onSendPacket ==
  /\ waiting' = finishFirstQueued
  /\ sendFirstQueued(finishFirstQueued)
  /\ UNCHANGED <<mayRequestSend, pendingRequestSend, working>>

onHostWelcome ==
  /\ flags(FALSE, FALSE, FALSE)
  /\ UNCHANGED <<waiting, working, toIn>>

onReset ==
  /\ flags(FALSE, TRUE, waiting # <<>>)
  /\ write(Token(IF waiting # <<>> THEN "ACK_WANT_SEND" ELSE "ACK"))
  /\ UNCHANGED <<waiting, working>>

onState == UNCHANGED <<flagVars, waiting, working, toIn>>

onRequest(rec) ==
  /\ working' = working \cup {[slot |-> rec.slot, msg |-> rec.msg]}
  /\ flags(FALSE, waiting = <<>>, waiting # <<>>)
  /\ write(Token(IF waiting # <<>> THEN "ACK_WANT_SEND" ELSE "ACK"))
  /\ UNCHANGED waiting

handleHandshake(rec) ==
  \/ rec.kind = "WILL_SEND" /\ onWillSend
  \/ rec.kind = "ACK" /\ onHostAck
  \/ rec.kind = "SEND_PACKET" /\ onSendPacket
  \/ rec.kind = "WELCOME" /\ onHostWelcome
  \/ rec.kind = "RESET" /\ onReset
  \/ rec.kind = "STATE" /\ onState

receiveRecord ==
  /\ phase = "up"
  /\ toOut # <<>>
  /\ toOut' = Tail(toOut)
  /\ \/ handleHandshake(Head(toOut))
     \/ Head(toOut).kind = "DATA" /\ onRequest(Head(toOut))
  /\ UNCHANGED <<phase, lossVars>>

(* A worker thread has the response for request r.                         *)
sendResponse(r) ==
  /\ working' = working \ {r}
  /\ waiting' = Append(waiting, r)
  /\ IF waiting = <<>> /\ mayRequestSend /\ ~pendingRequestSend
     THEN /\ write(Token("WANT_SEND"))
          /\ pendingRequestSend' = TRUE
     ELSE UNCHANGED <<pendingRequestSend, toIn>>
  /\ UNCHANGED <<phase, sending, mayRequestSend, lossVars, toOut>>

-----------------------------------------------------------------------------
(* Losing and re-establishing the connection.                              *)

(* connect() on a new connection: the running inside proxy shows nothing,  *)
(* so the HostScreenClearer sends a CLEAR.                                 *)
reconnect ==
  /\ phase' = "start"
  /\ toOut' = <<>>
  /\ toIn' = <<Token("CLEAR")>>

(* The connector object, its queue and its flags survive a lost            *)
(* connection, and so do the worker threads.                               *)
loseConnection ==
  /\ phase = "up"
  /\ reconnects < MaxReconnects
  /\ reconnects' = reconnects + 1
  /\ reconnect
  /\ UNCHANGED <<flagVars, waiting, working, restarts>>

(* Slip: the responses of the old proxy are still there.                   *)
restartProxy_keepsQueue ==
  /\ restarts < MaxRestarts
  /\ restarts' = restarts + 1
  /\ reconnect
  /\ flags(FALSE, FALSE, FALSE)
  /\ UNCHANGED <<waiting, working, reconnects>>

(* The outside proxy dies and a new one takes over.                        *)
restartProxy ==
  /\ restarts < MaxRestarts
  /\ restarts' = restarts + 1
  /\ reconnect
  /\ flags(FALSE, FALSE, FALSE)
  /\ waiting' = <<>>
  /\ working' = {}
  /\ UNCHANGED reconnects

(* CP READ has not come up in time: a second and last CLEAR.               *)
clearAgain ==
  /\ phase = "start"
  /\ phase' = "start2"
  /\ write(Token("CLEAR"))
  /\ UNCHANGED <<flagVars, waiting, working, lossVars, toOut>>

(* CLEAR until CP READ, CLEAR once more, DIAL, welcome.  What else arrives *)
(* is skipped.                                                             *)
connectStep(from, expected, to, answer) ==
  /\ phase \in from
  /\ toOut # <<>>
  /\ toOut' = Tail(toOut)
  /\ IF Head(toOut).kind = expected
     THEN phase' = to /\ write(Token(answer))
     ELSE UNCHANGED <<phase, toIn>>
  /\ UNCHANGED <<mayRequestSend, pendingRequestSend, waiting, working, lossVars>>

(* Slip: the answer to the second CLEAR is not waited for.                 *)
checkStartScreens_once ==
  /\ connectStep({"start"}, "CPREAD", "clear", "CLEAR")
  /\ UNCHANGED sending

checkStartScreens ==
  /\ connectStep({"start", "start2"}, "CPREAD", "clear", "CLEAR")
  /\ UNCHANGED sending

clearCurrentScreen ==
  /\ connectStep({"clear"}, "CPREAD", "dial", "DIAL")
  /\ UNCHANGED sending

dialToVm ==
  /\ connectStep({"dial"}, "DIALED", "up", "WELCOME")
  /\ sending' = (sending /\ phase' # "up")

connect == checkStartScreens \/ clearCurrentScreen \/ dialToVm

OutNext ==
  \/ receiveRecord
  \/ \E r \in working : sendResponse(r)
  \/ restartProxy
  \/ clearAgain
  \/ connect

OutTypeOK ==
  /\ phase \in {"up", "start", "start2", "clear", "dial"}
  /\ sending \in BOOLEAN
  /\ mayRequestSend \in BOOLEAN
  /\ pendingRequestSend \in BOOLEAN
  /\ waiting \in Seq(Requests)
  /\ working \in SUBSET Requests
  /\ reconnects \in 0 .. MaxReconnects
  /\ restarts \in 0 .. MaxRestarts
=============================================================================
