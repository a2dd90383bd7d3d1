------------------------------ MODULE Sockets -------------------------------
(***************************************************************************)
(* The socket API of a client program (cms/ncfsockt.c) and the socket      *)
(* service of the outside proxy (socketapi/Level0SocketAPIHandler.java,    *)
(* InetV4StreamSocketProxy.java, InetV4DatagramSocketProxy.java).          *)
(*                                                                         *)
(* The client program is one thread.  A call either waits for the answer   *)
(* to its request, or leaves the request with the socket and returns, in   *)
(* which case a later call or a selectX picks up the answer.  In the       *)
(* outside proxy one thread looks up the socket of each request in the     *)
(* order of their arrival; then each request is carried out by a worker    *)
(* of its own.                                                             *)
(*                                                                         *)
(* Addresses are left out; the 16 bytes of a sender address in front of a  *)
(* datagram are the element ADDR, and a datagram is one byte.              *)
(***************************************************************************)
EXTENDS Integers, Sequences, FiniteSets, FiniteSetsExt

CONSTANTS
  FD_SETSIZE,    \* sockets of a client, and of its handler (64)
  MaxRequests,   \* bound: request buffers of the client
  MaxObjs,       \* bound: sockets ever made
  MaxBytes,      \* bound: bytes sent over a connection, each way
  MaxFailures,   \* bound: requests rejected and connections lost
  MaxLookups,    \* bound: lookups of a host
  BufLens,       \* lengths of the buffers that recv is called with
  Programs,      \* client programs: the functions and kinds of sockets they
                 \* use, how many sockets and bytes of each connection
  Careful        \* the program closes no socket that has a request, and
                 \* uses sendto and recvfrom for datagram sockets only,
                 \* and only these; it makes no socket while it has one
                 \* that was lost with the connection

ASSUME SocketBounds ==
  /\ {FD_SETSIZE, MaxRequests, MaxObjs, MaxBytes} \subseteq Nat \ {0}
  /\ {MaxFailures, MaxLookups} \subseteq Nat
  /\ BufLens \subseteq Nat \ {0} /\ BufLens # {}
  /\ \A p \in Programs : p.objs \in 1 .. MaxObjs /\ p.bytes \in 1 .. MaxBytes
  /\ Careful \in BOOLEAN

VARIABLES
  program,   \* the client program
  sockets,   \* fd -> the SOCKENTRY of the client
  requests,  \* handle -> request buffer of the client
  call,      \* the API function the program is in
  wire,      \* requests on their way to the outside proxy
  table,     \* fd -> the ISocketProxy, in the handler
  objs,      \* the ISocketProxy objects, in the order of their creation,
             \* each with what goes over its connection
  failures,  \* requests rejected and connections lost
  objOf,     \* fd -> the object the client got it for
  severed,   \* objects that a failure took from the client or from the handler
  received,  \* object -> bytes that recv and recvfrom have returned
  sent       \* object -> bytes handed to send, and those it returned as sent

history    == <<objOf, received, sent>>
proxyVars  == <<table, objs>>
given      == <<program, failures, severed>>
socketVars == <<sockets, call, requests, wire, proxyVars, given, history>>

Fds     == 0 .. FD_SETSIZE - 1
Handles == 1 .. MaxRequests

NULL_REQUEST == 0
NULL     == 0     \* in table: no socket
RESERVED == -1    \* in table: reservingSocket
ADDR     == 0

Unused == [flags |-> {}, recvHandle |-> NULL_REQUEST,
           sendHandle |-> NULL_REQUEST, recvRemaining |-> 0]
Free   == [at |-> "free", cmd |-> "", fd |-> 0, data |-> <<>>, len |-> 0,
           obj |-> NULL, rc |-> "", newFd |-> 0]
NoCall == [fn |-> "none"]

SocketsInit ==
  /\ program \in Programs
  /\ sockets = [fd \in Fds |-> Unused]
  /\ requests = [h \in Handles |-> Free]
  /\ call = NoCall
  /\ wire = <<>>
  /\ table = [fd \in Fds |-> NULL]
  /\ objs = <<>>
  /\ failures = 0
  /\ severed = {}
  /\ objOf = [fd \in Fds |-> 0]
  /\ received = [o \in 0 .. MaxObjs |-> <<>>]
  /\ sent = [o \in 0 .. MaxObjs |-> [begun |-> 0, done |-> 0]]

-----------------------------------------------------------------------------
(* The client.                                                             *)

Idle == call = NoCall
Has(fd, flag) == flag \in sockets[fd].flags
Active(fd) == Has(fd, "ACTIVE")
isAvailable(h) == requests[h].at = "rcvd"

FreeHandles == {h \in Handles : requests[h].at = "free"}

(* nicofclt_createRequest, setRequestData and sendRequestTo.               *)
newSockRequest(h, cmd, fd, data, len) ==
  /\ h = Min(FreeHandles)
  /\ requests' = [requests EXCEPT ![h] =
       [Free EXCEPT !.at = "sent", !.cmd = cmd, !.fd = fd, !.data = data, !.len = len]]
  /\ wire' = Append(wire, h)

(* Calls that send a request and wait for its answer; bind and listen set  *)
(* F_INIT meanwhile, which nobody sees.                                    *)
startSync(fn, fd, data) ==
  /\ Idle
  /\ FreeHandles # {}
  /\ LET h == Min(FreeHandles)
     IN newSockRequest(h, fn, fd, data, 0) /\ call' = [fn |-> fn, fd |-> fd, h |-> h]
  /\ UNCHANGED <<proxyVars, given, history>>

(* A careful program closes its sockets after a loss of the connection     *)
(* before it makes others.                                                 *)
MayMake == Careful => \A fd \in Fds : Active(fd) => objOf[fd] \notin severed

socket(kind) ==
  /\ Len(objs) < program.objs
  /\ MayMake
  /\ startSync("socket", 0, <<kind>>)
  /\ UNCHANGED sockets

(* gethostbyname and gethostbyaddr.                                        *)
gethost ==
  /\ Cardinality({h \in Handles : requests[h].at # "free" /\ requests[h].cmd = "gethost"})
       < MaxLookups
  /\ startSync("gethost", 0, <<>>)
  /\ UNCHANGED sockets

(* The flags of the entry are cleared, its request handles are not.        *)
closesocket(fd) ==
  /\ Active(fd)
  /\ Careful => {sockets[fd].recvHandle, sockets[fd].sendHandle} = {NULL_REQUEST}
  /\ sockets' = [sockets EXCEPT ![fd].flags = {}]
  /\ startSync("closesocket", fd, <<>>)

bind(fd) ==
  /\ Active(fd)
  /\ ~Has(fd, "SERVER")
  /\ Has(fd, "DGRAM") \/ ~Has(fd, "CLIENT")
  /\ ~Has(fd, "INIT")
  /\ startSync("bind", fd, <<>>)
  /\ UNCHANGED sockets

listen(fd) ==
  /\ Active(fd)
  /\ ~Has(fd, "SERVER") /\ ~Has(fd, "CLIENT") /\ ~Has(fd, "INIT")
  /\ startSync("listen", fd, <<>>)
  /\ UNCHANGED sockets

shutdown(fd) ==
  /\ Active(fd)
  /\ Has(fd, "CLIENT") /\ ~Has(fd, "SERVER")
  /\ startSync("shutdown", fd, <<>>)
  /\ UNCHANGED sockets

(* getsockname and getpeername.                                            *)
getSockInfo(fd) ==
  /\ Active(fd)
  /\ startSync("getSockInfo", fd, <<>>)
  /\ UNCHANGED sockets

ioctlsocket(fd) ==
  /\ Idle
  /\ Active(fd)
  /\ \E f \in {sockets[fd].flags \cup {"NONBLOCK"}, sockets[fd].flags \ {"NONBLOCK"}} :
       sockets' = [sockets EXCEPT ![fd].flags = f]
  /\ UNCHANGED <<requests, wire, call, proxyVars, given, history>>

-----------------------------------------------------------------------------
(* Calls that may leave their request with the socket.                     *)

Sends    == {"send", "sendto"}
Receives == {"recv", "recvfrom"}

handleOf(fn) == IF fn \in Sends THEN "sendHandle" ELSE "recvHandle"

pendFlags(fn) ==
  CASE fn \in Receives  -> {"PENDRECV"}
    [] fn = "accept"    -> {"PENDACPT"}
    [] fn = "connect"   -> {"PENDCONN", "INIT"}
    [] OTHER            -> {}

InProgressOther(fd, flag) == sockets[fd].recvHandle # NULL_REQUEST /\ ~Has(fd, flag)

(* The checks at the start of each of them.                                *)
Refused(fn, fd) ==
  CASE fn = "connect"  -> Has(fd, "SERVER") \/ Has(fd, "CLIENT") \/ InProgressOther(fd, "PENDCONN")
    [] fn = "accept"   -> Has(fd, "CLIENT") \/ ~Has(fd, "SERVER") \/ InProgressOther(fd, "PENDACPT")
    [] fn \in Receives -> Has(fd, "SERVER") \/ ~Has(fd, "CLIENT") \/ InProgressOther(fd, "PENDRECV")
    [] OTHER           -> Has(fd, "SERVER") \/ ~Has(fd, "CLIENT")

(* Of a careful program: datagrams with sendto and recvfrom.               *)
Proper(fn, fd) ==
  Careful /\ fn \in Sends \cup Receives => (fn \in {"sendto", "recvfrom"} <=> Has(fd, "DGRAM"))

Accepted(fn, fd) == Idle /\ Active(fd) /\ ~Refused(fn, fd) /\ Proper(fn, fd)

(* Slip: a call that does not wait leaves no handle with the socket.       *)
begin_forgets(fn, fd, data, len, block, callAfter) ==
  /\ sockets[fd][handleOf(fn)] = NULL_REQUEST
  /\ FreeHandles # {}
  /\ LET h == Min(FreeHandles)
     IN /\ newSockRequest(h, fn, fd, data, len)
        /\ call' = IF block THEN [fn |-> fn, fd |-> fd, h |-> h, len |-> len] ELSE callAfter
        /\ UNCHANGED sockets
  /\ UNCHANGED <<proxyVars, given>>

(* No request is under way: one is sent, and left with the socket if the   *)
(* call must not block.                                                    *)
begin(fn, fd, data, len, block, callAfter) ==
  /\ sockets[fd][handleOf(fn)] = NULL_REQUEST
  /\ FreeHandles # {}
  /\ LET h == Min(FreeHandles)
     IN /\ newSockRequest(h, fn, fd, data, len)
        /\ call' = IF block THEN [fn |-> fn, fd |-> fd, h |-> h, len |-> len] ELSE callAfter
        /\ sockets' = IF block THEN sockets
                      ELSE [sockets EXCEPT ![fd][handleOf(fn)] = h,
                                           ![fd].flags = @ \cup pendFlags(fn)]
  /\ UNCHANGED <<proxyVars, given>>

startAsync(fn, fd, data, len) ==
  /\ Accepted(fn, fd)
  /\ begin(fn, fd, data, len, ~Has(fd, "NONBLOCK"), NoCall)

connect(fd) == startAsync("connect", fd, <<>>, 0) /\ UNCHANGED history

accept(fd) == startAsync("accept", fd, <<>>, 0) /\ UNCHANGED history

(* send and sendto, of one byte each.                                      *)
send(fn, fd) ==
  /\ sent[objOf[fd]].begun < program.bytes
  /\ startAsync(fn, fd, <<sent[objOf[fd]].begun + 1>>, 1)
  /\ sent' = [sent EXCEPT ![objOf[fd]].begun = @ + 1]
  /\ UNCHANGED <<objOf, received>>

recv(fn, fd, len) ==
  /\ startAsync(fn, fd, <<>>, len)
  /\ UNCHANGED history

(* Slip: the handle stays with the socket.                                 *)
resume_keepsHandle(fn, fd, len) ==
  /\ Accepted(fn, fd)
  /\ sockets[fd][handleOf(fn)] # NULL_REQUEST
  /\ Has(fd, "NONBLOCK") => isAvailable(sockets[fd][handleOf(fn)])
  /\ call' = [fn |-> fn, fd |-> fd, h |-> sockets[fd][handleOf(fn)], len |-> len]
  /\ UNCHANGED <<sockets, requests, wire, proxyVars, given, history>>

(* Slip: the flag of the pending operation stays set.                      *)
resume_keepsFlags(fn, fd, len) ==
  /\ Accepted(fn, fd)
  /\ sockets[fd][handleOf(fn)] # NULL_REQUEST
  /\ Has(fd, "NONBLOCK") => isAvailable(sockets[fd][handleOf(fn)])
  /\ call' = [fn |-> fn, fd |-> fd, h |-> sockets[fd][handleOf(fn)], len |-> len]
  /\ sockets' = [sockets EXCEPT ![fd][handleOf(fn)] = NULL_REQUEST]
  /\ UNCHANGED <<requests, wire, proxyVars, given, history>>

(* A request is under way: the call waits for its answer; a non-blocking   *)
(* one only if it is there.                                                *)
resume(fn, fd, len) ==
  /\ Accepted(fn, fd)
  /\ sockets[fd][handleOf(fn)] # NULL_REQUEST
  /\ Has(fd, "NONBLOCK") => isAvailable(sockets[fd][handleOf(fn)])
  /\ call' = [fn |-> fn, fd |-> fd, h |-> sockets[fd][handleOf(fn)], len |-> len]
  /\ sockets' = [sockets EXCEPT ![fd][handleOf(fn)] = NULL_REQUEST,
                                ![fd].flags = @ \ pendFlags(fn)]
  /\ UNCHANGED <<requests, wire, proxyVars, given, history>>

-----------------------------------------------------------------------------
(* The answer is there: the rest of the calls that wait.                   *)

Answered == ~Idle /\ call.fn # "selectX" /\ isAvailable(call.h)
Answer   == requests[call.h]
OK       == Answer.rc = "EOK"

freeRequest == requests' = [requests EXCEPT ![call.h] = Free]

return == call' = NoCall /\ UNCHANGED <<wire, proxyVars, given>>

(* Slip: after an error the request is not freed.                          *)
returnOnly_keeps ==
  /\ Answered
  /\ ~OK \/ call.fn \in {"closesocket", "bind", "shutdown", "getSockInfo"}
  /\ IF OK THEN freeRequest ELSE requests' = [requests EXCEPT ![call.h].at = "rtrn"]
  /\ UNCHANGED <<sockets, history>>
  /\ return

(* An error, or nothing but the return code.                               *)
returnOnly ==
  /\ Answered
  /\ ~OK \/ call.fn \in {"closesocket", "bind", "shutdown", "getSockInfo"}
  /\ freeRequest
  /\ UNCHANGED <<sockets, history>>
  /\ return

(* On success the request of doGetHost is not freed.                       *)
endGetHost ==
  /\ Answered /\ OK /\ call.fn = "gethost"
  /\ requests' = [requests EXCEPT ![call.h].at = "rtrn"]
  /\ UNCHANGED <<sockets, history>>
  /\ return

Became(fd, entry) ==
  /\ sockets' = [sockets EXCEPT ![fd] = entry]
  /\ objOf' = [objOf EXCEPT ![fd] = Answer.obj]
  /\ UNCHANGED <<received, sent>>
  /\ freeRequest
  /\ return

endSocket ==
  /\ Answered /\ OK /\ call.fn = "socket"
  /\ Became(Answer.newFd,
       [Unused EXCEPT !.flags = IF Answer.data = <<"dgram">> THEN {"ACTIVE", "DGRAM", "CLIENT"}
                                ELSE {"ACTIVE"}])

(* Of the entry only the flags are set.                                    *)
endAccept ==
  /\ Answered /\ OK /\ call.fn = "accept"
  /\ Became(Answer.newFd, [sockets[Answer.newFd] EXCEPT !.flags = {"ACTIVE", "CLIENT"}])

endConnect ==
  /\ Answered /\ OK /\ call.fn \in {"connect", "listen"}
  /\ sockets' = [sockets EXCEPT ![call.fd].flags =
       @ \cup {IF call.fn = "connect" THEN "CLIENT" ELSE "SERVER"}]
  /\ freeRequest
  /\ UNCHANGED history
  /\ return

endSend ==
  /\ Answered /\ OK /\ call.fn \in Sends
  /\ sent' = [sent EXCEPT ![objOf[call.fd]].done = @ + 1]
  /\ freeRequest
  /\ UNCHANGED <<sockets, objOf, received>>
  /\ return

Least(a, b) == IF a < b THEN a ELSE b

Deliver(bytes) ==
  /\ received' = [received EXCEPT ![objOf[call.fd]] = @ \o bytes]
  /\ UNCHANGED <<objOf, sent>>

(* What does not fit into the caller's buffer stays in the request buffer. *)
(* (The part of recv that would hand out the rest is never reached: with a *)
(* handle and without F_PENDRECV recv is refused.)                         *)
endRecv ==
  /\ Answered /\ OK /\ call.fn = "recv"
  /\ LET n == Least(call.len, Len(Answer.data))
     IN /\ Deliver(SubSeq(Answer.data, 1, n))
        /\ IF n < Len(Answer.data)
           THEN /\ sockets' = [sockets EXCEPT
                     ![call.fd].recvHandle = call.h,
                     ![call.fd].recvRemaining = Len(Answer.data) - n]
                /\ requests' = [requests EXCEPT ![call.h].at = "rtrn"]
           ELSE UNCHANGED sockets /\ freeRequest
  /\ return

(* The sender address is taken off; without one it is ECONNRESET.          *)
endRecvfrom ==
  /\ Answered /\ OK /\ call.fn = "recvfrom"
  /\ Deliver(SubSeq(Answer.data, 2, Least(call.len + 1, Len(Answer.data))))
  /\ freeRequest
  /\ UNCHANGED sockets
  /\ return

-----------------------------------------------------------------------------
(* selectX: a look at each socket, which starts a receive or an accept if  *)
(* none is under way, then the wait, then a second look.  A request is     *)
(* watched if its filter tag is that of this call.                         *)

selectX(rd, wr, timeout) ==
  /\ Idle
  /\ Careful => \A fd \in rd : ~Has(fd, "DGRAM")
  /\ call' = [fn |-> "selectX", rd |-> rd, wr |-> wr, timeout |-> timeout,
              i |-> 0, watched |-> {}, noWait |-> FALSE]
  /\ UNCHANGED <<sockets, requests, wire, proxyVars, given, history>>

Selecting == call.fn = "selectX"
Scanning  == Selecting /\ call.i < FD_SETSIZE
Entry     == sockets[call.i]

mustStart ==
  /\ Active(call.i)
  /\ call.i \in call.rd
  /\ Entry.recvHandle = NULL_REQUEST
  /\ Has(call.i, "SERVER") \/ Has(call.i, "CLIENT")

(* accept(i, NULL, NULL) or recv(i, NULL, 2048, 0) with F_NBSELECT set;    *)
(* its request is found by the look that follows.                          *)
selectStart ==
  /\ Scanning
  /\ mustStart
  /\ begin(IF Has(call.i, "SERVER") THEN "accept" ELSE "recv",
           call.i, <<>>, program.bytes, FALSE, call)
  /\ UNCHANGED history

(* The handles looked at for reading and for writing.  A socket to write   *)
(* to has noWait set by the answer to its receive, not to its send.        *)
selectLook ==
  /\ Scanning
  /\ ~mustStart
  /\ LET rd == IF Active(call.i)
                 /\ (call.i \in call.rd \/ (call.i \in call.wr /\ Has(call.i, "PENDCONN")))
               THEN {Entry.recvHandle} \ {NULL_REQUEST} ELSE {}
         wr == IF Active(call.i) /\ call.i \in call.wr
               THEN {Entry.sendHandle} \ {NULL_REQUEST} ELSE {}
     IN call' = [call EXCEPT
          !.i = @ + 1,
          !.watched = @ \cup rd \cup wr,
          !.noWait = \/ @
                     \/ \E h \in rd : isAvailable(h)
                     \/ call.i \in call.rd /\ rd # {} /\ Entry.recvRemaining > 0
                     \/ wr # {} /\ Entry.recvHandle # NULL_REQUEST /\ isAvailable(Entry.recvHandle)]
  /\ UNCHANGED <<sockets, requests, wire, proxyVars, given, history>>

(* The fds with a watched answer, in rd_fds_out or wr_fds_out.             *)
Reported ==
  {fd \in Fds : Active(fd) /\ \E h \in {sockets[fd].recvHandle, sockets[fd].sendHandle} :
                                h \in call.watched /\ isAvailable(h)}

(* Slip: without a timeout and without anything to watch it waits.         *)
selectEnd_waitsForNothing ==
  /\ Selecting /\ ~Scanning
  /\ call.noWait \/ call.timeout \/ \E h \in call.watched : isAvailable(h)
  /\ call' = NoCall
  /\ UNCHANGED <<sockets, requests, wire, proxyVars, given, history>>

selectEnd ==
  /\ Selecting /\ ~Scanning
  /\ \/ call.watched = {}
     \/ call.noWait
     \/ call.timeout
     \/ \E h \in call.watched : isAvailable(h)
  /\ call' = NoCall
  /\ UNCHANGED <<sockets, requests, wire, proxyVars, given, history>>

-----------------------------------------------------------------------------
(* The socket service of the outside proxy.                                *)

FreeNumbers == {fd \in Fds : table[fd] = NULL}

newObj(kind, st) ==
  [kind |-> kind, st |-> st, peer |-> 0, read |-> 0, fin |-> FALSE, out |-> <<>>]

clientStays == UNCHANGED <<sockets, call, given, history>>

(* The response is ready to be sent.                                       *)
respond(h, rc) == requests' = [requests EXCEPT ![h].at = "done", ![h].rc = rc]

respondWith(h, data) ==
  requests' = [requests EXCEPT ![h].at = "done", ![h].rc = "EOK", ![h].data = data]

respondNew(h, fd, obj) ==
  requests' = [requests EXCEPT ![h].at = "done", ![h].rc = "EOK",
                               ![h].newFd = fd, ![h].obj = obj]

onlyRc(h, rc) == respond(h, rc) /\ UNCHANGED proxyVars

(* CMD_ALLOCSOCKET.                                                        *)
allocSocket(h) ==
  \/ FreeNumbers = {} /\ onlyRc(h, "EMFILE")
  \/ /\ FreeNumbers # {}
     /\ objs' = Append(objs, newObj(requests[h].data[1], "new"))
     /\ table' = [table EXCEPT ![Min(FreeNumbers)] = Len(objs) + 1]
     /\ respondNew(h, Min(FreeNumbers), Len(objs) + 1)

(* Slip: no number is reserved for the connection that is waited for.      *)
acceptWorker_reservesNothing(h) ==
  /\ FreeNumbers # {}
  /\ UNCHANGED table
  /\ requests' = [requests EXCEPT ![h].at = "working", ![h].obj = table[requests[h].fd],
                                  ![h].newFd = Min(FreeNumbers)]

(* CMD_ACCEPT takes the number of the connection that is waited for.       *)
acceptWorker(h) ==
  /\ FreeNumbers # {}
  /\ table' = [table EXCEPT ![Min(FreeNumbers)] = RESERVED]
  /\ requests' = [requests EXCEPT ![h].at = "working", ![h].obj = table[requests[h].fd],
                                  ![h].newFd = Min(FreeNumbers)]

socketWorker(h) ==
  /\ requests' = [requests EXCEPT ![h].at = "working", ![h].obj = table[requests[h].fd]]
  /\ UNCHANGED table

(* gethostbyname and gethostbyaddr need no socket.                         *)
resolve(h) == \E rc \in {"EOK", "HOST_NOT_FOUND"} : onlyRc(h, rc)

getRequestHandler ==
  /\ wire # <<>>
  /\ wire' = Tail(wire)
  /\ LET h == Head(wire)
         cmd == requests[h].cmd
         sock == table[requests[h].fd]
     IN \/ cmd = "socket" /\ allocSocket(h)
        \/ cmd = "gethost" /\ resolve(h)
        \/ /\ cmd \notin {"socket", "gethost"}
           /\ \/ sock = NULL /\ onlyRc(h, "ENOTSOCK")
              \/ sock # NULL /\ cmd = "accept" /\ FreeNumbers = {} /\ onlyRc(h, "EMFILE")
              \/ sock # NULL /\ cmd = "accept" /\ acceptWorker(h) /\ UNCHANGED objs
              \/ sock # NULL /\ cmd # "accept" /\ socketWorker(h) /\ UNCHANGED objs
  /\ clientStays

-----------------------------------------------------------------------------
(* SocketProxyHandler.run, by command.  All errors are one, "ERROR".       *)

Working(h, cmd) == requests[h].at = "working" /\ requests[h].cmd = cmd

(* A number that is only reserved answers every command with an error.     *)
Obj(h) == IF requests[h].obj = RESERVED THEN newObj("reserved", "closed")
          ELSE objs[requests[h].obj]

becomes(h, o) == objs' = [objs EXCEPT ![requests[h].obj] = o] /\ UNCHANGED table

isDgram(o) == o.kind = "dgram" /\ o.st # "closed"
Open(o)    == isDgram(o) \/ o.st = "conn"
Ended(o)   == o.fin /\ o.read = o.peer

(* recv waits for data and reads at most the length asked for.             *)
runRecv(h) ==
  /\ Working(h, "recv")
  /\ LET o == Obj(h)
         max == IF isDgram(o) THEN 1 ELSE requests[h].len
     IN \/ (~Open(o) \/ Ended(o)) /\ onlyRc(h, "ERROR")
        \/ /\ Open(o)
           /\ \E n \in 1 .. max :
                /\ o.read + n <= o.peer
                /\ becomes(h, [o EXCEPT !.read = @ + n])
                /\ respondWith(h, [k \in 1 .. n |-> o.read + k])

runRecvfrom(h) ==
  /\ Working(h, "recvfrom")
  /\ LET o == Obj(h)
     IN \/ ~isDgram(o) /\ onlyRc(h, "ERROR")
        \/ /\ isDgram(o)
           /\ o.read < o.peer
           /\ becomes(h, [o EXCEPT !.read = @ + 1])
           /\ respondWith(h, <<ADDR, o.read + 1>>)

(* send needs a connection, sendTo a datagram socket.                      *)
runSend(h) ==
  /\ Working(h, "send") \/ Working(h, "sendto")
  /\ LET o == Obj(h)
         can == IF requests[h].cmd = "send" THEN o.st = "conn" ELSE isDgram(o)
     IN \/ (~can \/ o.fin) /\ onlyRc(h, "ERROR")
        \/ /\ can
           /\ becomes(h, [o EXCEPT !.out = @ \o requests[h].data])
           /\ respond(h, "EOK")

runConnect(h) ==
  /\ Working(h, "connect")
  /\ LET o == Obj(h)
     IN \/ onlyRc(h, "ERROR")
        \/ /\ isDgram(o) \/ o.st \in {"new", "bound"}
           /\ becomes(h, [o EXCEPT !.st = "conn"])
           /\ respond(h, "EOK")

Receiving(o) == {h \in Handles : /\ requests[h].at = "working"
                                 /\ requests[h].obj = o
                                 /\ requests[h].cmd \in Receives}

(* A datagram socket is replaced by a new one, if the address is another;  *)
(* the old one is closed, with what has arrived there.                     *)
runBind(h) ==
  /\ Working(h, "bind")
  /\ LET o == Obj(h)
     IN \/ onlyRc(h, "ERROR")
        \/ isDgram(o) /\ onlyRc(h, "EOK")
        \/ /\ isDgram(o)
           /\ becomes(h, [o EXCEPT !.read = o.peer])
           /\ requests' = [g \in Handles |->
                IF g = h THEN [requests[g] EXCEPT !.at = "done", !.rc = "EOK"]
                ELSE IF g \in Receiving(requests[h].obj)
                THEN [requests[g] EXCEPT !.at = "done", !.rc = "ERROR"]
                ELSE requests[g]]
        \/ /\ o.st \in {"new", "bound"} /\ o.kind = "stream"
           /\ becomes(h, [o EXCEPT !.st = "bound"])
           /\ respond(h, "EOK")

runListen(h) ==
  /\ Working(h, "listen")
  /\ LET o == Obj(h)
     IN \/ onlyRc(h, "ERROR")
        \/ /\ o.st = "bound"
           /\ becomes(h, [o EXCEPT !.st = "server"])
           /\ respond(h, "EOK")

(* The bound on sockets leaves room for the one that is asked for.         *)
RoomForOne ==
  Len(objs) + (IF \E h \in Handles : requests[h].at = "sent" /\ requests[h].cmd = "socket"
               THEN 1 ELSE 0) < program.objs

(* A connection comes in, or the wait for one ends with an error.          *)
runAccept(h) ==
  /\ Working(h, "accept")
  /\ LET fd == requests[h].newFd
     IN \/ /\ Obj(h).st = "server"
           /\ RoomForOne
           /\ objs' = Append(objs, newObj("stream", "conn"))
           /\ table' = [table EXCEPT ![fd] = Len(objs) + 1]
           /\ respondNew(h, fd, Len(objs) + 1)
        \/ /\ Obj(h).st # "server"
           /\ table' = [table EXCEPT ![fd] = NULL]
           /\ respond(h, "ERROR")
           /\ UNCHANGED objs

runClose(h) ==
  /\ Working(h, "closesocket")
  /\ table' = [table EXCEPT ![requests[h].fd] = NULL]
  /\ objs' = IF requests[h].obj = RESERVED THEN objs
             ELSE [objs EXCEPT ![requests[h].obj].st = "closed"]
  /\ respond(h, IF requests[h].obj = RESERVED THEN "ERROR" ELSE "EOK")

(* The stream of one direction is closed, and with it the Java socket.     *)
runShutdown(h) ==
  /\ Working(h, "shutdown")
  /\ LET o == Obj(h)
     IN \/ ~Open(o) /\ o.st # "shut" /\ onlyRc(h, "ERROR")
        \/ (isDgram(o) \/ o.st = "shut") /\ onlyRc(h, "EOK")
        \/ /\ o.kind = "stream" /\ o.st = "conn"
           /\ becomes(h, [o EXCEPT !.st = "shut"])
           /\ respond(h, "EOK")

runSockInfo(h) ==
  /\ Working(h, "getSockInfo")
  /\ \E rc \in {"EOK", "ERROR"} : onlyRc(h, rc)

run(h) ==
  /\ \/ runRecv(h) \/ runRecvfrom(h) \/ runSend(h) \/ runConnect(h) \/ runBind(h)
     \/ runListen(h) \/ runAccept(h) \/ runClose(h) \/ runShutdown(h) \/ runSockInfo(h)
  /\ UNCHANGED wire
  /\ clientStays

-----------------------------------------------------------------------------
(* The link between the two, and the other ends of the connections.        *)

(* The response reaches the client (external: the link, in any order).     *)
deliver(h) ==
  /\ requests[h].at = "done"
  /\ requests' = [requests EXCEPT ![h].at = "rcvd"]
  /\ UNCHANGED <<wire, proxyVars>>
  /\ clientStays

(* The inside proxy rejects a request, e.g. for the lack of a slot.        *)
reject(h) ==
  /\ failures < MaxFailures
  /\ failures' = failures + 1
  /\ requests[h].at = "sent"
  /\ \E i \in DOMAIN wire :
       wire[i] = h /\ wire' = SubSeq(wire, 1, i - 1) \o SubSeq(wire, i + 1, Len(wire))
  /\ requests' = [requests EXCEPT ![h].at = "rcvd", ![h].rc = "REJECT"]
  /\ severed' = IF requests[h].cmd = "closesocket" THEN severed \cup {objOf[requests[h].fd]}
                ELSE severed
  /\ UNCHANGED <<program, sockets, call, proxyVars, history>>

Underway == {h \in Handles : requests[h].at \in {"sent", "working", "done"}}

(* The connection to the host is lost: the inside proxy rejects what it    *)
(* has, the sockets are dropped, and the next handler starts without any.  *)
reconnect ==
  /\ failures < MaxFailures
  /\ failures' = failures + 1
  /\ wire' = <<>>
  /\ requests' = [h \in Handles |->
       IF h \in Underway THEN [requests[h] EXCEPT !.at = "rcvd", !.rc = "REJECT"]
       ELSE requests[h]]
  /\ table' = [fd \in Fds |-> NULL]
  /\ objs' = [o \in DOMAIN objs |-> [objs[o] EXCEPT !.st = "closed"]]
  /\ severed' = DOMAIN objs
  /\ UNCHANGED <<program, sockets, call, history>>

peerSends(o) ==
  /\ Open(objs[o])
  /\ ~objs[o].fin
  /\ objs[o].peer < program.bytes
  /\ objs' = [objs EXCEPT ![o].peer = @ + 1]
  /\ UNCHANGED <<requests, wire, table>>
  /\ clientStays

peerCloses(o) ==
  /\ objs[o].kind = "stream" /\ objs[o].st = "conn" /\ ~objs[o].fin
  /\ objs' = [objs EXCEPT ![o].fin = TRUE]
  /\ UNCHANGED <<requests, wire, table>>
  /\ clientStays

-----------------------------------------------------------------------------
SocketCall(fd) ==
  \/ "closesocket" \in program.uses /\ closesocket(fd)
  \/ "bind" \in program.uses /\ bind(fd)
  \/ "listen" \in program.uses /\ listen(fd)
  \/ "shutdown" \in program.uses /\ shutdown(fd)
  \/ "getSockInfo" \in program.uses /\ getSockInfo(fd)
  \/ "ioctlsocket" \in program.uses /\ ioctlsocket(fd)
  \/ "connect" \in program.uses /\ (connect(fd) \/ resume("connect", fd, 0))
  \/ "accept" \in program.uses /\ (accept(fd) \/ resume("accept", fd, 0))
  \/ \E fn \in Sends \cap program.uses : send(fn, fd) \/ resume(fn, fd, 0)
  \/ \E fn \in Receives \cap program.uses, len \in BufLens : recv(fn, fd, len) \/ resume(fn, fd, len)

Call ==
  \/ \E kind \in {"stream", "dgram"} \cap program.uses : socket(kind)
  \/ "gethost" \in program.uses /\ gethost
  \/ \E fd \in Fds : SocketCall(fd)
  \/ /\ "selectX" \in program.uses
     /\ \E rd, wr \in SUBSET {fd \in Fds : Active(fd)}, timeout \in BOOLEAN : selectX(rd, wr, timeout)

Continue ==
  \/ returnOnly \/ endGetHost \/ endSocket \/ endAccept \/ endConnect
  \/ endSend \/ endRecv \/ endRecvfrom
  \/ selectStart \/ selectLook \/ selectEnd

Proxy == getRequestHandler \/ \E h \in Handles : run(h) \/ deliver(h)

Environment ==
  \/ \E h \in Handles : reject(h)
  \/ reconnect
  \/ \E o \in DOMAIN objs : peerSends(o) \/ peerCloses(o)

SocketsNext == Call \/ Continue \/ Proxy \/ Environment

SocketsSpec == SocketsInit /\ [][SocketsNext]_socketVars

(* The program continues a call as soon as it can, every thread of the     *)
(* outside proxy gets on, and the link delivers what it does not lose.     *)
(* Nothing is assumed of the peers.                                        *)
SocketsFairSpec ==
  /\ SocketsSpec
  /\ WF_socketVars(Continue)
  /\ WF_socketVars(getRequestHandler)
  /\ \A h \in Handles : WF_socketVars(run(h) \/ deliver(h))

-----------------------------------------------------------------------------
Flags == {"ACTIVE", "DGRAM", "CLIENT", "SERVER", "INIT", "NONBLOCK",
          "PENDCONN", "PENDACPT", "PENDRECV"}

(* The state of the client and of the handler is well-formed, and a socket *)
(* with a flag for a pending operation has the handle of its request.      *)
SocketsTypeOK ==
  /\ \A fd \in Fds :
       /\ sockets[fd].flags \subseteq Flags
       /\ sockets[fd].flags \cap {"PENDCONN", "PENDACPT", "PENDRECV"} # {}
            => sockets[fd].recvHandle # NULL_REQUEST
       /\ {sockets[fd].recvHandle, sockets[fd].sendHandle} \subseteq Handles \cup {NULL_REQUEST}
       /\ sockets[fd].recvRemaining \in 0 .. MaxBytes
       /\ table[fd] \in {NULL, RESERVED} \cup DOMAIN objs
       /\ objOf[fd] \in {0} \cup DOMAIN objs
  /\ \A h \in Handles :
       /\ requests[h].at \in {"free", "sent", "working", "done", "rcvd", "rtrn"}
       /\ requests[h].obj \in {NULL, RESERVED} \cup DOMAIN objs
       /\ requests[h].newFd \in Fds
  /\ Len(objs) <= MaxObjs
  /\ failures \in 0 .. MaxFailures

(* recv returns the bytes of a connection in the order in which the peer   *)
(* sent them, each once and none left out (ncfsockt.c recv, with one       *)
(* receive at a time because of recvHandle); recvfrom returns no datagram  *)
(* twice or before an earlier one.                                         *)
ReceivedInOrder ==
  \A o \in DOMAIN objs :
    \A i \in DOMAIN received[o] :
      /\ received[o][i] \in 1 .. objs[o].read
      /\ objs[o].kind = "stream" => received[o][i] = i
      /\ i > 1 => received[o][i - 1] < received[o][i]

(* The bytes go out to the peer in the order of the sends, although each   *)
(* send is carried out by a worker thread of its own, and a send that      *)
(* returns the number of bytes transmitted has transmitted them over the   *)
(* connection of its socket.                                               *)
SentInOrder ==
  \A o \in DOMAIN objs :
    LET out == objs[o].out
    IN /\ \A i, j \in DOMAIN out : i < j => out[i] < out[j]
       /\ sent[o].done <= Len(out)

(* The handle of an answer the client has not yet looked at.               *)
Ungathered(o) ==
  \E h \in Handles : /\ requests[h].at \in {"done", "rcvd"}
                     /\ requests[h].cmd \in {"socket", "accept"}
                     /\ requests[h].rc = "EOK"
                     /\ requests[h].obj = o

Closing(fd) == ~Idle /\ call.fn = "closesocket" /\ call.fd = fd

(* Client and handler mean the same socket by a number: the number of a    *)
(* socket in use is that of its object, and an object in the table belongs *)
(* to a socket in use, to one that is being closed or to one whose number  *)
(* is on its way; unless a failure has separated the two.                  *)
NumbersMatch ==
  /\ \A fd \in Fds : Active(fd) /\ objOf[fd] \notin severed => table[fd] = objOf[fd]
  /\ \A fd \in Fds :
       table[fd] \in DOMAIN objs \ severed =>
         \/ objOf[fd] = table[fd] /\ (Active(fd) \/ Closing(fd))
         \/ Ungathered(table[fd])

(* Of the request buffers that are not free, each is that of the call the  *)
(* program is in or is left with a socket in use (for the next call to     *)
(* pick up); only the lookups of hosts leave buffers behind.               *)
NoLeakedRequest ==
  \A h \in Handles : requests[h].at # "free" =>
    \/ ~Idle /\ call.fn # "selectX" /\ call.h = h
    \/ \E fd \in Fds : Active(fd) /\ h \in {sockets[fd].recvHandle, sockets[fd].sendHandle}
    \/ requests[h].cmd = "gethost"

(* A call waits for the answer to a request of its own kind, sent for the  *)
(* socket it was called with.                                              *)
OwnResponse ==
  ~Idle /\ call.fn # "selectX" =>
    /\ requests[call.h].at \notin {"free", "rtrn"}
    /\ requests[call.h].cmd = call.fn
    /\ requests[call.h].fd = call.fd
    /\ (requests[call.h].at = "working" /\ call.fn # "closesocket" /\ objOf[call.fd] \notin severed)
         => requests[call.h].obj = objOf[call.fd]

(* What a recv with a small buffer has left in the request buffer, a later *)
(* recv can get: it is not refused.                                        *)
RemainingIsReadable ==
  \A fd \in Fds : Active(fd) /\ sockets[fd].recvRemaining > 0 => ~Refused("recv", fd)

(* The request is with a worker that waits for a peer.                     *)
AwaitsPeer(h) ==
  /\ requests[h].at = "working"
  /\ \/ requests[h].cmd \in Receives /\ Open(Obj(h)) /\ Obj(h).read = Obj(h).peer /\ ~Obj(h).fin
     \/ requests[h].cmd = "accept" /\ Obj(h).st = "server"

(* No call hangs for another reason than the silence of a peer: whatever   *)
(* fails or is closed meanwhile, each call comes to its end or waits for   *)
(* data or a connection that is not there.                                 *)
CallReturns ==
  []<>\/ Idle
      \/ call.fn # "selectX" /\ AwaitsPeer(call.h)
      \/ /\ call.fn = "selectX" /\ call.watched # {}
         /\ \A h \in call.watched : AwaitsPeer(h)
-----------------------------------------------------------------------------
(* The inductive invariant, of a careful program.                          *)

SyncFns  == {"socket", "gethost", "closesocket", "bind", "listen", "shutdown", "getSockInfo"}
AsyncFns == {"connect", "accept"} \cup Sends \cup Receives

Entries ==
  [flags : SUBSET Flags, recvHandle : Handles \cup {NULL_REQUEST},
   sendHandle : Handles \cup {NULL_REQUEST}, recvRemaining : 0 .. MaxBytes]

Kinds == {<<"stream">>, <<"dgram">>}
Data  == Seq(Nat) \cup Kinds
Codes == {"", "EOK", "ERROR", "EMFILE", "ENOTSOCK", "HOST_NOT_FOUND", "REJECT"}

Buffers ==
  [at : {"free", "sent", "working", "done", "rcvd", "rtrn"}, cmd : {""} \cup SyncFns \cup AsyncFns,
   fd : Fds, data : Data, len : Nat,
   obj : {NULL, RESERVED} \cup DOMAIN objs, rc : Codes, newFd : Fds]

Objects ==
  [kind : {"stream", "dgram"}, st : {"new", "bound", "server", "conn", "shut", "closed"},
   peer : 0 .. MaxBytes, read : 0 .. MaxBytes, fin : BOOLEAN, out : Seq(Nat)]

Calls ==
  {NoCall}
    \cup [fn : SyncFns, fd : Fds, h : Handles]
    \cup [fn : AsyncFns, fd : Fds, h : Handles, len : Nat]
    \cup [fn : {"selectX"}, rd : SUBSET Fds, wr : SUBSET Fds, timeout : BOOLEAN,
          i : 0 .. FD_SETSIZE, watched : SUBSET Handles, noWait : BOOLEAN]

ValuesOK ==
  /\ program \in Programs
  /\ sockets \in [Fds -> Entries]
  /\ requests \in [Handles -> Buffers]
  /\ call \in Calls
  /\ wire \in Seq(Handles)
  /\ table \in [Fds -> {NULL, RESERVED} \cup DOMAIN objs]
  /\ objs \in Seq(Objects)
  /\ failures \in 0 .. MaxFailures
  /\ severed \subseteq DOMAIN objs
  /\ objOf \in [Fds -> {0} \cup DOMAIN objs]
  /\ received \in [0 .. MaxObjs -> Seq(Nat)]
  /\ sent \in [0 .. MaxObjs -> [begun : Nat, done : Nat]]

(* The number of sockets stays in its bound, with the one asked for.       *)
Asking == \E h \in Handles : requests[h].at = "sent" /\ requests[h].cmd = "socket"

ObjsBounded == Len(objs) <= program.objs /\ (Asking => Len(objs) < program.objs)

(* Requests.                                                               *)

WaitsFor(h) == call.fn \in SyncFns \cup AsyncFns /\ call.h = h

(* A request on its way is there once.                                     *)
WireOK ==
  /\ \A i \in DOMAIN wire : requests[wire[i]].at = "sent"
  /\ \A i, j \in DOMAIN wire : wire[i] = wire[j] => i = j

(* A handle is held by one socket, for one purpose, or by the call.        *)
OneHolder ==
  /\ \A fd \in Fds : WaitsFor(sockets[fd].recvHandle) => FALSE
  /\ \A fd \in Fds : WaitsFor(sockets[fd].sendHandle) => FALSE
  /\ \A a, b \in Fds :
       /\ sockets[a].recvHandle = sockets[b].recvHandle
            => a = b \/ sockets[a].recvHandle = NULL_REQUEST
       /\ sockets[a].sendHandle = sockets[b].sendHandle
            => a = b \/ sockets[a].sendHandle = NULL_REQUEST
       /\ sockets[a].recvHandle = sockets[b].sendHandle
            => sockets[a].recvHandle = NULL_REQUEST

(* What a call waits for.  Its socket has no other request for the purpose *)
(* of the call.                                                            *)
CallOK ==
  call.fn \in SyncFns \cup AsyncFns =>
    /\ requests[call.h].at \notin {"free", "rtrn"}
    /\ requests[call.h].cmd = call.fn
    /\ requests[call.h].fd = call.fd
    /\ call.fn \notin {"socket", "gethost", "closesocket"} => Active(call.fd)
    /\ call.fn = "closesocket" => ~Active(call.fd)
    /\ call.fn \in AsyncFns =>
         IF call.fn \in Sends THEN sockets[call.fd].sendHandle = NULL_REQUEST
         ELSE sockets[call.fd].recvHandle = NULL_REQUEST
    /\ call.fn \in Sends \cup Receives =>
         (call.fn \in {"sendto", "recvfrom"} <=> Has(call.fd, "DGRAM"))

SelectOK == Selecting => \A fd \in call.rd : Active(fd) /\ ~Has(fd, "DGRAM")

Pending(fd) == sockets[fd].flags \cap {"PENDCONN", "PENDACPT", "PENDRECV"}

(* The request a socket holds for connect, accept and the receives.        *)
RecvHandleOK(fd) ==
  LET h == sockets[fd].recvHandle
  IN IF h = NULL_REQUEST THEN Pending(fd) = {}
     ELSE /\ Active(fd)
          /\ requests[h].fd = fd
          /\ requests[h].at # "free"
          /\ requests[h].cmd \in {"connect", "accept", "recv", "recvfrom"}
          /\ requests[h].at = "rtrn" => Pending(fd) = {} /\ requests[h].cmd = "recv"
          /\ "PENDCONN" \in Pending(fd) => requests[h].cmd = "connect"
          /\ "PENDACPT" \in Pending(fd) => requests[h].cmd = "accept"
          /\ "PENDRECV" \in Pending(fd) => requests[h].cmd \in Receives
          /\ requests[h].cmd \in Receives => (requests[h].cmd = "recvfrom" <=> Has(fd, "DGRAM"))

SendHandleOK(fd) ==
  LET h == sockets[fd].sendHandle
  IN h # NULL_REQUEST =>
       /\ Active(fd)
       /\ requests[h].fd = fd
       /\ requests[h].at \notin {"free", "rtrn"}
       /\ requests[h].cmd = IF Has(fd, "DGRAM") THEN "sendto" ELSE "send"

(* Each buffer in use has a holder, but for those of the lookups.          *)
Holder(h) ==
  \/ WaitsFor(h)
  \/ \E fd \in Fds : h \in {sockets[fd].recvHandle, sockets[fd].sendHandle}

BuffersHeld ==
  \A h \in Handles :
    /\ requests[h].at # "free" =>
         Holder(h) \/ (requests[h].at = "rtrn" /\ requests[h].cmd = "gethost")
    /\ requests[h].at # "free" => requests[h].cmd # ""

RequestsOK ==
  /\ WireOK /\ OneHolder /\ CallOK /\ SelectOK /\ BuffersHeld
  /\ \A fd \in Fds : RecvHandleOK(fd) /\ SendHandleOK(fd)

(* Socket numbers.                                                         *)

(* The number of a new socket is on its way to the client.                 *)
New(h) == /\ requests[h].at \in {"done", "rcvd"}
          /\ requests[h].cmd \in {"socket", "accept"}
          /\ requests[h].rc = "EOK"

(* A number is the client's until the handler is done with closing it.     *)
InUse(fd) ==
  \/ Active(fd)
  \/ call.fn = "closesocket" /\ call.fd = fd /\ requests[call.h].at \in {"sent", "working"}

(* Each object becomes a socket of the client once.                        *)
ObjsNamedOnce ==
  /\ \A a, b \in Fds : objOf[a] = objOf[b] => a = b \/ objOf[a] = 0
  /\ \A h \in Handles, fd \in Fds : New(h) => requests[h].obj # objOf[fd]
  /\ \A g, h \in Handles : New(g) /\ New(h) /\ requests[g].obj = requests[h].obj => g = h

TableOK ==
  /\ \A a, b \in Fds : table[a] = table[b] => a = b \/ table[a] \in {NULL, RESERVED}
  /\ \A fd \in Fds : InUse(fd) => objOf[fd] # 0
  /\ \A fd \in Fds : InUse(fd) /\ objOf[fd] \notin severed => table[fd] = objOf[fd]
  /\ \A fd \in Fds : table[fd] \in DOMAIN objs \ severed =>
       \/ objOf[fd] = table[fd] /\ InUse(fd)
       \/ \E h \in Handles : New(h) /\ requests[h].obj = table[fd]

NewOK ==
  /\ \A h \in Handles : New(h) =>
       /\ requests[h].obj \in DOMAIN objs
       /\ ~Active(requests[h].newFd)
       /\ requests[h].obj \notin severed => table[requests[h].newFd] = requests[h].obj
       /\ IF requests[h].cmd = "socket" THEN requests[h].data = <<objs[requests[h].obj].kind>>
          ELSE objs[requests[h].obj].kind = "stream"
  /\ \A g, h \in Handles : New(g) /\ New(h) /\ requests[g].newFd = requests[h].newFd => g = h
  /\ \A h \in Handles : requests[h].at = "sent" /\ requests[h].cmd = "socket"
       => requests[h].data \in Kinds

(* A worker works for the object of the socket, a reserved number is for   *)
(* one worker.                                                             *)
WorkersOK ==
  /\ \A h \in Handles : requests[h].at = "working" =>
       /\ requests[h].cmd \notin {"socket", "gethost"}
       /\ InUse(requests[h].fd)
       /\ requests[h].obj = objOf[requests[h].fd]
       /\ requests[h].cmd = "accept" =>
            table[requests[h].newFd] = RESERVED /\ ~Active(requests[h].newFd)
  /\ \A g, h \in Handles :
       /\ requests[g].at = "working" /\ requests[g].cmd = "accept"
       /\ requests[h].at = "working" /\ requests[h].cmd = "accept"
       /\ requests[g].newFd = requests[h].newFd
       => g = h

(* A socket that the handler has lost: then it has lost all of them, and   *)
(* the client makes no new ones before it has closed the old ones.         *)
Lost ==
  \/ \E fd \in Fds : InUse(fd) /\ objOf[fd] \in severed
  \/ \E h \in Handles : New(h) /\ requests[h].obj \in severed

AllLost ==
  /\ \A fd \in Fds : InUse(fd) => objOf[fd] \in severed
  /\ \A h \in Handles : New(h) => requests[h].obj \in severed
  /\ \A fd \in Fds : table[fd] = NULL
  /\ \A h \in Handles : requests[h].at # "working"
  /\ \A h \in Handles : ~(requests[h].at = "sent" /\ requests[h].cmd = "socket")

KindsOK ==
  \A fd \in Fds : Active(fd) => (Has(fd, "DGRAM") <=> objs[objOf[fd]].kind = "dgram")

NumbersOK ==
  ObjsNamedOnce /\ TableOK /\ NewOK /\ WorkersOK /\ (Lost => AllLost) /\ KindsOK

(* Bytes received.                                                         *)

Object(h) == objOf[requests[h].fd]

Gathers(h) == /\ requests[h].at \in {"done", "rcvd"}
              /\ requests[h].cmd \in Receives
              /\ requests[h].rc = "EOK"

ReceivedOK(o) ==
  /\ \A i \in DOMAIN received[o] : received[o][i] \in 1 .. objs[o].read
  /\ \A i, j \in DOMAIN received[o] : i < j => received[o][i] < received[o][j]
  /\ objs[o].kind = "stream" => \A i \in DOMAIN received[o] : received[o][i] = i
  /\ objs[o].kind = "stream" /\ objs[o].st \in {"new", "bound", "conn"} =>
       \/ Len(received[o]) = objs[o].read
       \/ \E h \in Handles : Object(h) = o /\ requests[h].cmd = "recv"
                               /\ (requests[h].at = "rtrn" \/ Gathers(h))

AnswerOK(h) ==
  LET o == Object(h)
      data == requests[h].data
  IN IF requests[h].cmd = "recv"
     THEN /\ data \in Seq(Nat)
          /\ \A k \in DOMAIN data : data[k] = Len(received[o]) + k
          /\ Len(received[o]) + Len(data) = objs[o].read
     ELSE \E v \in 1 .. objs[o].read :
            /\ data = <<ADDR, v>>
            /\ \A i \in DOMAIN received[o] : received[o][i] < v

ReadsOK ==
  /\ \A o \in DOMAIN objs : ReceivedOK(o) /\ objs[o].read <= objs[o].peer
  /\ \A h \in Handles : Gathers(h) => AnswerOK(h)

(* Bytes sent.                                                             *)

SentOK(o) ==
  /\ \A i, j \in DOMAIN objs[o].out : i < j => objs[o].out[i] < objs[o].out[j]
  /\ \A i \in DOMAIN objs[o].out : objs[o].out[i] <= sent[o].begun
  /\ sent[o].done <= Len(objs[o].out)

SendOK(h) ==
  LET o == Object(h)
  IN /\ requests[h].at \in {"sent", "working"} =>
          /\ requests[h].data = <<sent[o].begun>>
          /\ \A i \in DOMAIN objs[o].out : objs[o].out[i] < sent[o].begun
     /\ requests[h].at \in {"done", "rcvd"} /\ requests[h].rc = "EOK"
          => sent[o].done < Len(objs[o].out)

SendsOK ==
  /\ \A o \in DOMAIN objs : SentOK(o)
  /\ \A h \in Handles : requests[h].cmd \in Sends => SendOK(h)

(* Objects that are yet to be made have no bytes.                          *)
Unmade == \A o \in Len(objs) + 1 .. MaxObjs : received[o] = <<>> /\ sent[o].done = 0 /\ sent[o].begun = 0

SocketsInv ==
  /\ ValuesOK /\ ObjsBounded /\ RequestsOK /\ NumbersOK /\ ReadsOK /\ SendsOK /\ Unmade
=============================================================================
