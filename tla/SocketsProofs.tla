---------------------------- MODULE SocketsProofs ---------------------------
(***************************************************************************)
(* What holds of the socket API and the socket service of the outside proxy *)
(* together, for every number of numbers, request buffers, sockets, bytes, *)
(* rejected requests and restarts of the outside proxy, if the program is  *)
(* careful: it closes no socket that has a request, uses sendto and recvfrom *)
(* for datagram sockets only, and makes no socket while it has one that was *)
(* lost with the connection.                                               *)
(* SocketsInv is the inductive invariant.  First comes what its parts need *)
(* of a step: the requests (RequestsOK), the numbers (NumbersOK), the bytes *)
(* received (ReadsOK) and sent (SendsOK); then the calls of ncfsockt.c and *)
(* the return of each, which preserve it; then the handler's threads and   *)
(* the peers, and the conclusions.                                         *)
(***************************************************************************)
EXTENDS Sockets, WellFoundedInduction, TLAPS

(* A set of numbers that is not empty has a least one.                     *)
LEMMA MinIsIn ==
  ASSUME NEW S \in SUBSET Nat, S # {}
  PROVE  Min(S) \in S
<1>1. IsWellFoundedOn(OpToRel(<, Nat), Nat)
  BY NatLessThanWellFounded
<1>2. PICK x \in S : \A y \in S : ~(<<y, x>> \in OpToRel(<, Nat))
  BY <1>1, WFMin
<1>3. \A y \in S : x <= y
  <2> SUFFICES ASSUME NEW y \in S, y < x
               PROVE  FALSE
    OBVIOUS
  <2>1. <<y, x>> \in Nat \X Nat /\ <<y, x>>[1] < <<y, x>>[2]
    OBVIOUS
  <2>2. OpToRel(<, Nat) = {ss \in Nat \X Nat : ss[1] < ss[2]}
    BY DEF OpToRel
  <2> QED
    BY <2>1, <2>2, <1>2, Zenon
<1> QED
  BY <1>3 DEF Min

(* The buffer and the number chosen are free.                              *)
LEMMA Least1 ==
  ASSUME FreeHandles # {}
  PROVE  Min(FreeHandles) \in FreeHandles /\ Min(FreeHandles) \in Handles
BY MinIsIn, SocketBounds DEF FreeHandles, Handles

(* The number that is chosen is free.                                      *)
LEMMA Least2 ==
  ASSUME FreeNumbers # {}
  PROVE  Min(FreeNumbers) \in FreeNumbers /\ Min(FreeNumbers) \in Fds
BY MinIsIn, SocketBounds DEF FreeNumbers, Fds

-----------------------------------------------------------------------------
(* Types.                                                                  *)

Fns == SyncFns \cup AsyncFns

(* The record of a call, by its function.                                  *)
LEMMA CallTypes ==
  ASSUME call \in Calls
  PROVE  /\ call.fn \in {"none", "selectX"} \cup Fns
         /\ Idle <=> call.fn = "none"
         /\ call.fn \in Fns => call.fd \in Fds /\ call.h \in Handles
         /\ call.fn \in AsyncFns => call.len \in Nat
         /\ call.fn = "selectX" => /\ call.rd \in SUBSET Fds /\ call.wr \in SUBSET Fds
                                   /\ call.timeout \in BOOLEAN /\ call.i \in 0 .. FD_SETSIZE
                                   /\ call.watched \in SUBSET Handles /\ call.noWait \in BOOLEAN
BY DEF Calls, NoCall, Idle, Fns, SyncFns, AsyncFns, Sends, Receives

(* The calls the client makes are calls.                                   *)
LEMMA CallIn ==
  /\ NoCall \in Calls
  /\ \A fn \in SyncFns, fd \in Fds, h \in Handles : [fn |-> fn, fd |-> fd, h |-> h] \in Calls
  /\ \A fn \in AsyncFns, fd \in Fds, h \in Handles, len \in Nat :
       [fn |-> fn, fd |-> fd, h |-> h, len |-> len] \in Calls
BY DEF Calls

(* A free buffer, and one that has just been filled, are buffers.          *)
LEMMA BufferIn ==
  ASSUME NEW cmd \in Fns, NEW fd \in Fds, NEW data \in Data,
         NEW len \in Nat
  PROVE  /\ Free \in Buffers
         /\ [Free EXCEPT !.at = "sent", !.cmd = cmd, !.fd = fd, !.data = data, !.len = len] \in Buffers
<1>1. 0 \in Fds /\ <<>> \in Data
  BY SocketBounds DEF Fds, Data
<1> QED
  BY <1>1 DEF Buffers, Free, NULL, Fns, Codes

(* The entry of a number that is not in use is an entry.                   *)
LEMMA UnusedIn == Unused \in Entries /\ 0 \in 0 .. MaxBytes
BY SocketBounds DEF Unused, Entries, NULL_REQUEST

(* The fields of a request buffer have their types.                        *)
LEMMA BufferTypes ==
  ASSUME ValuesOK, NEW h \in Handles
  PROVE  /\ requests[h] \in Buffers
         /\ requests[h].at \in {"free", "sent", "working", "done", "rcvd", "rtrn"}
         /\ requests[h].cmd \in {""} \cup Fns /\ requests[h].rc \in Codes
         /\ requests[h].fd \in Fds /\ requests[h].newFd \in Fds
         /\ requests[h].data \in Data /\ requests[h].len \in Nat
         /\ requests[h].obj \in {NULL, RESERVED} \cup DOMAIN objs
BY DEF ValuesOK, Buffers, Fns

(* What client and handler keep for a number has its type.                 *)
LEMMA EntryTypes ==
  ASSUME ValuesOK, NEW fd \in Fds
  PROVE  /\ sockets[fd] \in Entries
         /\ sockets[fd].flags \in SUBSET Flags /\ sockets[fd].recvRemaining \in 0 .. MaxBytes
         /\ sockets[fd].recvHandle \in Handles \cup {NULL_REQUEST}
         /\ sockets[fd].sendHandle \in Handles \cup {NULL_REQUEST}
         /\ objOf[fd] \in {0} \cup DOMAIN objs
         /\ table[fd] \in {NULL, RESERVED} \cup DOMAIN objs
BY DEF ValuesOK, Entries

(* A request is sent.                                                      *)
Sent(h, cmd, fd, data, len) ==
  /\ h \in Handles /\ requests[h].at = "free"
  /\ requests'[h].at = "sent" /\ requests'[h].cmd = cmd /\ requests'[h].fd = fd
  /\ requests'[h].data = data /\ requests'[h].len = len
  /\ \A g \in Handles : g # h => requests'[g] = requests[g]
  /\ wire' = Append(wire, h)

(* newSockRequest fills the first free buffer and puts it on the wire.     *)
LEMMA Sending ==
  ASSUME ValuesOK, FreeHandles # {}, UNCHANGED objs,
         NEW cmd \in Fns, NEW fd \in Fds, NEW data \in Data, NEW len \in Nat,
         newSockRequest(Min(FreeHandles), cmd, fd, data, len)
  PROVE  /\ Sent(Min(FreeHandles), cmd, fd, data, len)
         /\ requests' \in [Handles -> Buffers'] /\ wire' \in Seq(Handles)
<1>1. Min(FreeHandles) \in Handles /\ requests[Min(FreeHandles)].at = "free"
  BY Least1 DEF FreeHandles
<1> DEFINE h == Min(FreeHandles)
           b == [Free EXCEPT !.at = "sent", !.cmd = cmd, !.fd = fd, !.data = data, !.len = len]
<1> HIDE DEF h
<1>2. requests' = [requests EXCEPT ![h] = b] /\ wire' = Append(wire, h)
  BY DEF newSockRequest, h
<1>3. b.at = "sent" /\ b.cmd = cmd /\ b.fd = fd /\ b.data = data /\ b.len = len
  BY DEF Free
<1>4. b \in Buffers /\ Buffers' = Buffers
  BY BufferIn DEF Buffers
<1> HIDE DEF b
<1>5. h \in Handles /\ requests \in [Handles -> Buffers] /\ wire \in Seq(Handles)
  BY <1>1 DEF h, ValuesOK
<1>6. requests' \in [Handles -> Buffers'] /\ wire' \in Seq(Handles)
  BY <1>2, <1>4, <1>5
<1>7. Sent(h, cmd, fd, data, len)
  BY <1>1, <1>2, <1>3, <1>5 DEF Sent, h
<1> QED
  BY <1>6, <1>7 DEF h

(* A call begins with a request.                                           *)
LEMMA SyncStart ==
  ASSUME ValuesOK, NEW fn \in SyncFns, NEW fd \in Fds, NEW data \in Data, startSync(fn, fd, data)
  PROVE  /\ Sent(Min(FreeHandles), fn, fd, data, 0)
         /\ Idle
         /\ call' = [fn |-> fn, fd |-> fd, h |-> Min(FreeHandles)]
         /\ UNCHANGED <<proxyVars, given, history>>
         /\ requests' \in [Handles -> Buffers'] /\ wire' \in Seq(Handles) /\ call' \in Calls
<1>1. FreeHandles # {} /\ newSockRequest(Min(FreeHandles), fn, fd, data, 0) /\ UNCHANGED objs
  BY DEF startSync, proxyVars
<1>2. fn \in Fns /\ 0 \in Nat
  BY DEF Fns
<1>3. /\ Sent(Min(FreeHandles), fn, fd, data, 0)
      /\ requests' \in [Handles -> Buffers'] /\ wire' \in Seq(Handles)
  BY <1>1, <1>2, Sending
<1>4. Min(FreeHandles) \in Handles
  BY <1>1, Least1
<1>5. call' = [fn |-> fn, fd |-> fd, h |-> Min(FreeHandles)] /\ Idle
  BY DEF startSync
<1>6. Calls' = Calls
  BY DEF Calls
<1> QED
  BY <1>3, <1>4, <1>5, <1>6, CallIn DEF startSync

(* ... which is left with the socket if the call does not wait.            *)
LEMMA AsyncStart ==
  ASSUME ValuesOK, NEW fn \in AsyncFns, NEW fd \in Fds, NEW data \in Data, NEW len \in Nat,
         NEW block \in BOOLEAN, NEW callAfter \in Calls,
         begin(fn, fd, data, len, block, callAfter)
  PROVE  /\ Sent(Min(FreeHandles), fn, fd, data, len)
         /\ sockets[fd][handleOf(fn)] = NULL_REQUEST
         /\ call' = IF block THEN [fn |-> fn, fd |-> fd, h |-> Min(FreeHandles), len |-> len]
                    ELSE callAfter
         /\ sockets' = IF block THEN sockets
                       ELSE [sockets EXCEPT ![fd][handleOf(fn)] = Min(FreeHandles),
                                            ![fd].flags = @ \cup pendFlags(fn)]
         /\ UNCHANGED <<proxyVars, given>>
         /\ requests' \in [Handles -> Buffers'] /\ wire' \in Seq(Handles) /\ call' \in Calls
<1>1. FreeHandles # {} /\ newSockRequest(Min(FreeHandles), fn, fd, data, len) /\ UNCHANGED objs
  BY DEF begin, proxyVars
<1>2. fn \in Fns
  BY DEF Fns
<1>3. /\ Sent(Min(FreeHandles), fn, fd, data, len)
      /\ requests' \in [Handles -> Buffers'] /\ wire' \in Seq(Handles)
  BY <1>1, <1>2, Sending
<1>4. Min(FreeHandles) \in Handles
  BY <1>1, Least1
<1>5. call' = IF block THEN [fn |-> fn, fd |-> fd, h |-> Min(FreeHandles), len |-> len]
              ELSE callAfter
  BY DEF begin
<1>6. Calls' = Calls
  BY DEF Calls
<1> QED
  BY <1>3, <1>4, <1>5, <1>6, CallIn DEF begin

-----------------------------------------------------------------------------
(* Steps of the client that leave alone what the outside proxy has done.   *)

(* Requests are sent, and nothing else happens to requests.                *)
OnlySends ==
  \A g \in Handles :
    /\ requests[g].at # "free" => requests'[g] = requests[g]
    /\ requests[g].at = "free" => requests'[g] = requests[g] \/ requests'[g].at = "sent"

(* What the client and the outside proxy mean by a number does not change  *)
(* with requests that neither make a socket nor begin with a worker.       *)
LEMMA NumbersFrame ==
  ASSUME ValuesOK, NumbersOK, UNCHANGED <<table, severed, objOf>>,
         DOMAIN objs' = DOMAIN objs, \A o \in DOMAIN objs : objs'[o].kind = objs[o].kind,
         \A fd \in Fds : InUse(fd)' => InUse(fd),
         \A fd \in Fds : InUse(fd) => InUse(fd)' \/ table[fd] \notin DOMAIN objs \ severed,
         \A fd \in Fds : Active(fd)' => Active(fd) /\ (Has(fd, "DGRAM")' <=> Has(fd, "DGRAM")),
         \A g \in Handles : New(g)' <=> New(g),
         \A g \in Handles : New(g) =>
           /\ requests'[g].obj = requests[g].obj /\ requests'[g].newFd = requests[g].newFd
           /\ requests'[g].cmd = requests[g].cmd /\ requests'[g].data = requests[g].data,
         \A g \in Handles : requests'[g].at = "working" =>
           /\ requests[g].at = "working" /\ InUse(requests[g].fd)'
           /\ requests'[g].obj = requests[g].obj /\ requests'[g].newFd = requests[g].newFd
           /\ requests'[g].cmd = requests[g].cmd /\ requests'[g].fd = requests[g].fd,
         \A g \in Handles : requests'[g].at = "sent" /\ requests'[g].cmd = "socket" =>
           requests'[g] = requests[g] \/ (~Lost /\ requests'[g].data \in Kinds)
  PROVE  NumbersOK'
<1>a. \A h \in Handles : requests[h].fd \in Fds /\ requests[h].newFd \in Fds
  BY BufferTypes
<1>b. \A k \in Fds : objOf[k] \in {0} \cup DOMAIN objs
  BY EntryTypes
<1>3. ObjsNamedOnce'
  BY DEF NumbersOK, ObjsNamedOnce
<1>4. TableOK'
  <2>1. TableOK
    BY DEF NumbersOK
  <2>2. \A fd \in Fds : (\E h \in Handles : New(h) /\ requests[h].obj = table[fd])
                          => \E h \in Handles : New(h)' /\ requests'[h].obj = table[fd]
    OBVIOUS
  <2> QED
    BY <2>1, <2>2 DEF TableOK
<1>5. NewOK'
  <2>1. NewOK
    BY DEF NumbersOK
  <2>2. \A h \in Handles : requests'[h].at = "sent" /\ requests'[h].cmd = "socket"
                             => requests'[h].data \in Kinds
    BY <2>1 DEF NewOK
  <2>3. ASSUME NEW h \in Handles, New(h)'
        PROVE  /\ requests'[h].obj \in DOMAIN objs
               /\ ~Active(requests[h].newFd)' /\ requests'[h].newFd = requests[h].newFd
               /\ requests'[h].obj \notin severed => table[requests'[h].newFd] = requests'[h].obj
               /\ IF requests'[h].cmd = "socket"
                  THEN requests'[h].data = <<objs'[requests'[h].obj].kind>>
                  ELSE objs'[requests'[h].obj].kind = "stream"
    BY <1>a, <2>1, <2>3 DEF NewOK
  <2>4. \A g, h \in Handles : New(g)' /\ New(h)' /\ requests'[g].newFd = requests'[h].newFd => g = h
    BY <2>1 DEF NewOK
  <2> QED
    BY <2>2, <2>3, <2>4 DEF NewOK
<1>6. WorkersOK'
  BY <1>a DEF NumbersOK, WorkersOK
<1>7. Lost' => AllLost'
  <2>1. Lost' => Lost
    BY DEF Lost
  <2> QED
    BY <2>1 DEF NumbersOK, AllLost
<1>8. KindsOK'
  <2>1. KindsOK /\ \A fd \in Fds : Active(fd) => objOf[fd] \in DOMAIN objs
    BY <1>b DEF NumbersOK, TableOK, InUse
  <2> QED
    BY <2>1 DEF KindsOK
<1> QED
  BY <1>3, <1>4, <1>5, <1>6, <1>7, <1>8 DEF NumbersOK

(* A step of the client that gives no number away keeps them matched.      *)
LEMMA NumbersKept ==
  ASSUME ValuesOK, NumbersOK, OnlySends, UNCHANGED <<proxyVars, severed, objOf>>,
         \A fd \in Fds : InUse(fd)' <=> InUse(fd),
         \A fd \in Fds : Active(fd)' => Active(fd) /\ (Has(fd, "DGRAM")' <=> Has(fd, "DGRAM")),
         \A g \in Handles : requests'[g].at = "sent" /\ requests'[g].cmd = "socket" =>
           requests'[g] = requests[g] \/ (~Lost /\ requests'[g].data \in Kinds)
  PROVE  NumbersOK'
<1>1. \A g \in Handles : New(g)' <=> New(g)
  BY DEF OnlySends, New
<1>2. \A g \in Handles : New(g) => requests'[g] = requests[g]
  BY DEF OnlySends, New
<1>3. \A g \in Handles : requests'[g].at = "working" =>
        requests[g].at = "working" /\ requests'[g] = requests[g]
  BY DEF OnlySends
<1>4. \A g \in Handles : requests[g].at = "working" => requests[g].fd \in Fds /\ InUse(requests[g].fd)
  BY BufferTypes DEF NumbersOK, WorkersOK
<1>5. \A g \in Handles : requests'[g].at = "working" => InUse(requests[g].fd)'
  BY <1>3, <1>4
<1> QED
  BY <1>1, <1>2, <1>3, <1>5, NumbersFrame DEF proxyVars

(* A new request changes nothing of what was read.                         *)
LEMMA ReadsKept ==
  ASSUME ReadsOK, OnlySends, UNCHANGED <<objs, objOf, received>>
  PROVE  ReadsOK'
<1>1. \A h \in Handles : Gathers(h)' => Gathers(h) /\ requests'[h] = requests[h]
  BY DEF OnlySends, Gathers
<1>2. ASSUME NEW h \in Handles, Gathers(h)'
      PROVE  AnswerOK(h)'
  BY <1>1, <1>2 DEF ReadsOK, AnswerOK, Object
<1>3. ASSUME NEW o \in DOMAIN objs
      PROVE  ReceivedOK(o)'
  <2>1. ReceivedOK(o)
    BY <1>3 DEF ReadsOK
  <2>2. \A h \in Handles : requests[h].at = "rtrn" \/ Gathers(h) =>
          /\ requests'[h] = requests[h] /\ Object(h)' = Object(h)
          /\ requests'[h].at = "rtrn" \/ Gathers(h)'
    BY DEF OnlySends, Gathers, Object
  <2>3. objs[o].kind = "stream" /\ objs[o].st \in {"new", "bound", "conn"} =>
          \/ Len(received[o]) = objs[o].read
          \/ \E h \in Handles : Object(h)' = o /\ requests'[h].cmd = "recv"
                                  /\ (requests'[h].at = "rtrn" \/ Gathers(h)')
    BY <2>1, <2>2 DEF ReceivedOK
  <2> QED
    BY <2>1, <2>3 DEF ReceivedOK
<1> QED
  BY <1>2, <1>3 DEF ReadsOK

(* A new request that is no send changes nothing of what is being sent.    *)
LEMMA SendsKept ==
  ASSUME SendsOK, OnlySends, UNCHANGED <<objs, objOf, sent>>,
         \A h \in Handles : requests'[h].cmd \in Sends => requests'[h] = requests[h]
  PROVE  SendsOK'
<1>1. ASSUME NEW h \in Handles, requests'[h].cmd \in Sends
      PROVE  SendOK(h)'
  BY <1>1 DEF SendsOK, SendOK, Object
<1> QED
  BY <1>1 DEF SendsOK, SentOK

-----------------------------------------------------------------------------
(* Who holds which request, step by step of the client.                    *)

(* A free buffer has no holder and is not on its way.                      *)
LEMMA FreeIsFree ==
  ASSUME ValuesOK, RequestsOK, NEW h \in Handles, requests[h].at = "free"
  PROVE  /\ ~WaitsFor(h)
         /\ \A fd \in Fds : sockets[fd].recvHandle # h /\ sockets[fd].sendHandle # h
         /\ \A i \in DOMAIN wire : wire[i] # h
<1>1. h # NULL_REQUEST
  BY DEF Handles, NULL_REQUEST
<1> QED
  BY <1>1 DEF RequestsOK, CallOK, WaitsFor, RecvHandleOK, SendHandleOK, WireOK

(* A request that is sent is on the wire once.                             *)
LEMMA SentWire ==
  ASSUME ValuesOK, RequestsOK, NEW h, NEW cmd, NEW fd, NEW data, NEW len, Sent(h, cmd, fd, data, len)
  PROVE  WireOK'
<1>1. /\ wire \in Seq(Handles) /\ h \in Handles /\ wire' = Append(wire, h)
      /\ \A i \in DOMAIN wire : wire[i] # h
  BY FreeIsFree DEF Sent, ValuesOK
<1>2. /\ \A i \in DOMAIN wire : wire'[i] = wire[i] /\ wire[i] \in Handles
      /\ DOMAIN wire' = DOMAIN wire \cup {Len(wire) + 1} /\ wire'[Len(wire) + 1] = h
      /\ Len(wire) + 1 \notin DOMAIN wire
  BY <1>1
<1> QED
  BY <1>1, <1>2 DEF Sent, RequestsOK, WireOK

(* A call that always waits for its answer leaves the requests in order.   *)
LEMMA SyncRequests ==
  ASSUME ValuesOK, RequestsOK, Idle,
         NEW fn \in SyncFns, NEW fd \in Fds, NEW h, NEW data, Sent(h, fn, fd, data, 0),
         call' = [fn |-> fn, fd |-> fd, h |-> h],
         IF fn = "closesocket"
         THEN /\ sockets[fd].recvHandle = NULL_REQUEST /\ sockets[fd].sendHandle = NULL_REQUEST
              /\ sockets' = [sockets EXCEPT ![fd].flags = {}]
         ELSE sockets' = sockets,
         fn \in {"socket", "gethost"} \/ Active(fd)
  PROVE  RequestsOK'
<1>0. /\ h \in Handles /\ requests[h].at = "free" /\ h # NULL_REQUEST
      /\ \A g \in Handles : g # h => requests'[g] = requests[g]
      /\ requests'[h].at = "sent" /\ requests'[h].cmd = fn /\ requests'[h].fd = fd
  BY DEF Sent, Handles, NULL_REQUEST
<1>1. \A k \in Fds : /\ sockets'[k].recvHandle = sockets[k].recvHandle
                     /\ sockets'[k].sendHandle = sockets[k].sendHandle
                     /\ k # fd \/ fn # "closesocket" => sockets'[k].flags = sockets[k].flags
                     /\ k = fd /\ fn = "closesocket" => sockets'[k].flags = {}
  BY DEF ValuesOK, Entries
<1>2. \A k \in Fds : sockets[k].recvHandle # h /\ sockets[k].sendHandle # h
  BY <1>0, FreeIsFree
<1>3. \A k \in Fds : sockets[k].recvHandle \in Handles \cup {NULL_REQUEST}
                     /\ sockets[k].sendHandle \in Handles \cup {NULL_REQUEST}
  BY EntryTypes
<1>4. call'.fn = fn /\ call'.fd = fd /\ call'.h = h /\ fn \notin AsyncFns /\ fn # "selectX"
  BY DEF SyncFns, AsyncFns, Sends, Receives
<1>5. ~WaitsFor(NULL_REQUEST) /\ \A g \in Handles : ~WaitsFor(g)
  BY DEF Idle, NoCall, WaitsFor, SyncFns, AsyncFns, Sends, Receives
<1>6. WireOK'
  BY SentWire
<1>7. OneHolder'
  BY <1>0, <1>1, <1>2, <1>4 DEF RequestsOK, OneHolder, WaitsFor
<1>8. CallOK'
  <2>1. fn = "closesocket" => ~Active(fd)'
    BY <1>1 DEF Active, Has
  <2>2. fn # "closesocket" /\ Active(fd) => Active(fd)'
    BY <1>1 DEF Active, Has
  <2> QED
    BY <1>0, <1>4, <2>1, <2>2 DEF CallOK, AsyncFns, SyncFns, Sends, Receives
<1>9. SelectOK'
  BY <1>4 DEF SelectOK, Selecting
<1>10. BuffersHeld'
  <2>1. \A g \in Handles : g # h /\ Holder(g) => Holder(g)'
    BY <1>1, <1>5 DEF Holder
  <2>2. Holder(h)'
    BY <1>4 DEF Holder, WaitsFor
  <2>3. fn # ""
    BY DEF SyncFns
  <2> QED
    BY <1>0, <2>1, <2>2, <2>3 DEF RequestsOK, BuffersHeld
<1>11. ASSUME NEW k \in Fds
       PROVE  RecvHandleOK(k)' /\ SendHandleOK(k)'
  <2>1. RecvHandleOK(k) /\ SendHandleOK(k)
    BY DEF RequestsOK
  <2>2. CASE k = fd /\ fn = "closesocket"
    BY <1>1, <2>1, <2>2 DEF RecvHandleOK, SendHandleOK, Pending
  <2>3. CASE k # fd \/ fn # "closesocket"
    BY <1>0, <1>1, <1>2, <1>3, <2>1, <2>3 DEF RecvHandleOK, SendHandleOK, Pending, Active, Has
  <2> QED
    BY <2>2, <2>3
<1> QED
  BY <1>6, <1>7, <1>8, <1>9, <1>10, <1>11 DEF RequestsOK

(* So does a call on a blocking socket, whose answer comes to the call.    *)
LEMMA BlockingRequests ==
  ASSUME ValuesOK, RequestsOK, Idle, UNCHANGED sockets,
         NEW fn \in AsyncFns, NEW fd \in Fds, NEW h, NEW data, NEW len, Sent(h, fn, fd, data, len),
         call' = [fn |-> fn, fd |-> fd, h |-> h, len |-> len],
         sockets[fd][handleOf(fn)] = NULL_REQUEST, Active(fd),
         fn \in Sends \cup Receives => (fn \in {"sendto", "recvfrom"} <=> Has(fd, "DGRAM"))
  PROVE  RequestsOK'
<1>0. /\ h \in Handles /\ requests[h].at = "free" /\ h # NULL_REQUEST
      /\ \A g \in Handles : g # h => requests'[g] = requests[g]
      /\ requests'[h].at = "sent" /\ requests'[h].cmd = fn /\ requests'[h].fd = fd
  BY DEF Sent, Handles, NULL_REQUEST
<1>2. \A k \in Fds : sockets[k].recvHandle # h /\ sockets[k].sendHandle # h
  BY <1>0, FreeIsFree
<1>3. \A k \in Fds : sockets[k].recvHandle \in Handles \cup {NULL_REQUEST}
                     /\ sockets[k].sendHandle \in Handles \cup {NULL_REQUEST}
  BY EntryTypes
<1>4. call'.fn = fn /\ call'.fd = fd /\ call'.h = h /\ fn \notin SyncFns /\ fn # "selectX" /\ fn # ""
  BY DEF SyncFns, AsyncFns, Sends, Receives
<1>5. ~WaitsFor(NULL_REQUEST) /\ \A g \in Handles : ~WaitsFor(g)
  BY DEF Idle, NoCall, WaitsFor, SyncFns, AsyncFns, Sends, Receives
<1>6. WireOK'
  BY SentWire
<1>7. OneHolder'
  BY <1>0, <1>2, <1>4 DEF RequestsOK, OneHolder, WaitsFor
<1>8. CallOK'
  <2>1. IF fn \in Sends THEN sockets[fd].sendHandle = NULL_REQUEST
        ELSE sockets[fd].recvHandle = NULL_REQUEST
    BY DEF handleOf
  <2> QED
    BY <1>0, <1>4, <2>1 DEF CallOK, Active, Has, SyncFns
<1>9. SelectOK'
  BY <1>4 DEF SelectOK, Selecting
<1>10. BuffersHeld'
  <2>1. \A g \in Handles : g # h /\ Holder(g) => Holder(g)'
    BY <1>5 DEF Holder
  <2>2. Holder(h)'
    BY <1>4 DEF Holder, WaitsFor
  <2> QED
    BY <1>0, <1>4, <2>1, <2>2 DEF RequestsOK, BuffersHeld
<1>11. ASSUME NEW k \in Fds
       PROVE  RecvHandleOK(k)' /\ SendHandleOK(k)'
  BY <1>0, <1>2, <1>3 DEF RequestsOK, RecvHandleOK, SendHandleOK, Pending, Active, Has
<1> QED
  BY <1>6, <1>7, <1>8, <1>9, <1>10, <1>11 DEF RequestsOK

(* The entry of a socket that is left with request h.                      *)
LeavesWith(fn, fd, h) ==
  sockets' = [sockets EXCEPT ![fd][handleOf(fn)] = h, ![fd].flags = @ \cup pendFlags(fn)]

Left(fn, fd, h) ==
  /\ \A k \in Fds : k # fd => sockets'[k] = sockets[k]
  /\ fn \in Sends => /\ sockets'[fd].recvHandle = sockets[fd].recvHandle
                     /\ sockets'[fd].sendHandle = h
  /\ fn \notin Sends => /\ sockets'[fd].recvHandle = h
                        /\ sockets'[fd].sendHandle = sockets[fd].sendHandle
  /\ sockets'[fd].flags = sockets[fd].flags \cup pendFlags(fn)

(* A call on a non-blocking socket leaves its request with the socket.     *)
LEMMA LeftEntry ==
  ASSUME ValuesOK, NEW fn \in AsyncFns, NEW fd \in Fds, NEW h \in Handles, LeavesWith(fn, fd, h)
  PROVE  sockets' \in [Fds -> Entries] /\ Left(fn, fd, h)
<1>1. sockets[fd] \in Entries /\ sockets \in [Fds -> Entries]
  BY DEF ValuesOK
<1>2. pendFlags(fn) \in SUBSET Flags
  BY DEF pendFlags, Flags
<1> DEFINE p == pendFlags(fn)
<1> HIDE DEF p
<1>3. CASE fn \in Sends
  <2> DEFINE e == [[sockets[fd] EXCEPT !.sendHandle = h] EXCEPT !.flags = @ \cup p]
  <2>1. handleOf(fn) = "sendHandle"
    BY <1>3 DEF handleOf
  <2>2. sockets' = [sockets EXCEPT ![fd]["sendHandle"] = h, ![fd].flags = @ \cup p]
    BY <2>1 DEF LeavesWith, p
  <2>3. sockets' = [sockets EXCEPT ![fd] = e]
    BY <1>1, <2>2
  <2>4. /\ e \in Entries
        /\ e.sendHandle = h /\ e.recvHandle = sockets[fd].recvHandle
        /\ e.flags = sockets[fd].flags \cup p
    BY <1>1, <1>2 DEF Entries, p
  <2> HIDE DEF e
  <2>5. sockets' \in [Fds -> Entries] /\ sockets'[fd] = e
    BY <1>1, <2>3, <2>4
  <2>6. \A k \in Fds : k # fd => sockets'[k] = sockets[k]
    BY <1>1, <2>3
  <2> QED
    BY <1>3, <2>4, <2>5, <2>6 DEF Left, p
<1>4. CASE fn \notin Sends
  <2> DEFINE e == [[sockets[fd] EXCEPT !.recvHandle = h] EXCEPT !.flags = @ \cup p]
  <2>1. handleOf(fn) = "recvHandle"
    BY <1>4 DEF handleOf
  <2>2. sockets' = [sockets EXCEPT ![fd]["recvHandle"] = h, ![fd].flags = @ \cup p]
    BY <2>1 DEF LeavesWith, p
  <2>3. sockets' = [sockets EXCEPT ![fd] = e]
    BY <1>1, <2>2
  <2>4. /\ e \in Entries
        /\ e.recvHandle = h /\ e.sendHandle = sockets[fd].sendHandle
        /\ e.flags = sockets[fd].flags \cup p
    BY <1>1, <1>2 DEF Entries, p
  <2> HIDE DEF e
  <2>5. sockets' \in [Fds -> Entries] /\ sockets'[fd] = e
    BY <1>1, <2>3, <2>4
  <2>6. \A k \in Fds : k # fd => sockets'[k] = sockets[k]
    BY <1>1, <2>3
  <2> QED
    BY <1>4, <2>4, <2>5, <2>6 DEF Left, p
<1> QED
  BY <1>3, <1>4

(* Such a call leaves the requests in order.                               *)
LEMMA LeavingRequests ==
  ASSUME ValuesOK, RequestsOK,
         (Idle /\ call' = NoCall) \/ (Selecting /\ call' = call),
         NEW fn \in AsyncFns, NEW fd \in Fds, NEW h, NEW data, NEW len, Sent(h, fn, fd, data, len),
         Left(fn, fd, h), sockets[fd][handleOf(fn)] = NULL_REQUEST, Active(fd),
         fn \in Sends \cup Receives => (fn \in {"sendto", "recvfrom"} <=> Has(fd, "DGRAM"))
  PROVE  RequestsOK'
<1>0. /\ h \in Handles /\ requests[h].at = "free" /\ h # NULL_REQUEST
      /\ \A g \in Handles : g # h => requests'[g] = requests[g]
      /\ requests'[h].at = "sent" /\ requests'[h].cmd = fn /\ requests'[h].fd = fd
  BY DEF Sent, Handles, NULL_REQUEST
<1>1. /\ \A k \in Fds : k # fd => sockets'[k] = sockets[k]
      /\ fn \in Sends => /\ sockets'[fd].recvHandle = sockets[fd].recvHandle
                         /\ sockets'[fd].sendHandle = h
      /\ fn \notin Sends => /\ sockets'[fd].recvHandle = h
                            /\ sockets'[fd].sendHandle = sockets[fd].sendHandle
      /\ sockets'[fd].flags = sockets[fd].flags \cup pendFlags(fn)
  BY DEF Left
<1>2. \A k \in Fds : sockets[k].recvHandle # h /\ sockets[k].sendHandle # h
  BY <1>0, FreeIsFree
<1>3. \A k \in Fds : sockets[k].recvHandle \in Handles \cup {NULL_REQUEST}
                     /\ sockets[k].sendHandle \in Handles \cup {NULL_REQUEST}
  BY EntryTypes
<1>4. fn \notin SyncFns /\ fn # "selectX" /\ fn # ""
  BY DEF SyncFns, AsyncFns, Sends, Receives
<1>5. /\ ~WaitsFor(NULL_REQUEST) /\ \A g \in Handles : ~WaitsFor(g)
      /\ ~WaitsFor(NULL_REQUEST)' /\ \A g \in Handles : ~WaitsFor(g)'
      /\ call'.fn \in {"none", "selectX"}
  BY DEF Idle, NoCall, Selecting, WaitsFor, SyncFns, AsyncFns, Sends, Receives
<1>a. IF fn \in Sends THEN sockets[fd].sendHandle = NULL_REQUEST
      ELSE sockets[fd].recvHandle = NULL_REQUEST
  BY DEF handleOf
<1>b. /\ Active(fd)' /\ (Has(fd, "DGRAM")' <=> Has(fd, "DGRAM"))
      /\ \A k \in Fds : k # fd => (Active(k)' <=> Active(k)) /\ (Has(k, "DGRAM")' <=> Has(k, "DGRAM"))
      /\ \A k \in Fds : k # fd => Pending(k)' = Pending(k)
  BY <1>1 DEF Active, Has, pendFlags, Pending
<1>6. WireOK'
  BY SentWire
<1>7. OneHolder'
  <2>1. \A k \in Fds : sockets'[k].recvHandle \in Handles \cup {NULL_REQUEST}
                       /\ sockets'[k].sendHandle \in Handles \cup {NULL_REQUEST}
    BY <1>0, <1>1, <1>3
  <2>2. \A k \in Fds : ~WaitsFor(sockets[k].recvHandle)' /\ ~WaitsFor(sockets[k].sendHandle)'
    BY <2>1, <1>5 DEF WaitsFor
  <2>3. ASSUME NEW a \in Fds, NEW b \in Fds
        PROVE  /\ sockets'[a].recvHandle = sockets'[b].recvHandle
                    => a = b \/ sockets'[a].recvHandle = NULL_REQUEST
               /\ sockets'[a].sendHandle = sockets'[b].sendHandle
                    => a = b \/ sockets'[a].sendHandle = NULL_REQUEST
               /\ sockets'[a].recvHandle = sockets'[b].sendHandle
                    => sockets'[a].recvHandle = NULL_REQUEST
    BY <1>0, <1>1, <1>2, <1>a DEF RequestsOK, OneHolder
  <2> QED
    BY <2>2, <2>3 DEF OneHolder
<1>8. CallOK'
  BY <1>5 DEF CallOK, SyncFns, AsyncFns, Sends, Receives
<1>9. SelectOK'
  <2>1. \A k \in Fds : Active(k) => Active(k)' /\ (Has(k, "DGRAM")' <=> Has(k, "DGRAM"))
    BY <1>b
  <2>2. CASE Selecting /\ call' = call
    BY <2>1, <2>2, CallTypes DEF RequestsOK, SelectOK, Selecting, ValuesOK
  <2>3. CASE call' = NoCall
    BY <2>3 DEF SelectOK, Selecting, NoCall
  <2> QED
    BY <2>2, <2>3
<1>10. BuffersHeld'
  <2>1. \A g \in Handles : g # h /\ Holder(g) => Holder(g)'
    <3> SUFFICES ASSUME NEW g \in Handles, g # h, Holder(g)
                 PROVE  Holder(g)'
      OBVIOUS
    <3>1. PICK k \in Fds : g \in {sockets[k].recvHandle, sockets[k].sendHandle}
      BY <1>5 DEF Holder
    <3>2. g # NULL_REQUEST
      BY DEF Handles, NULL_REQUEST
    <3>3. g \in {sockets'[k].recvHandle, sockets'[k].sendHandle}
      BY <1>1, <1>a, <3>1, <3>2
    <3> QED
      BY <3>3 DEF Holder
  <2>2. Holder(h)'
    BY <1>1 DEF Holder
  <2> QED
    BY <1>0, <1>4, <2>1, <2>2 DEF RequestsOK, BuffersHeld
<1>11. ASSUME NEW k \in Fds, k # fd
       PROVE  RecvHandleOK(k)' /\ SendHandleOK(k)'
  <2>1. RecvHandleOK(k) /\ SendHandleOK(k)
    BY DEF RequestsOK
  <2> QED
    BY <1>0, <1>1, <1>2, <1>3, <1>b, <1>11, <2>1 DEF RecvHandleOK, SendHandleOK
<1>12. RecvHandleOK(fd)' /\ SendHandleOK(fd)'
  <2>1. RecvHandleOK(fd) /\ SendHandleOK(fd)
    BY DEF RequestsOK
  <2>2. CASE fn \in Sends
    <3>1. Pending(fd)' = Pending(fd)
      BY <1>1, <2>2 DEF Pending, pendFlags, Sends, Receives
    <3> QED
      BY <1>0, <1>1, <1>2, <1>3, <1>b, <2>1, <2>2, <3>1 DEF RecvHandleOK, SendHandleOK, Sends, Receives
  <2>3. CASE fn \notin Sends
    <3>1. Pending(fd) = {} /\ sockets'[fd].recvHandle = h
      BY <1>1, <1>a, <2>1, <2>3 DEF RecvHandleOK
    <3>2. fn \in {"connect", "accept", "recv", "recvfrom"}
      BY <2>3 DEF AsyncFns, Receives
    <3>3. /\ "PENDCONN" \in Pending(fd)' => fn = "connect"
          /\ "PENDACPT" \in Pending(fd)' => fn = "accept"
          /\ "PENDRECV" \in Pending(fd)' => fn \in Receives
      BY <1>1, <3>1, <3>2 DEF Pending, pendFlags, Receives
    <3>4. RecvHandleOK(fd)'
      BY <1>0, <1>b, <3>1, <3>2, <3>3 DEF RecvHandleOK, Receives
    <3>5. SendHandleOK(fd)'
      BY <1>0, <1>1, <1>2, <1>3, <1>b, <2>1, <2>3 DEF SendHandleOK
    <3> QED
      BY <3>4, <3>5
  <2> QED
    BY <2>2, <2>3
<1> QED
  BY <1>6, <1>7, <1>8, <1>9, <1>10, <1>11, <1>12 DEF RequestsOK

(* The entry of a socket that a call takes the request from.               *)
TakesFrom(fn, fd) ==
  sockets' = [sockets EXCEPT ![fd][handleOf(fn)] = NULL_REQUEST, ![fd].flags = @ \ pendFlags(fn)]

Taken(fn, fd) ==
  /\ \A k \in Fds : k # fd => sockets'[k] = sockets[k]
  /\ fn \in Sends => /\ sockets'[fd].recvHandle = sockets[fd].recvHandle
                     /\ sockets'[fd].sendHandle = NULL_REQUEST
  /\ fn \notin Sends => /\ sockets'[fd].recvHandle = NULL_REQUEST
                        /\ sockets'[fd].sendHandle = sockets[fd].sendHandle
  /\ sockets'[fd].flags = sockets[fd].flags \ pendFlags(fn)

(* A call that takes up a pending operation takes the request over.        *)
LEMMA TakenEntry ==
  ASSUME ValuesOK, NEW fn \in AsyncFns, NEW fd \in Fds, TakesFrom(fn, fd)
  PROVE  sockets' \in [Fds -> Entries] /\ Taken(fn, fd)
<1>1. sockets[fd] \in Entries /\ sockets \in [Fds -> Entries]
  BY DEF ValuesOK
<1>2. pendFlags(fn) \in SUBSET Flags
  BY DEF pendFlags, Flags
<1> DEFINE p == pendFlags(fn)
<1> HIDE DEF p
<1>3. CASE fn \in Sends
  <2> DEFINE e == [[sockets[fd] EXCEPT !.sendHandle = NULL_REQUEST] EXCEPT !.flags = @ \ p]
  <2>1. handleOf(fn) = "sendHandle"
    BY <1>3 DEF handleOf
  <2>2. sockets' = [sockets EXCEPT ![fd]["sendHandle"] = NULL_REQUEST, ![fd].flags = @ \ p]
    BY <2>1 DEF TakesFrom, p
  <2>3. sockets' = [sockets EXCEPT ![fd] = e]
    BY <1>1, <2>2
  <2>4. /\ e \in Entries
        /\ e.sendHandle = NULL_REQUEST /\ e.recvHandle = sockets[fd].recvHandle
        /\ e.flags = sockets[fd].flags \ p
    BY <1>1, <1>2 DEF Entries, p
  <2> HIDE DEF e
  <2>5. sockets' \in [Fds -> Entries] /\ sockets'[fd] = e
    BY <1>1, <2>3, <2>4
  <2>6. \A k \in Fds : k # fd => sockets'[k] = sockets[k]
    BY <1>1, <2>3
  <2> QED
    BY <1>3, <2>4, <2>5, <2>6 DEF Taken, p
<1>4. CASE fn \notin Sends
  <2> DEFINE e == [[sockets[fd] EXCEPT !.recvHandle = NULL_REQUEST] EXCEPT !.flags = @ \ p]
  <2>1. handleOf(fn) = "recvHandle"
    BY <1>4 DEF handleOf
  <2>2. sockets' = [sockets EXCEPT ![fd]["recvHandle"] = NULL_REQUEST, ![fd].flags = @ \ p]
    BY <2>1 DEF TakesFrom, p
  <2>3. sockets' = [sockets EXCEPT ![fd] = e]
    BY <1>1, <2>2
  <2>4. /\ e \in Entries
        /\ e.recvHandle = NULL_REQUEST /\ e.sendHandle = sockets[fd].sendHandle
        /\ e.flags = sockets[fd].flags \ p
    BY <1>1, <1>2 DEF Entries, p
  <2> HIDE DEF e
  <2>5. sockets' \in [Fds -> Entries] /\ sockets'[fd] = e
    BY <1>1, <2>3, <2>4
  <2>6. \A k \in Fds : k # fd => sockets'[k] = sockets[k]
    BY <1>1, <2>3
  <2> QED
    BY <1>4, <2>4, <2>5, <2>6 DEF Taken, p
<1> QED
  BY <1>3, <1>4

(* Such a call leaves the requests in order.                               *)
LEMMA ResumedRequests ==
  ASSUME ValuesOK, RequestsOK, Idle, UNCHANGED <<requests, wire>>,
         NEW fn \in AsyncFns, NEW fd \in Fds, NEW len, NEW h \in Handles,
         call' = [fn |-> fn, fd |-> fd, h |-> h, len |-> len],
         Taken(fn, fd), Active(fd),
         IF fn \in Sends THEN h = sockets[fd].sendHandle ELSE h = sockets[fd].recvHandle,
         requests[h].cmd = fn /\ requests[h].at # "rtrn",
         fn \in Sends \cup Receives => (fn \in {"sendto", "recvfrom"} <=> Has(fd, "DGRAM"))
  PROVE  RequestsOK'
<1>0. h # NULL_REQUEST /\ h \in {sockets[fd].recvHandle, sockets[fd].sendHandle}
  BY DEF Handles, NULL_REQUEST
<1>1. /\ \A k \in Fds : k # fd => sockets'[k] = sockets[k]
      /\ fn \in Sends => /\ sockets'[fd].recvHandle = sockets[fd].recvHandle
                         /\ sockets'[fd].sendHandle = NULL_REQUEST
      /\ fn \notin Sends => /\ sockets'[fd].recvHandle = NULL_REQUEST
                            /\ sockets'[fd].sendHandle = sockets[fd].sendHandle
      /\ sockets'[fd].flags = sockets[fd].flags \ pendFlags(fn)
  BY DEF Taken
<1>3. \A k \in Fds : sockets[k].recvHandle \in Handles \cup {NULL_REQUEST}
                     /\ sockets[k].sendHandle \in Handles \cup {NULL_REQUEST}
  BY EntryTypes
<1>4. /\ call'.fn = fn /\ call'.fd = fd /\ call'.h = h
      /\ fn \notin SyncFns /\ fn # "selectX" /\ fn # ""
  BY DEF SyncFns, AsyncFns, Sends, Receives
<1>5. ~WaitsFor(NULL_REQUEST) /\ \A g \in Handles : ~WaitsFor(g)
  BY DEF Idle, NoCall, WaitsFor, SyncFns, AsyncFns, Sends, Receives
<1>a. OneHolder /\ RecvHandleOK(fd) /\ SendHandleOK(fd)
  BY DEF RequestsOK
<1>b. /\ Active(fd)' /\ (Has(fd, "DGRAM")' <=> Has(fd, "DGRAM"))
      /\ \A k \in Fds : k # fd => (Active(k)' <=> Active(k)) /\ (Has(k, "DGRAM")' <=> Has(k, "DGRAM"))
      /\ \A k \in Fds : k # fd => Pending(k)' = Pending(k)
  BY <1>1 DEF Active, Has, pendFlags, Pending
<1>c. \A k \in Fds : sockets'[k].recvHandle # h /\ sockets'[k].sendHandle # h
  <2> SUFFICES ASSUME NEW k \in Fds
               PROVE  sockets'[k].recvHandle # h /\ sockets'[k].sendHandle # h
    OBVIOUS
  <2>1. CASE fn \in Sends
    BY <1>0, <1>1, <1>a, <2>1 DEF OneHolder
  <2>2. CASE fn \notin Sends
    BY <1>0, <1>1, <1>a, <2>2 DEF OneHolder
  <2> QED
    BY <2>1, <2>2
<1>6. WireOK'
  BY DEF RequestsOK, WireOK
<1>7. OneHolder'
  <2>1. \A k \in Fds : ~WaitsFor(sockets[k].recvHandle)' /\ ~WaitsFor(sockets[k].sendHandle)'
    BY <1>4, <1>c DEF WaitsFor
  <2>2. ASSUME NEW a \in Fds, NEW b \in Fds
        PROVE  /\ sockets'[a].recvHandle = sockets'[b].recvHandle
                    => a = b \/ sockets'[a].recvHandle = NULL_REQUEST
               /\ sockets'[a].sendHandle = sockets'[b].sendHandle
                    => a = b \/ sockets'[a].sendHandle = NULL_REQUEST
               /\ sockets'[a].recvHandle = sockets'[b].sendHandle
                    => sockets'[a].recvHandle = NULL_REQUEST
    BY <1>1, <1>a DEF OneHolder
  <2> QED
    BY <2>1, <2>2 DEF OneHolder
<1>8. CallOK'
  <2>1. IF fn \in Sends THEN sockets'[fd].sendHandle = NULL_REQUEST
        ELSE sockets'[fd].recvHandle = NULL_REQUEST
    BY <1>1
  <2>2. requests[h].fd = fd /\ requests[h].at # "free"
    BY <1>0, <1>a DEF RecvHandleOK, SendHandleOK
  <2> QED
    BY <1>4, <1>b, <2>1, <2>2 DEF CallOK, SyncFns
<1>9. SelectOK'
  BY <1>4 DEF SelectOK, Selecting
<1>10. BuffersHeld'
  <2>1. \A g \in Handles : g # h /\ Holder(g) => Holder(g)'
    <3> SUFFICES ASSUME NEW g \in Handles, g # h, Holder(g)
                 PROVE  Holder(g)'
      OBVIOUS
    <3>1. PICK k \in Fds : g \in {sockets[k].recvHandle, sockets[k].sendHandle}
      BY <1>5 DEF Holder
    <3>3. g \in {sockets'[k].recvHandle, sockets'[k].sendHandle}
      BY <1>1, <3>1
    <3> QED
      BY <3>3 DEF Holder
  <2>2. Holder(h)'
    BY <1>4 DEF Holder, WaitsFor
  <2> QED
    BY <2>1, <2>2 DEF RequestsOK, BuffersHeld
<1>11. ASSUME NEW k \in Fds, k # fd
       PROVE  RecvHandleOK(k)' /\ SendHandleOK(k)'
  <2>1. RecvHandleOK(k) /\ SendHandleOK(k)
    BY DEF RequestsOK
  <2> QED
    BY <1>1, <1>b, <1>11, <2>1 DEF RecvHandleOK, SendHandleOK
<1>12. RecvHandleOK(fd)' /\ SendHandleOK(fd)'
  <2>2. CASE fn \in Sends
    <3>1. Pending(fd)' = Pending(fd)
      BY <1>1, <2>2 DEF Pending, pendFlags, Sends, Receives
    <3> QED
      BY <1>1, <1>a, <1>b, <2>2, <3>1 DEF RecvHandleOK, SendHandleOK
  <2>3. CASE fn \notin Sends
    <3>1. fn \in {"connect", "accept", "recv", "recvfrom"}
      BY <2>3 DEF AsyncFns, Receives
    <3>2. h = sockets[fd].recvHandle
      BY <2>3
    <3>3. /\ "PENDCONN" \in Pending(fd) => fn = "connect"
          /\ "PENDACPT" \in Pending(fd) => fn = "accept"
          /\ "PENDRECV" \in Pending(fd) => fn \in Receives
      BY <1>0, <1>a, <3>2 DEF RecvHandleOK
    <3>4. Pending(fd)' = {}
      BY <1>1, <3>1, <3>3 DEF Pending, pendFlags, Receives
    <3> QED
      BY <1>1, <1>a, <1>b, <2>3, <3>4 DEF RecvHandleOK, SendHandleOK
  <2> QED
    BY <2>2, <2>3
<1> QED
  BY <1>6, <1>7, <1>8, <1>9, <1>10, <1>11, <1>12 DEF RequestsOK

(* Steps that concern no request: ioctlsocket and those of selectX.        *)
LEMMA QuietRequests ==
  ASSUME RequestsOK, UNCHANGED <<requests, wire>>, call.fn \notin Fns, call'.fn \notin Fns,
         \A k \in Fds : /\ sockets'[k].recvHandle = sockets[k].recvHandle
                        /\ sockets'[k].sendHandle = sockets[k].sendHandle
                        /\ Pending(k)' = Pending(k)
                        /\ Active(k)' <=> Active(k)
                        /\ Has(k, "DGRAM")' <=> Has(k, "DGRAM"),
         SelectOK'
  PROVE  RequestsOK'
<1>1. WireOK'
  BY DEF RequestsOK, WireOK
<1>2. OneHolder'
  BY DEF RequestsOK, OneHolder, WaitsFor, Fns
<1>3. CallOK'
  BY DEF CallOK, Fns
<1>4. BuffersHeld'
  <2>1. \A g \in Handles : Holder(g) => Holder(g)'
    BY DEF Holder, WaitsFor, Fns
  <2> QED
    BY <2>1 DEF RequestsOK, BuffersHeld
<1>5. ASSUME NEW k \in Fds
      PROVE  RecvHandleOK(k)' /\ SendHandleOK(k)'
  <2>1. RecvHandleOK(k) /\ SendHandleOK(k)
    BY DEF RequestsOK
  <2> QED
    BY <2>1 DEF RecvHandleOK, SendHandleOK
<1> QED
  BY <1>1, <1>2, <1>3, <1>4, <1>5 DEF RequestsOK

(* The request of a call that returns is nobody else's.                    *)
LEMMA CallHolds ==
  ASSUME ValuesOK, RequestsOK, call.fn \in Fns
  PROVE  /\ call.h \in Handles /\ call.fd \in Fds /\ call.h # NULL_REQUEST
         /\ requests[call.h].cmd = call.fn /\ requests[call.h].fd = call.fd
         /\ \A g \in Handles : WaitsFor(g) <=> g = call.h
         /\ \A k \in Fds : sockets[k].recvHandle # call.h /\ sockets[k].sendHandle # call.h
<1>1. call.h \in Handles /\ call.fd \in Fds
  BY CallTypes DEF ValuesOK
<1>2. call.h # NULL_REQUEST
  BY <1>1 DEF Handles, NULL_REQUEST
<1>3. CallOK /\ OneHolder
  BY DEF RequestsOK
<1> QED
  BY <1>1, <1>2, <1>3 DEF CallOK, OneHolder, WaitsFor, Fns

(* Its buffer is freed; that of a lookup is not.                           *)
LEMMA ReturnRequests ==
  ASSUME ValuesOK, RequestsOK, call.fn \in Fns, requests[call.h].at = "rcvd",
         call' = NoCall, UNCHANGED wire,
         \A g \in Handles : g # call.h => requests'[g] = requests[g],
         requests'[call.h].at = "free" \/ (requests'[call.h].at = "rtrn" /\ requests'[call.h].cmd = "gethost"),
         \A k \in Fds : /\ sockets'[k].recvHandle = sockets[k].recvHandle
                        /\ sockets'[k].sendHandle = sockets[k].sendHandle
                        /\ Pending(k)' = Pending(k)
                        /\ Active(k) => Active(k)' /\ (Has(k, "DGRAM")' <=> Has(k, "DGRAM"))
  PROVE  RequestsOK'
<1> DEFINE h == call.h
<1>0. /\ h \in Handles /\ h # NULL_REQUEST
      /\ \A g \in Handles : WaitsFor(g) <=> g = h
      /\ \A k \in Fds : sockets[k].recvHandle # h /\ sockets[k].sendHandle # h
  BY CallHolds
<1>1. \A g \in Handles : g # h => requests'[g] = requests[g]
  OBVIOUS
<1>2. requests'[h].at = "free" \/ (requests'[h].at = "rtrn" /\ requests'[h].cmd = "gethost")
  OBVIOUS
<1>3. requests[h].at = "rcvd"
  OBVIOUS
<1>4. call'.fn = "none"
  BY DEF NoCall
<1>5. \A k \in Fds : sockets[k].recvHandle \in Handles \cup {NULL_REQUEST}
                     /\ sockets[k].sendHandle \in Handles \cup {NULL_REQUEST}
  BY EntryTypes
<1> HIDE DEF h
<1>6. WireOK'
  <2>1. WireOK /\ wire \in Seq(Handles)
    BY DEF RequestsOK, ValuesOK
  <2>2. \A i \in DOMAIN wire : wire[i] \in Handles /\ requests[wire[i]].at = "sent"
    BY <2>1 DEF WireOK
  <2> QED
    BY <1>1, <1>3, <2>1, <2>2 DEF WireOK
<1>7. OneHolder'
  BY <1>4 DEF RequestsOK, OneHolder, WaitsFor, SyncFns, AsyncFns, Sends, Receives
<1>8. CallOK' /\ SelectOK'
  BY <1>4 DEF CallOK, SelectOK, Selecting, SyncFns, AsyncFns, Sends, Receives
<1>9. BuffersHeld'
  <2>1. \A g \in Handles : g # h /\ Holder(g) => Holder(g)'
    BY <1>0 DEF Holder
  <2>2. BuffersHeld
    BY DEF RequestsOK
  <2>3. ASSUME NEW g \in Handles, requests'[g].at # "free"
        PROVE  /\ Holder(g)' \/ (requests'[g].at = "rtrn" /\ requests'[g].cmd = "gethost")
               /\ requests'[g].cmd # ""
    <3>1. CASE g = h
      BY <1>2, <2>3, <3>1
    <3>2. CASE g # h
      BY <1>1, <2>1, <2>2, <2>3, <3>2, Zenon DEF BuffersHeld
    <3> QED
      BY <3>1, <3>2
  <2> QED
    BY <2>3 DEF BuffersHeld
<1>10. ASSUME NEW k \in Fds
       PROVE  RecvHandleOK(k)' /\ SendHandleOK(k)'
  <2>1. RecvHandleOK(k) /\ SendHandleOK(k)
    BY DEF RequestsOK
  <2>2. RecvHandleOK(k)'
    BY <1>0, <1>1, <1>5, <2>1 DEF RecvHandleOK
  <2>3. SendHandleOK(k)'
    BY <1>0, <1>1, <1>5, <2>1 DEF SendHandleOK
  <2> QED
    BY <2>2, <2>3
<1> QED
  BY <1>6, <1>7, <1>8, <1>9, <1>10 DEF RequestsOK

(* A recv that leaves a rest: it stays with the socket.                    *)
LEMMA RestRequests ==
  ASSUME ValuesOK, RequestsOK, call.fn = "recv", call' = NoCall, UNCHANGED wire,
         NEW h, NEW fd, h = call.h, fd = call.fd, requests[h].at = "rcvd",
         \A g \in Handles : g # h => requests'[g] = requests[g],
         requests'[h].at = "rtrn", requests'[h].cmd = "recv", requests'[h].fd = fd,
         \A k \in Fds : /\ k # fd => sockets'[k] = sockets[k]
                        /\ sockets'[k].flags = sockets[k].flags
                        /\ sockets'[k].sendHandle = sockets[k].sendHandle,
         sockets'[fd].recvHandle = h
  PROVE  RequestsOK'
<1>0. /\ h \in Handles /\ h # NULL_REQUEST /\ fd \in Fds
      /\ \A g \in Handles : WaitsFor(g) <=> g = h
      /\ \A k \in Fds : sockets[k].recvHandle # h /\ sockets[k].sendHandle # h
  BY CallHolds DEF Fns, AsyncFns, Receives
<1>1. \A g \in Handles : g # h => requests'[g] = requests[g]
  OBVIOUS
<1>2. requests'[h].at = "rtrn" /\ requests'[h].cmd = "recv" /\ requests'[h].fd = fd
  OBVIOUS
<1>3. requests[h].at = "rcvd"
  OBVIOUS
<1>4. call'.fn = "none"
  BY DEF NoCall
<1>5. \A k \in Fds : sockets[k].recvHandle \in Handles \cup {NULL_REQUEST}
                     /\ sockets[k].sendHandle \in Handles \cup {NULL_REQUEST}
  BY EntryTypes
<1>a. /\ sockets'[fd].recvHandle = h
      /\ \A k \in Fds : k # fd => sockets'[k] = sockets[k]
      /\ \A k \in Fds : sockets'[k].sendHandle = sockets[k].sendHandle
  OBVIOUS
<1>b. Active(fd) /\ sockets[fd].recvHandle = NULL_REQUEST /\ ~Has(fd, "DGRAM")
  BY DEF RequestsOK, CallOK, AsyncFns, Receives, Sends
<1>c. \A k \in Fds : /\ Active(k)' <=> Active(k)
                     /\ Has(k, "DGRAM")' <=> Has(k, "DGRAM")
                     /\ Pending(k)' = Pending(k)
  BY DEF Active, Has, Pending
<1>6. WireOK'
  <2>1. WireOK /\ wire \in Seq(Handles)
    BY DEF RequestsOK, ValuesOK
  <2>2. \A i \in DOMAIN wire : wire[i] \in Handles /\ requests[wire[i]].at = "sent"
    BY <2>1 DEF WireOK
  <2> QED
    BY <1>1, <1>3, <2>1, <2>2 DEF WireOK
<1>7. OneHolder'
  <2>1. \A k \in Fds : ~WaitsFor(sockets[k].recvHandle)' /\ ~WaitsFor(sockets[k].sendHandle)'
    BY <1>4 DEF WaitsFor, SyncFns, AsyncFns, Sends, Receives
  <2>2. ASSUME NEW a \in Fds, NEW b \in Fds
        PROVE  /\ sockets'[a].recvHandle = sockets'[b].recvHandle
                    => a = b \/ sockets'[a].recvHandle = NULL_REQUEST
               /\ sockets'[a].sendHandle = sockets'[b].sendHandle
                    => a = b \/ sockets'[a].sendHandle = NULL_REQUEST
               /\ sockets'[a].recvHandle = sockets'[b].sendHandle
                    => sockets'[a].recvHandle = NULL_REQUEST
    BY <1>0, <1>a DEF RequestsOK, OneHolder
  <2> QED
    BY <2>1, <2>2 DEF OneHolder
<1>8. CallOK' /\ SelectOK'
  BY <1>4 DEF CallOK, SelectOK, Selecting, SyncFns, AsyncFns, Sends, Receives
<1>9. BuffersHeld'
  <2>1. \A g \in Handles : g # h /\ Holder(g) => Holder(g)'
    <3> SUFFICES ASSUME NEW g \in Handles, g # h, Holder(g)
                 PROVE  Holder(g)'
      OBVIOUS
    <3>1. PICK k \in Fds : g \in {sockets[k].recvHandle, sockets[k].sendHandle}
      BY <1>0 DEF Holder
    <3>2. g # NULL_REQUEST
      BY DEF Handles, NULL_REQUEST
    <3>3. g \in {sockets'[k].recvHandle, sockets'[k].sendHandle}
      BY <1>a, <1>b, <3>1, <3>2
    <3> QED
      BY <3>3 DEF Holder
  <2>2. Holder(h)'
    BY <1>0, <1>a DEF Holder
  <2> QED
    BY <1>1, <1>2, <2>1, <2>2 DEF RequestsOK, BuffersHeld
<1>10. ASSUME NEW k \in Fds
       PROVE  RecvHandleOK(k)' /\ SendHandleOK(k)'
  <2>1. RecvHandleOK(k) /\ SendHandleOK(k)
    BY DEF RequestsOK
  <2>2. SendHandleOK(k)'
    BY <1>0, <1>1, <1>5, <1>a, <1>c, <2>1 DEF SendHandleOK
  <2>3. CASE k # fd
    BY <1>0, <1>1, <1>5, <1>a, <1>c, <2>1, <2>2, <2>3 DEF RecvHandleOK
  <2>4. CASE k = fd
    <3>1. Pending(fd) = {}
      BY <1>b, <2>1, <2>4 DEF RecvHandleOK
    <3> QED
      BY <1>0, <1>2, <1>a, <1>b, <1>c, <2>2, <2>4, <3>1 DEF RecvHandleOK, Receives
  <2> QED
    BY <2>3, <2>4
<1> QED
  BY <1>6, <1>7, <1>8, <1>9, <1>10 DEF RequestsOK

-----------------------------------------------------------------------------
(* Steps of the outside proxy and of the link: requests stay with their    *)
(* holders and move on.                                                    *)

Live == {"sent", "working", "done", "rcvd"}

MoveOn ==
  \A g \in Handles :
    /\ requests'[g].cmd = requests[g].cmd /\ requests'[g].fd = requests[g].fd
    /\ requests'[g].at = requests[g].at \/ (requests[g].at \in Live /\ requests'[g].at \in Live)

(* A step of the handler that only moves requests on keeps them in order.  *)
LEMMA ProxyRequests ==
  ASSUME ValuesOK, RequestsOK, UNCHANGED <<sockets, call>>, MoveOn, WireOK'
  PROVE  RequestsOK'
<1>1. \A g \in Handles :
        /\ requests'[g].cmd = requests[g].cmd /\ requests'[g].fd = requests[g].fd
        /\ requests'[g].at = "free" <=> requests[g].at = "free"
        /\ requests'[g].at = "rtrn" <=> requests[g].at = "rtrn"
  BY DEF MoveOn, Live
<1>2. \A k \in Fds : /\ sockets[k].recvHandle \in Handles \cup {NULL_REQUEST}
                     /\ sockets[k].sendHandle \in Handles \cup {NULL_REQUEST}
                     /\ Active(k)' <=> Active(k)
                     /\ Has(k, "DGRAM")' <=> Has(k, "DGRAM")
                     /\ Pending(k)' = Pending(k)
  BY EntryTypes DEF Active, Has, Pending
<1>3. OneHolder'
  BY DEF RequestsOK, OneHolder, WaitsFor
<1>4. CallOK'
  <2>1. CASE call.fn \in Fns
    <3>1. call.h \in Handles /\ call.fd \in Fds
      BY <2>1, CallHolds
    <3>2. CallOK
      BY DEF RequestsOK
    <3> QED
      BY <1>1, <1>2, <3>1, <3>2 DEF CallOK
  <2>2. CASE call.fn \notin Fns
    BY <2>2 DEF CallOK, Fns
  <2> QED
    BY <2>1, <2>2
<1>5. SelectOK'
  BY DEF RequestsOK, SelectOK, Selecting, Active, Has
<1>6. BuffersHeld'
  BY <1>1 DEF RequestsOK, BuffersHeld, Holder, WaitsFor
<1>7. ASSUME NEW k \in Fds
      PROVE  RecvHandleOK(k)' /\ SendHandleOK(k)'
  <2>1. RecvHandleOK(k) /\ SendHandleOK(k)
    BY DEF RequestsOK
  <2> QED
    BY <1>1, <1>2, <2>1 DEF RecvHandleOK, SendHandleOK
<1> QED
  BY <1>3, <1>4, <1>5, <1>6, <1>7 DEF RequestsOK

(* A request that is not on its way may move on.                           *)
LEMMA SameWire ==
  ASSUME ValuesOK, RequestsOK, UNCHANGED wire,
         \A g \in Handles : requests[g].at = "sent" => requests'[g].at = "sent"
  PROVE  WireOK'
<1>1. wire \in Seq(Handles) /\ WireOK
  BY DEF ValuesOK, RequestsOK
<1>2. \A i \in DOMAIN wire : wire[i] \in Handles
  BY <1>1
<1> QED
  BY <1>1, <1>2 DEF WireOK

(* The first request on its way arrives.                                   *)
LEMMA ShorterWire ==
  ASSUME ValuesOK, RequestsOK, wire # <<>>, wire' = Tail(wire),
         \A g \in Handles : g # Head(wire) => requests'[g] = requests[g]
  PROVE  /\ WireOK' /\ wire' \in Seq(Handles)
         /\ Head(wire) \in Handles /\ requests[Head(wire)].at = "sent"
<1>1. wire \in Seq(Handles) /\ WireOK
  BY DEF ValuesOK, RequestsOK
<1>2. /\ 1 \in DOMAIN wire /\ Head(wire) = wire[1] /\ wire' \in Seq(Handles)
      /\ \A i \in DOMAIN wire' : /\ i + 1 \in DOMAIN wire /\ i + 1 # 1
                                 /\ wire'[i] = wire[i + 1] /\ wire[i + 1] \in Handles
  BY <1>1
<1>3. \A i \in DOMAIN wire' : wire'[i] # Head(wire) /\ requests[wire'[i]].at = "sent"
  BY <1>1, <1>2 DEF WireOK
<1>4. \A i, j \in DOMAIN wire' : wire'[i] = wire'[j] => i = j
  <2> SUFFICES ASSUME NEW i \in DOMAIN wire', NEW j \in DOMAIN wire', wire'[i] = wire'[j]
               PROVE  i = j
    OBVIOUS
  <2>1. i + 1 = j + 1
    BY <1>1, <1>2 DEF WireOK
  <2>2. i \in Nat /\ j \in Nat
    BY <1>2
  <2> QED
    BY <2>1, <2>2
<1> QED
  BY <1>1, <1>2, <1>3, <1>4 DEF WireOK

(* Elements of a concatenation.                                            *)
LEMMA ConcatSeq ==
  ASSUME NEW S, NEW a \in Seq(S), NEW b \in Seq(S)
  PROVE  /\ a \o b \in Seq(S) /\ Len(a \o b) = Len(a) + Len(b)
         /\ \A i \in 1 .. Len(a) : (a \o b)[i] = a[i]
         /\ \A i \in 1 .. Len(b) : (a \o b)[Len(a) + i] = b[i]
<1>1. a \o b \in Seq(S) /\ Len(a \o b) = Len(a) + Len(b)
  OBVIOUS
<1>2. \A i \in 1 .. Len(a) : (a \o b)[i] = a[i]
  OBVIOUS
<1>3. ASSUME NEW i \in 1 .. Len(b)
      PROVE  (a \o b)[Len(a) + i] = b[i]
  <2>1. Len(a) \in Nat /\ Len(b) \in Nat
    OBVIOUS
  <2> DEFINE j == Len(a) + i
  <2>2. j \in 1 .. Len(a) + Len(b) /\ j > Len(a) /\ j - Len(a) = i
    BY <2>1
  <2> HIDE DEF j
  <2>3. (a \o b)[j] = b[j - Len(a)]
    BY <2>2
  <2> QED
    BY <2>2, <2>3 DEF j
<1> QED
  BY <1>1, <1>2, <1>3

(* A sequence without its element p.                                       *)
Cut(s, p) == SubSeq(s, 1, p - 1) \o SubSeq(s, p + 1, Len(s))

(* Elements of a sequence without its element p.                           *)
LEMMA CutSeq ==
  ASSUME NEW S, NEW s \in Seq(S), NEW p \in DOMAIN s
  PROVE  /\ Cut(s, p) \in Seq(S) /\ Len(Cut(s, p)) = Len(s) - 1
         /\ \A i \in 1 .. Len(s) - 1 : Cut(s, p)[i] = s[IF i < p THEN i ELSE i + 1]
<1> DEFINE a == SubSeq(s, 1, p - 1)
           b == SubSeq(s, p + 1, Len(s))
<1>1. p \in 1 .. Len(s) /\ Len(s) \in Nat
  OBVIOUS
<1>2. a \in Seq(S) /\ Len(a) = p - 1 /\ \A i \in 1 .. p - 1 : a[i] = s[i]
  BY <1>1
<1>3. b \in Seq(S) /\ Len(b) = Len(s) - p /\ \A i \in 1 .. Len(s) - p : b[i] = s[p + i]
  BY <1>1
<1>4. Cut(s, p) = a \o b
  BY DEF Cut
<1> HIDE DEF a, b
<1>5. a \o b \in Seq(S) /\ Len(a \o b) = Len(s) - 1
  BY <1>1, <1>2, <1>3
<1>6. ASSUME NEW i \in 1 .. Len(s) - 1
      PROVE  (a \o b)[i] = s[IF i < p THEN i ELSE i + 1]
  <2>1. CASE i < p
    <3>1. i \in 1 .. Len(a)
      BY <1>1, <1>2, <2>1
    <3>2. (a \o b)[i] = a[i]
      BY <1>2, <1>3, <3>1
    <3> QED
      BY <1>1, <1>2, <2>1, <3>2
  <2>2. CASE ~(i < p)
    <3>1. i - (p - 1) \in 1 .. Len(s) - p /\ p + (i - (p - 1)) = i + 1
      BY <1>1, <2>2
    <3>2. (a \o b)[i] = b[i - (p - 1)]
      <4>1. Len(b) = Len(s) - p /\ Len(a) = p - 1 /\ Len(a) + (i - (p - 1)) = i
        BY <1>1, <1>2, <1>3
      <4>2. \A k \in 1 .. Len(b) : (a \o b)[Len(a) + k] = b[k]
        <5>1. a \in Seq(S) /\ b \in Seq(S)
          BY <1>2, <1>3
        <5> QED
          BY <5>1, ConcatSeq, SMTT(20)
      <4>3. i - (p - 1) \in 1 .. Len(b)
        BY <3>1, <4>1
      <4> QED
        BY <4>1, <4>2, <4>3, Zenon
    <3> QED
      BY <1>3, <2>2, <3>1, <3>2
  <2> QED
    BY <2>1, <2>2
<1> QED
  BY <1>4, <1>5, <1>6

(* A request is taken out of the middle.                                   *)
LEMMA CutWire ==
  ASSUME ValuesOK, RequestsOK, NEW p \in DOMAIN wire, wire' = Cut(wire, p),
         \A g \in Handles : g # wire[p] => requests'[g] = requests[g]
  PROVE  WireOK' /\ wire' \in Seq(Handles) /\ wire[p] \in Handles
<1>1. wire \in Seq(Handles) /\ WireOK
  BY DEF ValuesOK, RequestsOK
<1>2. p \in 1 .. Len(wire) /\ Len(wire) \in Nat /\ wire[p] \in Handles
  BY <1>1
<1>3. /\ wire' \in Seq(Handles) /\ Len(wire') = Len(wire) - 1
      /\ \A i \in 1 .. Len(wire) - 1 : wire'[i] = wire[IF i < p THEN i ELSE i + 1]
  BY <1>1, CutSeq
<1>4. DOMAIN wire' = 1 .. Len(wire) - 1
  BY <1>3
<1>5. ASSUME NEW i \in DOMAIN wire'
      PROVE  /\ (IF i < p THEN i ELSE i + 1) \in DOMAIN wire \ {p}
             /\ wire'[i] = wire[IF i < p THEN i ELSE i + 1] /\ wire'[i] \in Handles
  <2>1. wire'[i] = wire[IF i < p THEN i ELSE i + 1]
    BY <1>3, <1>4
  <2>2. (IF i < p THEN i ELSE i + 1) \in 1 .. Len(wire) /\ (IF i < p THEN i ELSE i + 1) # p
    BY <1>2, <1>4
  <2> QED
    BY <1>1, <2>1, <2>2
<1>7. \A i \in DOMAIN wire' : wire'[i] # wire[p] /\ requests[wire'[i]].at = "sent"
  BY <1>1, <1>5 DEF WireOK
<1>8. \A i, j \in DOMAIN wire' : wire'[i] = wire'[j] => i = j
  <2> SUFFICES ASSUME NEW i \in DOMAIN wire', NEW j \in DOMAIN wire', wire'[i] = wire'[j]
               PROVE  i = j
    OBVIOUS
  <2>1. (IF i < p THEN i ELSE i + 1) = (IF j < p THEN j ELSE j + 1)
    BY <1>1, <1>5 DEF WireOK
  <2>2. i \in Nat /\ j \in Nat
    BY <1>4
  <2> QED
    BY <1>2, <2>1, <2>2
<1>9. \A i \in DOMAIN wire' : requests'[wire'[i]].at = "sent"
  BY <1>5, <1>7
<1> QED
  BY <1>2, <1>3, <1>8, <1>9 DEF WireOK

-----------------------------------------------------------------------------
(* The meaning of the numbers, when a call returns.                        *)

(* Nothing but an answer is consumed.                                      *)
LEMMA ReturnNumbers ==
  ASSUME ValuesOK, RequestsOK, NumbersOK, call.fn \in Fns, requests[call.h].at = "rcvd", ~New(call.h),
         call' = NoCall, UNCHANGED <<table, objs, severed, objOf>>,
         \A g \in Handles : g # call.h => requests'[g] = requests[g],
         requests'[call.h].at \in {"free", "rtrn"},
         \A k \in Fds : (Active(k)' <=> Active(k)) /\ (Has(k, "DGRAM")' <=> Has(k, "DGRAM"))
  PROVE  NumbersOK'
<1>0. call.h \in Handles
  BY CallHolds
<1>1. \A fd \in Fds : InUse(fd)' <=> InUse(fd)
  BY DEF InUse, NoCall
<1>2. \A g \in Handles : /\ New(g)' <=> New(g)
                         /\ New(g) => requests'[g] = requests[g]
  BY <1>0 DEF New
<1>3. \A g \in Handles : requests'[g].at = "working" =>
           requests[g].at = "working" /\ requests'[g] = requests[g]
  BY <1>0
<1>4. \A g \in Handles : requests'[g].at = "sent" => requests'[g] = requests[g]
  BY <1>0
<1>5. \A g \in Handles : requests[g].at = "working" => InUse(requests[g].fd)'
  BY <1>1, BufferTypes DEF NumbersOK, WorkersOK
<1> QED
  BY <1>1, <1>2, <1>3, <1>4, <1>5, NumbersFrame

(* The client learns of a new socket.                                      *)
LEMMA NewNumbers ==
  ASSUME ValuesOK, RequestsOK, NumbersOK, call.fn \in {"socket", "accept"},
         NEW h \in Handles, h = call.h, New(h), requests[h].at = "rcvd",
         call' = NoCall, UNCHANGED <<table, objs, severed>>,
         \A g \in Handles : g # h => requests'[g] = requests[g],
         requests'[h].at = "free",
         NEW fd \in Fds, fd = requests[h].newFd,
         objOf' = [objOf EXCEPT ![fd] = requests[h].obj],
         \A k \in Fds : k # fd => sockets'[k] = sockets[k],
         "ACTIVE" \in sockets'[fd].flags,
         "DGRAM" \in sockets'[fd].flags <=> objs[requests[h].obj].kind = "dgram"
  PROVE  NumbersOK'
<1> DEFINE o == requests[h].obj
<1>0. /\ o \in DOMAIN objs /\ o # 0 /\ ~Active(fd) /\ objs \in Seq(Objects)
      /\ o \notin severed => table[fd] = o
  <2>1. NewOK /\ objs \in Seq(Objects)
    BY DEF NumbersOK, ValuesOK
  <2> QED
    BY <2>1 DEF NewOK
<1>1. objOf'[fd] = o /\ \A k \in Fds : k # fd => objOf'[k] = objOf[k]
  BY DEF ValuesOK
<1>2. \A k \in Fds : /\ k # fd => (Active(k)' <=> Active(k)) /\ (Has(k, "DGRAM")' <=> Has(k, "DGRAM"))
                     /\ k # fd => (InUse(k)' <=> InUse(k))
                     /\ InUse(k) <=> Active(k)
  BY DEF Active, Has, InUse, NoCall
<1>3. Active(fd)' /\ InUse(fd)' /\ (Has(fd, "DGRAM")' <=> objs[o].kind = "dgram")
  BY DEF Active, Has, InUse
<1>4. \A g \in Handles : /\ New(g)' <=> New(g) /\ g # h
                         /\ g # h => requests'[g] = requests[g]
  BY DEF New
<1>5. \A g \in Handles : requests[g].fd \in Fds /\ requests[g].newFd \in Fds
  BY BufferTypes
<1>6. o \in severed => AllLost
  BY DEF NumbersOK, Lost
<1>7. \A k \in Fds : table[k] \in {NULL, RESERVED} \cup DOMAIN objs
  BY EntryTypes
<1>8. NULL \notin DOMAIN objs /\ RESERVED \notin DOMAIN objs /\ NULL = 0
  BY <1>0 DEF NULL, RESERVED
<1>9. requests[h].newFd = fd /\ New(h)
  OBVIOUS
<1> HIDE DEF o
<1>10. ObjsNamedOnce'
  <2>1. ObjsNamedOnce /\ \A k \in Fds : objOf[k] # o
    BY DEF NumbersOK, ObjsNamedOnce, o
  <2>2. \A g \in Handles : New(g) /\ g # h => requests[g].obj # o
    BY <1>9, <2>1 DEF ObjsNamedOnce, o
  <2> QED
    BY <1>1, <1>4, <2>1, <2>2 DEF ObjsNamedOnce
<1>11. TableOK'
  <2>1. TableOK
    BY DEF NumbersOK
  <2>2. ASSUME NEW k \in Fds, table[k] \in DOMAIN objs \ severed
        PROVE  \/ objOf'[k] = table[k] /\ InUse(k)'
               \/ \E g \in Handles : New(g)' /\ requests'[g].obj = table[k]
    <3>0. o \notin severed
      BY <1>6, <1>8, <2>2 DEF AllLost
    <3>1. CASE k = fd
      BY <1>0, <1>1, <1>3, <3>0, <3>1
    <3>2. CASE k # fd
      <4>1. CASE objOf[k] = table[k] /\ InUse(k)
        BY <1>1, <1>2, <3>2, <4>1
      <4>2. CASE \E g \in Handles : New(g) /\ requests[g].obj = table[k]
        <5>1. PICK g \in Handles : New(g) /\ requests[g].obj = table[k]
          BY <4>2
        <5>2. g # h
          BY <1>0, <1>8, <2>1, <2>2, <3>0, <3>2, <5>1 DEF TableOK, o
        <5> QED
          BY <1>4, <5>1, <5>2
      <4> QED
        BY <2>1, <2>2, <4>1, <4>2 DEF TableOK
    <3> QED
      BY <3>1, <3>2
  <2>3. ASSUME NEW k \in Fds, InUse(k)'
        PROVE  objOf'[k] # 0 /\ (objOf'[k] \notin severed => table[k] = objOf'[k])
    BY <1>0, <1>1, <1>2, <2>1, <2>3 DEF TableOK
  <2> QED
    BY <2>1, <2>2, <2>3 DEF TableOK
<1>12. NewOK'
  <2>1. NewOK
    BY DEF NumbersOK
  <2>2. \A g \in Handles : New(g) /\ g # h => requests[g].newFd # fd
    BY <1>9, <2>1 DEF NewOK
  <2>3. \A g \in Handles : New(g)' => ~Active(requests[g].newFd)'
    BY <1>2, <1>4, <1>5, <2>1, <2>2 DEF NewOK
  <2>4. \A g \in Handles : requests'[g].at = "sent" => g # h
    OBVIOUS
  <2> QED
    BY <1>4, <2>1, <2>3, <2>4 DEF NewOK
<1>13. WorkersOK'
  <2>1. WorkersOK
    BY DEF NumbersOK
  <2>2. ASSUME NEW g \in Handles, requests'[g].at = "working"
        PROVE  g # h /\ requests[g].at = "working" /\ requests'[g] = requests[g]
    BY <2>2, <1>4
  <2>3. ASSUME NEW g \in Handles, requests'[g].at = "working"
        PROVE  requests[g].fd # fd /\ (requests[g].cmd = "accept" => requests[g].newFd # fd)
    <3>1. o \notin severed
      BY <1>6, <2>2, <2>3 DEF AllLost
    <3> QED
      BY <1>0, <1>2, <1>5, <1>8, <2>1, <2>2, <2>3, <3>1 DEF WorkersOK
  <2> QED
    BY <1>1, <1>2, <1>5, <2>1, <2>2, <2>3 DEF WorkersOK
<1>14. Lost' => AllLost'
  <2>1. Lost' => Lost
    BY <1>1, <1>2, <1>4, <1>9 DEF Lost, o
  <2>2. AllLost => AllLost'
    BY <1>1, <1>2, <1>4, <1>9 DEF AllLost, o
  <2> QED
    BY <2>1, <2>2 DEF NumbersOK
<1>15. KindsOK'
  BY <1>1, <1>2, <1>3 DEF NumbersOK, KindsOK
<1> QED
  BY <1>10, <1>11, <1>12, <1>13, <1>14, <1>15 DEF NumbersOK

-----------------------------------------------------------------------------
(* The meaning of the numbers, in the steps of the outside proxy.          *)

Pends == {"sent", "working"}

(* Whose a request under way is.                                           *)
LEMMA Whose ==
  ASSUME ValuesOK, RequestsOK, NEW h \in Handles, requests[h].at \in Pends
  PROVE  /\ requests[h].cmd \in Fns
         /\ requests[h].cmd \notin {"socket", "gethost", "closesocket"} => Active(requests[h].fd)
         /\ requests[h].cmd \in {"socket", "gethost", "closesocket"}
              => call.fn = requests[h].cmd /\ call.h = h /\ call.fd = requests[h].fd
         /\ requests[h].cmd = "closesocket" => ~Active(requests[h].fd)
         /\ requests[h].cmd \notin {"socket", "gethost"} => InUse(requests[h].fd)
<1>0. h # NULL_REQUEST
  BY DEF Handles, NULL_REQUEST
<1>1. Holder(h) /\ requests[h].at # "free" /\ requests[h].at # "rtrn" /\ requests[h].cmd # ""
  BY DEF RequestsOK, BuffersHeld, Pends
<1>2. requests[h].cmd \in {""} \cup Fns
  BY BufferTypes
<1>3. CASE WaitsFor(h)
  <2>1. /\ call.fn \in Fns /\ call.h = h /\ requests[h].cmd = call.fn /\ requests[h].fd = call.fd
        /\ call.fn \notin {"socket", "gethost", "closesocket"} => Active(call.fd)
        /\ call.fn = "closesocket" => ~Active(call.fd)
    BY <1>3 DEF RequestsOK, CallOK, WaitsFor, Fns
  <2> QED
    BY <1>1, <1>2, <2>1 DEF InUse, Pends
<1>4. CASE \E fd \in Fds : h \in {sockets[fd].recvHandle, sockets[fd].sendHandle}
  <2>1. PICK fd \in Fds : h \in {sockets[fd].recvHandle, sockets[fd].sendHandle}
    BY <1>4
  <2>2. Active(fd) /\ requests[h].fd = fd
        /\ requests[h].cmd \in {"connect", "accept", "recv", "recvfrom", "send", "sendto"}
    BY <1>0, <2>1 DEF RequestsOK, RecvHandleOK, SendHandleOK
  <2> QED
    BY <1>1, <1>2, <2>2 DEF InUse
<1> QED
  BY <1>1, <1>3, <1>4 DEF Holder

(* While a worker works or a socket is asked for, none is lost.            *)
LEMMA NoneLost ==
  ASSUME NumbersOK, NEW h \in Handles,
         requests[h].at = "working" \/ (requests[h].at = "sent" /\ requests[h].cmd = "socket")
  PROVE  ~Lost
BY DEF NumbersOK, AllLost

(* Requests are answered, but none with a new socket.                      *)
LEMMA AnsweredNumbers ==
  ASSUME ValuesOK, RequestsOK, NumbersOK, UNCHANGED <<sockets, call, table, severed, objOf>>,
         DOMAIN objs' = DOMAIN objs, \A o \in DOMAIN objs : objs'[o].kind = objs[o].kind,
         \A g \in Handles :
           \/ requests'[g] = requests[g]
           \/ /\ requests[g].at \in Pends /\ requests'[g].at \in {"done", "rcvd"} /\ ~New(g)'
              /\ requests'[g].cmd = requests[g].cmd /\ requests'[g].fd = requests[g].fd
              /\ requests[g].cmd = "closesocket" => table[requests[g].fd] \notin DOMAIN objs \ severed
  PROVE  NumbersOK'
<1>1. \A g \in Handles : New(g)' <=> New(g)
  BY DEF New, Pends
<1>2. \A g \in Handles : New(g) => requests'[g] = requests[g]
  BY DEF New, Pends
<1>3. \A g \in Handles : requests'[g].at \in Pends => requests[g].at \in Pends /\ requests'[g] = requests[g]
  BY DEF Pends
<1>4. \A k \in Fds : (Active(k)' <=> Active(k)) /\ (Has(k, "DGRAM")' <=> Has(k, "DGRAM"))
  BY DEF Active, Has
<1>5. call.fn = "closesocket" =>
        call.h \in Handles /\ call.fd \in Fds /\ requests[call.h].cmd = "closesocket"
        /\ requests[call.h].fd = call.fd
  BY CallHolds DEF Fns, SyncFns
<1>6. \A k \in Fds : InUse(k)' => InUse(k)
  BY <1>3, <1>4, <1>5 DEF InUse, Pends
<1>7. \A k \in Fds : InUse(k) => InUse(k)' \/ table[k] \notin DOMAIN objs \ severed
  BY <1>3, <1>4, <1>5 DEF InUse, Pends
<1>8. ASSUME NEW g \in Handles, requests'[g].at = "working"
      PROVE  requests[g].at = "working" /\ requests'[g] = requests[g] /\ InUse(requests[g].fd)'
  <2>1. requests[g].at = "working" /\ requests'[g] = requests[g] /\ requests[g].at \in Pends
    BY <1>3, <1>8 DEF Pends
  <2>2. requests[g].fd \in Fds /\ requests[g].cmd \notin {"socket", "gethost"}
    BY <2>1, BufferTypes DEF NumbersOK, WorkersOK
  <2>3. CASE requests[g].cmd = "closesocket"
    <3>1. call.fn = "closesocket" /\ call.h = g /\ call.fd = requests[g].fd
      BY <2>1, <2>3, Whose
    <3> QED
      BY <2>1, <3>1 DEF InUse
  <2>4. CASE requests[g].cmd # "closesocket"
    <3>1. Active(requests[g].fd)
      BY <2>1, <2>2, <2>4, Whose
    <3>2. Active(requests[g].fd)'
      BY <1>4, <2>1, <2>2, <3>1
    <3> QED
      BY <2>1, <3>2 DEF InUse
  <2> QED
    BY <2>3, <2>4
<1>9. \A g \in Handles : requests'[g].at = "sent" => requests'[g] = requests[g]
  BY <1>3 DEF Pends
<1> QED
  BY <1>1, <1>2, <1>4, <1>6, <1>7, <1>8, <1>9, NumbersFrame

(* The handler hands a request to a worker, for accept with the number of  *)
(* the connection to come.                                                 *)
LEMMA WorkerNumbers ==
  ASSUME ValuesOK, RequestsOK, NumbersOK, UNCHANGED <<sockets, call, objs, severed, objOf>>,
         NEW h \in Handles, requests[h].at = "sent", requests[h].cmd \notin {"socket", "gethost"},
         NEW fd \in Fds, fd = requests[h].fd, table[fd] # NULL,
         requests'[h].at = "working", requests'[h].cmd = requests[h].cmd, requests'[h].fd = fd,
         requests'[h].obj = table[fd],
         NEW n \in Fds, n = requests'[h].newFd,
         requests[h].cmd = "accept" => table[n] = NULL /\ table'[n] = RESERVED,
         \A k \in Fds : table'[k] = table[k] \/ (table[k] = NULL /\ table'[k] = RESERVED),
         \A g \in Handles : g # h => requests'[g] = requests[g]
  PROVE  NumbersOK'
<1>0. objs \in Seq(Objects) /\ NULL = 0 /\ NULL \notin DOMAIN objs /\ RESERVED \notin DOMAIN objs
        /\ NULL # RESERVED
  BY DEF ValuesOK, NULL, RESERVED
<1>1. ~Lost
  BY DEF NumbersOK, AllLost
<1>2. InUse(fd)
  BY Whose DEF Pends
<1>3. \A k \in Fds : InUse(k) => objOf[k] \in DOMAIN objs /\ table[k] = objOf[k] /\ objOf[k] \notin severed
  BY <1>1, EntryTypes DEF NumbersOK, TableOK, Lost
<1>4. \A k \in Fds : (Active(k)' <=> Active(k)) /\ (Has(k, "DGRAM")' <=> Has(k, "DGRAM"))
  BY DEF Active, Has
<1>5. \A k \in Fds : InUse(k)' <=> InUse(k)
  BY <1>4, CallHolds DEF InUse, Fns, SyncFns
<1>6. \A g \in Handles : /\ New(g)' <=> New(g)
                         /\ New(g) => g # h /\ requests'[g] = requests[g]
  BY DEF New
<1>7. \A g \in Handles : requests[g].fd \in Fds /\ requests[g].newFd \in Fds
  BY BufferTypes
<1>8. \A k \in Fds : table[k] # NULL => table'[k] = table[k]
  OBVIOUS
<1>9. \A k \in Fds : table'[k] \in DOMAIN objs => table'[k] = table[k]
  BY <1>0
<1>10. ObjsNamedOnce'
  BY <1>6 DEF NumbersOK, ObjsNamedOnce
<1>11. TableOK'
  <2>1. TableOK
    BY DEF NumbersOK
  <2>2. ASSUME NEW k \in Fds, table'[k] \in DOMAIN objs \ severed
        PROVE  \/ objOf[k] = table'[k] /\ InUse(k)'
               \/ \E g \in Handles : New(g)' /\ requests'[g].obj = table'[k]
    <3>1. \/ objOf[k] = table[k] /\ InUse(k)
          \/ \E g \in Handles : New(g) /\ requests[g].obj = table[k]
      BY <1>9, <2>1, <2>2 DEF TableOK
    <3> QED
      BY <1>5, <1>6, <1>9, <2>2, <3>1
  <2>3. \A k \in Fds : InUse(k)' => objOf[k] # 0 /\ table'[k] = objOf[k]
    BY <1>0, <1>3, <1>5, <1>8
  <2>4. \A a, b \in Fds : table'[a] = table'[b] => a = b \/ table'[a] \in {NULL, RESERVED}
    BY <2>1 DEF TableOK
  <2> QED
    BY <2>2, <2>3, <2>4 DEF TableOK
<1>12. NewOK'
  <2>1. NewOK
    BY DEF NumbersOK
  <2>2. ASSUME NEW g \in Handles, New(g)
        PROVE  /\ requests[g].obj \in DOMAIN objs /\ ~Active(requests[g].newFd)
               /\ requests[g].obj \notin severed => table'[requests[g].newFd] = requests[g].obj
    BY <1>0, <1>7, <1>8, <2>1, <2>2 DEF NewOK
  <2>3. \A g \in Handles : New(g)' => ~Active(requests[g].newFd)'
    BY <1>4, <1>6, <1>7, <2>2
  <2> QED
    BY <1>6, <2>1, <2>2, <2>3 DEF NewOK
<1>13. WorkersOK'
  <2>1. WorkersOK
    BY DEF NumbersOK
  <2>2. ASSUME NEW g \in Handles, requests'[g].at = "working", g # h
        PROVE  /\ requests[g].at = "working" /\ requests'[g] = requests[g]
               /\ requests[g].cmd \notin {"socket", "gethost"} /\ InUse(requests[g].fd)
               /\ requests[g].obj = objOf[requests[g].fd]
               /\ requests[g].cmd = "accept" =>
                    /\ table[requests[g].newFd] = RESERVED /\ table'[requests[g].newFd] = RESERVED
                    /\ ~Active(requests[g].newFd)
    BY <1>0, <1>7, <1>8, <2>1, <2>2 DEF WorkersOK
  <2>3. requests[h].cmd = "accept" => ~Active(n)
    BY <1>0, <1>3 DEF InUse
  <2>4. ASSUME NEW g \in Handles, requests'[g].at = "working"
        PROVE  /\ requests'[g].cmd \notin {"socket", "gethost"}
               /\ InUse(requests[g].fd)' /\ requests'[g].fd = requests[g].fd
               /\ requests'[g].obj = objOf[requests'[g].fd]
               /\ requests'[g].cmd = "accept" =>
                    table'[requests'[g].newFd] = RESERVED /\ ~Active(requests[g].newFd)'
    <3>1. CASE g = h
      BY <1>2, <1>3, <1>4, <1>5, <2>3, <3>1
    <3>2. CASE g # h
      BY <1>4, <1>5, <1>7, <2>2, <2>4, <3>2
    <3> QED
      BY <3>1, <3>2
  <2>5. ASSUME NEW g \in Handles, NEW j \in Handles,
               requests'[g].at = "working", requests'[g].cmd = "accept",
               requests'[j].at = "working", requests'[j].cmd = "accept",
               requests'[g].newFd = requests'[j].newFd
        PROVE  g = j
    <3>1. CASE g # h /\ j # h
      BY <2>1, <2>5, <3>1 DEF WorkersOK
    <3>2. CASE g # h /\ j = h
      BY <1>0, <2>2, <2>5, <3>2
    <3>3. CASE g = h /\ j # h
      BY <1>0, <2>2, <2>5, <3>3
    <3> QED
      BY <3>1, <3>2, <3>3
  <2> QED
    BY <2>4, <2>5 DEF WorkersOK
<1>14. ~Lost'
  BY <1>1, <1>5, <1>6 DEF Lost
<1>15. KindsOK'
  BY <1>4 DEF NumbersOK, KindsOK
<1> QED
  BY <1>10, <1>11, <1>12, <1>13, <1>14, <1>15 DEF NumbersOK

(* A socket is made: the answer has its number, which was free or reserved *)
(* for it.                                                                 *)
LEMMA MadeNumbers ==
  ASSUME ValuesOK, RequestsOK, NumbersOK, UNCHANGED <<sockets, call, severed, objOf>>, ~Lost,
         NEW h \in Handles, requests[h].at \in Pends,
         requests[h].cmd = "socket" \/ (requests[h].at = "working" /\ requests[h].cmd = "accept"),
         NEW n \in Fds, table[n] = IF requests[h].cmd = "socket" THEN NULL ELSE RESERVED,
         requests[h].cmd = "accept" => n = requests[h].newFd,
         NEW o, o = Len(objs) + 1, DOMAIN objs' = DOMAIN objs \cup {o},
         \A m \in DOMAIN objs : objs'[m] = objs[m],
         IF requests[h].cmd = "socket" THEN requests[h].data = <<objs'[o].kind>>
         ELSE objs'[o].kind = "stream",
         table' = [table EXCEPT ![n] = o],
         requests'[h].at = "done", requests'[h].rc = "EOK", requests'[h].obj = o,
         requests'[h].newFd = n, requests'[h].data = requests[h].data,
         requests'[h].cmd = requests[h].cmd, requests'[h].fd = requests[h].fd,
         \A g \in Handles : g # h => requests'[g] = requests[g]
  PROVE  NumbersOK'
<1>0. /\ objs \in Seq(Objects) /\ NULL = 0 /\ NULL \notin DOMAIN objs /\ RESERVED \notin DOMAIN objs
      /\ NULL # RESERVED /\ o \notin DOMAIN objs /\ o # NULL /\ o # RESERVED /\ o \notin severed
  BY DEF ValuesOK, NULL, RESERVED
<1>1. table'[n] = o /\ \A k \in Fds : k # n => table'[k] = table[k]
  BY DEF ValuesOK
<1>2. table[n] \notin DOMAIN objs
  BY <1>0
<1>3. \A k \in Fds : InUse(k) => objOf[k] \in DOMAIN objs /\ table[k] = objOf[k] /\ objOf[k] \notin severed
                                 /\ k # n
  BY <1>2, EntryTypes DEF NumbersOK, TableOK, Lost
<1>4. \A k \in Fds : /\ (Active(k)' <=> Active(k)) /\ (Has(k, "DGRAM")' <=> Has(k, "DGRAM"))
                     /\ Active(k) => InUse(k)
  BY DEF Active, Has, InUse
<1>5. \A k \in Fds : InUse(k)' <=> InUse(k)
  <2>1. call.fn = "closesocket" => call.h \in Handles /\ call.h # h
    BY CallHolds DEF Fns, SyncFns
  <2> QED
    BY <1>4, <2>1 DEF InUse
<1>6. /\ New(h)' /\ ~New(h)
      /\ \A g \in Handles : g # h => (New(g)' <=> New(g))
  BY DEF New, Pends
<1>7. \A g \in Handles : requests[g].fd \in Fds /\ requests[g].newFd \in Fds
  BY BufferTypes
<1>8. ASSUME NEW g \in Handles, New(g)
      PROVE  /\ g # h /\ requests'[g] = requests[g]
             /\ requests[g].obj \in DOMAIN objs /\ requests[g].obj \notin severed
             /\ ~Active(requests[g].newFd) /\ table[requests[g].newFd] = requests[g].obj
             /\ requests[g].newFd # n
  BY <1>2, <1>6, <1>8 DEF NumbersOK, NewOK, Lost
<1>9. \A k \in Fds : objOf[k] # o
  BY <1>0, EntryTypes
<1>10. ObjsNamedOnce'
  <2>1. ObjsNamedOnce
    BY DEF NumbersOK
  <2> QED
    BY <1>0, <1>6, <1>8, <1>9, <2>1 DEF ObjsNamedOnce
<1>11. TableOK'
  <2>1. TableOK
    BY DEF NumbersOK
  <2>2. ASSUME NEW k \in Fds, table'[k] \in DOMAIN objs' \ severed
        PROVE  \/ objOf[k] = table'[k] /\ InUse(k)'
               \/ \E g \in Handles : New(g)' /\ requests'[g].obj = table'[k]
    <3>1. CASE k = n
      BY <1>1, <1>6, <3>1
    <3>2. CASE k # n
      <4>1. table'[k] = table[k] /\ table[k] \in {NULL, RESERVED} \cup DOMAIN objs
        BY <1>1, <3>2, EntryTypes
      <4>2. table[k] \in DOMAIN objs \ severed
        BY <1>0, <2>2, <4>1
      <4>3. \/ objOf[k] = table[k] /\ InUse(k)
            \/ \E g \in Handles : New(g) /\ requests[g].obj = table[k]
        BY <2>1, <4>2 DEF TableOK
      <4> QED
        BY <1>5, <1>6, <1>8, <4>1, <4>3
    <3> QED
      BY <3>1, <3>2
  <2>3. \A k \in Fds : InUse(k)' => objOf[k] # 0 /\ table'[k] = objOf[k]
    BY <1>0, <1>1, <1>3, <1>5
  <2>4. \A a, b \in Fds : table'[a] = table'[b] => a = b \/ table'[a] \in {NULL, RESERVED}
    <3>1. \A k \in Fds : table[k] # o
      BY <1>0, EntryTypes
    <3> QED
      BY <1>1, <2>1, <3>1 DEF TableOK
  <2> QED
    BY <2>2, <2>3, <2>4 DEF TableOK
<1>12. NewOK'
  <2>1. NewOK
    BY DEF NumbersOK
  <2>2. ASSUME NEW g \in Handles, New(g)'
        PROVE  /\ requests'[g].obj \in DOMAIN objs'
               /\ ~Active(requests[g].newFd)'
               /\ table'[requests'[g].newFd] = requests'[g].obj
               /\ IF requests'[g].cmd = "socket"
                  THEN requests'[g].data = <<objs'[requests'[g].obj].kind>>
                  ELSE objs'[requests'[g].obj].kind = "stream"
    <3>1. CASE g = h
      <4>1. ~Active(n)'
        BY <1>3, <1>4
      <4> QED
        BY <1>1, <3>1, <4>1
    <3>2. CASE g # h
      <4>1. New(g) /\ requests'[g] = requests[g]
        BY <1>6, <2>2, <3>2
      <4>2. IF requests[g].cmd = "socket" THEN requests[g].data = <<objs[requests[g].obj].kind>>
            ELSE objs[requests[g].obj].kind = "stream"
        BY <2>1, <4>1 DEF NewOK
      <4>3. objs'[requests[g].obj] = objs[requests[g].obj]
        BY <1>8, <4>1
      <4>4. ~Active(requests[g].newFd)'
        BY <1>4, <1>7, <1>8, <4>1
      <4> QED
        BY <1>1, <1>7, <1>8, <4>1, <4>2, <4>3, <4>4
    <3> QED
      BY <3>1, <3>2
  <2>3. \A g, j \in Handles : New(g)' /\ New(j)' /\ requests'[g].newFd = requests'[j].newFd => g = j
    BY <1>6, <1>8, <2>1 DEF NewOK
  <2>4. \A g \in Handles : requests'[g].at = "sent" /\ requests'[g].cmd = "socket"
                             => requests'[g].data \in Kinds
    BY <2>1 DEF NewOK
  <2> QED
    BY <2>2, <2>3, <2>4 DEF NewOK
<1>13. WorkersOK'
  <2>1. WorkersOK
    BY DEF NumbersOK
  <2>2. ASSUME NEW g \in Handles, requests'[g].at = "working"
        PROVE  /\ requests[g].at = "working" /\ requests'[g] = requests[g] /\ g # h
               /\ requests[g].cmd = "accept" => requests[g].newFd # n
    <3>1. requests[g].at = "working" /\ requests'[g] = requests[g] /\ g # h
      BY <2>2
    <3>2. requests[g].cmd = "accept" => table[requests[g].newFd] = RESERVED
      BY <2>1, <3>1 DEF WorkersOK
    <3>3. requests[g].cmd = "accept" /\ requests[h].cmd = "accept" => requests[g].newFd # requests[h].newFd
      BY <2>1, <3>1 DEF WorkersOK
    <3> QED
      BY <1>0, <3>1, <3>2, <3>3
  <2> QED
    BY <1>1, <1>4, <1>5, <1>7, <2>1, <2>2 DEF WorkersOK
<1>14. ~Lost'
  BY <1>0, <1>5, <1>6, <1>8 DEF Lost
<1>15. KindsOK'
  BY <1>3, <1>4 DEF NumbersOK, KindsOK
<1> QED
  BY <1>10, <1>11, <1>12, <1>13, <1>14, <1>15 DEF NumbersOK

(* A number becomes free: that of a socket that is closed, or one that was *)
(* reserved for a connection that does not come.                           *)
LEMMA DroppedNumbers ==
  ASSUME ValuesOK, RequestsOK, NumbersOK, UNCHANGED <<sockets, call, severed, objOf>>,
         DOMAIN objs' = DOMAIN objs, \A o \in DOMAIN objs : objs'[o].kind = objs[o].kind,
         NEW h \in Handles, requests[h].at = "working", requests[h].cmd \in {"accept", "closesocket"},
         NEW n \in Fds, n = IF requests[h].cmd = "accept" THEN requests[h].newFd ELSE requests[h].fd,
         table' = [table EXCEPT ![n] = NULL],
         requests'[h].at = "done", ~New(h)',
         requests'[h].cmd = requests[h].cmd, requests'[h].fd = requests[h].fd,
         \A g \in Handles : g # h => requests'[g] = requests[g]
  PROVE  NumbersOK'
<1>0. objs \in Seq(Objects) /\ NULL = 0 /\ NULL \notin DOMAIN objs /\ RESERVED \notin DOMAIN objs
      /\ NULL # RESERVED
  BY DEF ValuesOK, NULL, RESERVED
<1>1. table'[n] = NULL /\ \A k \in Fds : k # n => table'[k] = table[k]
  BY DEF ValuesOK
<1>2. ~Lost
  BY NoneLost
<1>3. \A k \in Fds : InUse(k) => objOf[k] \in DOMAIN objs /\ table[k] = objOf[k] /\ objOf[k] \notin severed
  BY <1>2, EntryTypes DEF NumbersOK, TableOK, Lost
<1>4. \A k \in Fds : /\ (Active(k)' <=> Active(k)) /\ (Has(k, "DGRAM")' <=> Has(k, "DGRAM"))
                     /\ Active(k) => InUse(k)
  BY DEF Active, Has, InUse
<1>5. \A g \in Handles : requests[g].fd \in Fds /\ requests[g].newFd \in Fds
  BY BufferTypes
<1>6. /\ requests[h].cmd = "accept" => table[n] = RESERVED /\ ~Active(n)
      /\ requests[h].cmd = "closesocket" => /\ call.fn = "closesocket" /\ call.h = h /\ call.fd = n
                                            /\ ~Active(n) /\ InUse(n)
  BY Whose DEF NumbersOK, WorkersOK, Pends
<1>7. requests[h].cmd = "closesocket" => table[n] = objOf[n] /\ table[n] \in DOMAIN objs
  BY <1>3, <1>6
<1>8. ~Active(n)
  BY <1>6
<1>9. \A k \in Fds : InUse(k)' <=> InUse(k) /\ k # n
  <2>1. CASE requests[h].cmd = "closesocket"
    BY <1>4, <1>6, <2>1 DEF InUse
  <2>2. CASE requests[h].cmd = "accept"
    <3>1. call.fn = "closesocket" => call.h \in Handles /\ call.h # h
      BY <2>2, CallHolds DEF Fns, SyncFns
    <3>2. ~InUse(n)
      BY <1>0, <1>3, <1>6, <2>2
    <3> QED
      BY <1>4, <3>1, <3>2 DEF InUse
  <2> QED
    BY <2>1, <2>2
<1>10. \A g \in Handles : /\ New(g)' <=> New(g)
                          /\ New(g) => g # h /\ requests'[g] = requests[g]
  BY DEF New
<1>11. ASSUME NEW g \in Handles, New(g)
       PROVE  /\ requests[g].obj \in DOMAIN objs /\ requests[g].obj \notin severed
              /\ ~Active(requests[g].newFd) /\ table[requests[g].newFd] = requests[g].obj
              /\ requests[g].newFd # n
  <2>1. /\ requests[g].obj \in DOMAIN objs /\ requests[g].obj \notin severed
        /\ ~Active(requests[g].newFd) /\ table[requests[g].newFd] = requests[g].obj
    BY <1>2, <1>11 DEF NumbersOK, NewOK, Lost
  <2>2. requests[g].obj # objOf[n]
    BY <1>11 DEF NumbersOK, ObjsNamedOnce
  <2> QED
    BY <1>0, <1>6, <1>7, <2>1, <2>2
<1>12. ObjsNamedOnce'
  BY <1>10 DEF NumbersOK, ObjsNamedOnce
<1>13. TableOK'
  <2>1. TableOK
    BY DEF NumbersOK
  <2>2. ASSUME NEW k \in Fds, table'[k] \in DOMAIN objs \ severed
        PROVE  \/ objOf[k] = table'[k] /\ InUse(k)'
               \/ \E g \in Handles : New(g)' /\ requests'[g].obj = table'[k]
    <3>1. k # n /\ table'[k] = table[k]
      BY <1>0, <1>1, <2>2
    <3>2. \/ objOf[k] = table[k] /\ InUse(k)
          \/ \E g \in Handles : New(g) /\ requests[g].obj = table[k]
      BY <2>1, <2>2, <3>1 DEF TableOK
    <3> QED
      BY <1>9, <1>10, <3>1, <3>2
  <2>3. \A k \in Fds : InUse(k)' => objOf[k] # 0 /\ table'[k] = objOf[k]
    BY <1>0, <1>1, <1>3, <1>9
  <2>4. \A a, b \in Fds : table'[a] = table'[b] => a = b \/ table'[a] \in {NULL, RESERVED}
    BY <1>1, <2>1 DEF TableOK
  <2> QED
    BY <2>2, <2>3, <2>4 DEF TableOK
<1>14. NewOK'
  <2>1. NewOK
    BY DEF NumbersOK
  <2>2. \A g \in Handles : New(g)' => /\ ~Active(requests[g].newFd)'
                                      /\ table'[requests'[g].newFd] = requests'[g].obj
    BY <1>1, <1>4, <1>5, <1>10, <1>11
  <2>3. \A g \in Handles : New(g)' => /\ requests'[g].obj \in DOMAIN objs'
                                      /\ requests'[g] = requests[g]
                                      /\ objs'[requests'[g].obj].kind = objs[requests[g].obj].kind
    BY <1>10, <1>11
  <2> QED
    BY <1>10, <2>1, <2>2, <2>3 DEF NewOK
<1>15. WorkersOK'
  <2>1. WorkersOK
    BY DEF NumbersOK
  <2>2. ASSUME NEW g \in Handles, requests'[g].at = "working"
        PROVE  /\ requests[g].at = "working" /\ requests'[g] = requests[g] /\ g # h
               /\ requests[g].cmd = "accept" => requests[g].newFd # n
               /\ InUse(requests[g].fd) /\ requests[g].fd # n
    <3>1. requests[g].at = "working" /\ requests'[g] = requests[g] /\ g # h
      BY <2>2
    <3>2. /\ requests[g].cmd = "accept" => table[requests[g].newFd] = RESERVED
          /\ requests[g].cmd \notin {"socket", "gethost"} /\ InUse(requests[g].fd)
      BY <2>1, <3>1 DEF WorkersOK
    <3>3. requests[g].cmd = "accept" /\ requests[h].cmd = "accept" => requests[g].newFd # requests[h].newFd
      BY <2>1, <3>1 DEF WorkersOK
    <3>4. requests[g].cmd = "accept" => requests[g].newFd # n
      BY <1>0, <1>7, <3>2, <3>3
    <3>5. requests[g].cmd # "closesocket" => Active(requests[g].fd)
      BY <3>1, <3>2, Whose DEF Pends
    <3>6. requests[g].cmd = "closesocket" => requests[h].cmd # "closesocket" /\ InUse(requests[g].fd)
      BY <1>6, <3>1, <3>2, Whose DEF Pends
    <3>7. requests[g].fd # n
      BY <1>0, <1>3, <1>5, <1>6, <3>5, <3>6
    <3> QED
      BY <3>1, <3>2, <3>4, <3>7
  <2> QED
    BY <1>1, <1>4, <1>5, <1>9, <2>1, <2>2 DEF WorkersOK
<1>16. ~Lost'
  BY <1>2, <1>9, <1>10 DEF Lost
<1>17. KindsOK'
  BY <1>3, <1>4 DEF NumbersOK, KindsOK
<1> QED
  BY <1>12, <1>13, <1>14, <1>15, <1>16, <1>17 DEF NumbersOK

(* The request to close a socket is rejected: the handler keeps it.        *)
LEMMA SeveredNumbers ==
  ASSUME ValuesOK, RequestsOK, NumbersOK, UNCHANGED <<sockets, call, table, objs, objOf>>,
         NEW h \in Handles, requests[h].at = "sent", requests[h].cmd = "closesocket",
         NEW n \in Fds, n = requests[h].fd, severed' = severed \cup {objOf[n]},
         requests'[h].at = "rcvd", ~New(h)',
         requests'[h].cmd = requests[h].cmd, requests'[h].fd = requests[h].fd,
         \A g \in Handles : g # h => requests'[g] = requests[g]
  PROVE  NumbersOK'
<1>1. /\ call.fn = "closesocket" /\ call.h = h /\ call.fd = n /\ ~Active(n) /\ InUse(n)
  BY Whose DEF Pends
<1>2. \A k \in Fds : /\ (Active(k)' <=> Active(k)) /\ (Has(k, "DGRAM")' <=> Has(k, "DGRAM"))
                     /\ Active(k) => InUse(k)
  BY DEF Active, Has, InUse
<1>3. \A k \in Fds : InUse(k)' <=> InUse(k) /\ k # n
  BY <1>1, <1>2 DEF InUse
<1>4. \A g \in Handles : /\ New(g)' <=> New(g)
                         /\ New(g) => g # h /\ requests'[g] = requests[g]
  BY DEF New
<1>5. \A g \in Handles : requests[g].fd \in Fds /\ requests[g].newFd \in Fds
  BY BufferTypes
<1>6. ObjsNamedOnce /\ TableOK /\ NewOK /\ WorkersOK /\ KindsOK /\ (Lost => AllLost)
  BY DEF NumbersOK
<1>7. /\ \A k \in Fds : InUse(k)' => objOf[k] # objOf[n]
      /\ \A g \in Handles : New(g) => requests[g].obj # objOf[n]
  BY <1>1, <1>3, <1>6 DEF ObjsNamedOnce, TableOK
<1>8. ObjsNamedOnce'
  BY <1>4, <1>6 DEF ObjsNamedOnce
<1>9. TableOK'
  <2>1. ASSUME NEW k \in Fds, table[k] \in DOMAIN objs \ severed'
        PROVE  \/ objOf[k] = table[k] /\ InUse(k)'
               \/ \E g \in Handles : New(g)' /\ requests'[g].obj = table[k]
    <3>1. \/ objOf[k] = table[k] /\ InUse(k)
          \/ \E g \in Handles : New(g) /\ requests[g].obj = table[k]
      BY <1>6, <2>1 DEF TableOK
    <3> QED
      BY <1>3, <1>4, <2>1, <3>1
  <2>2. \A k \in Fds : InUse(k)' => objOf[k] # 0 /\ (objOf[k] \notin severed' => table[k] = objOf[k])
    BY <1>3, <1>6 DEF TableOK
  <2> QED
    BY <1>6, <2>1, <2>2 DEF TableOK
<1>10. NewOK'
  <2>1. \A g \in Handles : New(g)' => ~Active(requests[g].newFd)'
    BY <1>2, <1>4, <1>5, <1>6 DEF NewOK
  <2> QED
    BY <1>4, <1>6, <2>1 DEF NewOK
<1>11. WorkersOK'
  <2>1. ASSUME NEW g \in Handles, requests'[g].at = "working"
        PROVE  /\ requests[g].at = "working" /\ requests'[g] = requests[g] /\ g # h
               /\ InUse(requests[g].fd) /\ requests[g].fd # n
    <3>1. requests[g].at = "working" /\ requests'[g] = requests[g] /\ g # h
      BY <2>1
    <3>2. requests[g].cmd \notin {"socket", "gethost"} /\ InUse(requests[g].fd)
      BY <1>6, <3>1 DEF WorkersOK
    <3>3. requests[g].cmd # "closesocket"
      BY <1>1, <3>1, Whose DEF Pends
    <3>4. Active(requests[g].fd)
      BY <3>1, <3>2, <3>3, Whose DEF Pends
    <3> QED
      BY <1>1, <3>1, <3>2, <3>4
  <2> QED
    BY <1>2, <1>3, <1>5, <1>6, <2>1 DEF WorkersOK
<1>12. Lost' => AllLost'
  <2>1. Lost' => Lost
    BY <1>3, <1>4, <1>7 DEF Lost
  <2>2. AllLost => AllLost'
    BY <1>3, <1>4 DEF AllLost
  <2> QED
    BY <1>6, <2>1, <2>2
<1>13. KindsOK'
  BY <1>2, <1>6 DEF KindsOK
<1> QED
  BY <1>8, <1>9, <1>10, <1>11, <1>12, <1>13 DEF NumbersOK

(* The connection to the host is lost, and with it every socket.           *)
LEMMA ReconnectNumbers ==
  ASSUME ValuesOK, RequestsOK, NumbersOK, UNCHANGED <<sockets, call, objOf>>,
         DOMAIN objs' = DOMAIN objs, \A o \in DOMAIN objs : objs'[o].kind = objs[o].kind,
         severed' = DOMAIN objs, \A k \in Fds : table'[k] = NULL,
         \A g \in Handles :
           IF g \in Underway THEN requests'[g].at = "rcvd" /\ ~New(g)'
           ELSE requests'[g] = requests[g]
  PROVE  NumbersOK'
<1>1. \A g \in Handles : /\ New(g)' => New(g) /\ requests'[g] = requests[g]
                         /\ requests'[g].at \notin Pends
  BY DEF New, Underway, Pends
<1>2. \A k \in Fds : /\ (Active(k)' <=> Active(k)) /\ (Has(k, "DGRAM")' <=> Has(k, "DGRAM"))
                     /\ Active(k) => InUse(k)
  BY DEF Active, Has, InUse
<1>3. \A k \in Fds : InUse(k)' => InUse(k)
  <2>1. call.fn = "closesocket" => call.h \in Handles
    BY CallHolds DEF Fns, SyncFns
  <2> QED
    BY <1>1, <1>2, <2>1 DEF InUse, Pends
<1>4. \A k \in Fds : InUse(k) => objOf[k] # 0 /\ objOf[k] \in DOMAIN objs
  BY EntryTypes DEF NumbersOK, TableOK
<1>5. \A g \in Handles : New(g) => requests[g].obj \in DOMAIN objs /\ ~Active(requests[g].newFd)
  BY DEF NumbersOK, NewOK
<1>6. NULL \notin DOMAIN objs
  BY DEF ValuesOK, NULL
<1>7. ObjsNamedOnce'
  BY <1>1 DEF NumbersOK, ObjsNamedOnce
<1>8. TableOK'
  BY <1>3, <1>4, <1>6 DEF TableOK
<1>9. NewOK'
  <2>1. \A g \in Handles : New(g)' => ~Active(requests[g].newFd)'
    BY <1>1, <1>2, <1>5, BufferTypes
  <2>2. NewOK /\ \A g \in Handles : requests'[g].at # "sent"
    BY <1>1 DEF NumbersOK, Pends
  <2> QED
    BY <1>1, <1>5, <2>1, <2>2 DEF NewOK
<1>10. WorkersOK'
  BY <1>1 DEF WorkersOK, Pends
<1>11. AllLost'
  BY <1>1, <1>3, <1>4, <1>5 DEF AllLost, Pends
<1>12. KindsOK'
  BY <1>2, <1>4 DEF NumbersOK, KindsOK
<1> QED
  BY <1>7, <1>8, <1>9, <1>10, <1>11, <1>12 DEF NumbersOK

(* An answer arrives, or a peer does something.                            *)
LEMMA PassedNumbers ==
  ASSUME ValuesOK, RequestsOK, NumbersOK, UNCHANGED <<sockets, call, table, severed, objOf>>,
         DOMAIN objs' = DOMAIN objs, \A o \in DOMAIN objs : objs'[o].kind = objs[o].kind,
         \A g \in Handles :
           \/ requests'[g] = requests[g]
           \/ /\ requests[g].at = "done" /\ requests'[g].at = "rcvd"
              /\ requests'[g].cmd = requests[g].cmd /\ requests'[g].rc = requests[g].rc
              /\ requests'[g].obj = requests[g].obj /\ requests'[g].newFd = requests[g].newFd
              /\ requests'[g].data = requests[g].data
  PROVE  NumbersOK'
<1>1. \A g \in Handles : New(g)' <=> New(g)
  BY DEF New
<1>2. \A g \in Handles : requests'[g].at \in Pends => requests[g].at \in Pends /\ requests'[g] = requests[g]
  BY DEF Pends
<1>3. \A k \in Fds : (Active(k)' <=> Active(k)) /\ (Has(k, "DGRAM")' <=> Has(k, "DGRAM"))
  BY DEF Active, Has
<1>4. \A k \in Fds : InUse(k)' <=> InUse(k)
  <2>1. call.fn = "closesocket" => call.h \in Handles
    BY CallHolds DEF Fns, SyncFns
  <2> QED
    BY <1>2, <1>3, <2>1 DEF InUse, Pends
<1>5. \A g \in Handles : requests[g].at = "working" => requests[g].fd \in Fds /\ InUse(requests[g].fd)
  BY BufferTypes DEF NumbersOK, WorkersOK
<1>6. ASSUME NEW g \in Handles, requests'[g].at = "working"
      PROVE  requests[g].at = "working" /\ requests'[g] = requests[g] /\ InUse(requests[g].fd)'
  BY <1>2, <1>4, <1>5, <1>6 DEF Pends
<1>7. \A g \in Handles : requests'[g].at = "sent" => requests'[g] = requests[g]
  BY <1>2 DEF Pends
<1> QED
  BY <1>1, <1>3, <1>4, <1>6, <1>7, NumbersFrame

-----------------------------------------------------------------------------
(* Bytes.                                                                  *)

(* No buffer has the handle that means none.                               *)
LEMMA NotNull == \A h \in Handles : h # NULL_REQUEST
BY DEF Handles, NULL_REQUEST

(* The fields of a socket of the handler have their types.                 *)
LEMMA ObjectTypes ==
  ASSUME ValuesOK, NEW o \in DOMAIN objs
  PROVE  /\ objs[o] \in Objects /\ objs[o].kind \in {"stream", "dgram"}
         /\ objs[o].st \in {"new", "bound", "server", "conn", "shut", "closed"}
         /\ objs[o].peer \in 0 .. MaxBytes /\ objs[o].read \in 0 .. MaxBytes
         /\ objs[o].peer \in Nat /\ objs[o].read \in Nat
         /\ objs[o].fin \in BOOLEAN /\ objs[o].out \in Seq(Nat)
<1>1. objs[o] \in Objects
  BY DEF ValuesOK
<1>2. \A n \in 0 .. MaxBytes : n \in Nat
  BY SocketBounds
<1> QED
  BY <1>1, <1>2 DEF Objects

Waits == {"connect", "accept", "recv", "recvfrom"}

(* Of a socket at most one request for receiving, connecting or accepting  *)
(* is in use, and at most one for sending.                                 *)
LEMMA OneReceive ==
  ASSUME ValuesOK, RequestsOK, NEW g \in Handles, NEW h \in Handles,
         requests[g].at # "free", requests[h].at # "free",
         requests[g].cmd \in Waits, requests[h].cmd \in Waits, requests[g].fd = requests[h].fd
  PROVE  g = h
<1>0. g # NULL_REQUEST /\ h # NULL_REQUEST
  BY DEF Handles, NULL_REQUEST
<1>1. \A j \in Handles : requests[j].at # "free" /\ requests[j].cmd \in Waits =>
        WaitsFor(j) \/ sockets[requests[j].fd].recvHandle = j
  <2> SUFFICES ASSUME NEW j \in Handles, requests[j].at # "free", requests[j].cmd \in Waits, ~WaitsFor(j)
               PROVE  sockets[requests[j].fd].recvHandle = j
    OBVIOUS
  <2>0. j # NULL_REQUEST
    BY NotNull
  <2>1. Holder(j)
    BY DEF RequestsOK, BuffersHeld, Waits
  <2>2. PICK fd \in Fds : j \in {sockets[fd].recvHandle, sockets[fd].sendHandle}
    BY <2>1 DEF Holder
  <2>3. j # sockets[fd].sendHandle
    BY <2>0 DEF RequestsOK, SendHandleOK, Waits
  <2>4. requests[j].fd = fd
    BY <2>0, <2>2, <2>3 DEF RequestsOK, RecvHandleOK
  <2> QED
    BY <2>2, <2>3, <2>4
<1>2. \A j \in Handles : WaitsFor(j) /\ requests[j].cmd \in Waits =>
        call.h = j /\ sockets[requests[j].fd].recvHandle = NULL_REQUEST
  BY DEF RequestsOK, CallOK, WaitsFor, Waits, AsyncFns, Sends, Receives
<1> QED
  BY <1>0, <1>1, <1>2

(* A socket has at most one send on its way.                               *)
LEMMA OneSend ==
  ASSUME ValuesOK, RequestsOK, NEW g \in Handles, NEW h \in Handles,
         requests[g].at # "free", requests[h].at # "free",
         requests[g].cmd \in Sends, requests[h].cmd \in Sends, requests[g].fd = requests[h].fd
  PROVE  g = h
<1>0. g # NULL_REQUEST /\ h # NULL_REQUEST
  BY DEF Handles, NULL_REQUEST
<1>1. \A j \in Handles : requests[j].at # "free" /\ requests[j].cmd \in Sends =>
        WaitsFor(j) \/ sockets[requests[j].fd].sendHandle = j
  <2> SUFFICES ASSUME NEW j \in Handles, requests[j].at # "free", requests[j].cmd \in Sends, ~WaitsFor(j)
               PROVE  sockets[requests[j].fd].sendHandle = j
    OBVIOUS
  <2>0. j # NULL_REQUEST
    BY NotNull
  <2>1. Holder(j)
    BY DEF RequestsOK, BuffersHeld, Sends
  <2>2. PICK fd \in Fds : j \in {sockets[fd].recvHandle, sockets[fd].sendHandle}
    BY <2>1 DEF Holder
  <2>3. j # sockets[fd].recvHandle
    BY <2>0 DEF RequestsOK, RecvHandleOK, Sends
  <2>4. requests[j].fd = fd
    BY <2>0, <2>2, <2>3 DEF RequestsOK, SendHandleOK
  <2> QED
    BY <2>2, <2>3, <2>4
<1>2. \A j \in Handles : WaitsFor(j) /\ requests[j].cmd \in Sends =>
        call.h = j /\ sockets[requests[j].fd].sendHandle = NULL_REQUEST
  BY DEF RequestsOK, CallOK, WaitsFor, Sends, AsyncFns
<1> QED
  BY <1>0, <1>1, <1>2

(* A request for bytes is one of a socket in use, and of its kind.         *)
LEMMA DataRequest ==
  ASSUME ValuesOK, RequestsOK, NumbersOK, NEW h \in Handles,
         requests[h].at # "free", requests[h].cmd \in Sends \cup Receives
  PROVE  /\ Active(requests[h].fd) /\ Object(h) \in DOMAIN objs /\ Object(h) # 0
         /\ objs[Object(h)].kind \in {"stream", "dgram"}
         /\ requests[h].cmd \in {"sendto", "recvfrom"} <=> objs[Object(h)].kind = "dgram"
<1>0. h # NULL_REQUEST /\ requests[h].fd \in Fds
  BY BufferTypes, NotNull
<1>1. Holder(h)
  BY DEF RequestsOK, BuffersHeld, Sends, Receives
<1>2. /\ Active(requests[h].fd)
      /\ requests[h].cmd \in {"sendto", "recvfrom"} <=> Has(requests[h].fd, "DGRAM")
  <2>1. CASE WaitsFor(h)
    BY <2>1 DEF RequestsOK, CallOK, WaitsFor, Sends, Receives
  <2>2. CASE ~WaitsFor(h)
    <3>1. PICK fd \in Fds : h \in {sockets[fd].recvHandle, sockets[fd].sendHandle}
      BY <1>1, <2>2 DEF Holder
    <3> QED
      BY <1>0, <3>1 DEF RequestsOK, RecvHandleOK, SendHandleOK, Sends, Receives
  <2> QED
    BY <2>1, <2>2
<1>3. objOf[requests[h].fd] # 0 /\ objOf[requests[h].fd] \in DOMAIN objs
  BY <1>0, <1>2, EntryTypes DEF NumbersOK, TableOK, InUse
<1>4. Has(requests[h].fd, "DGRAM") <=> objs[objOf[requests[h].fd]].kind = "dgram"
  BY <1>0, <1>2 DEF NumbersOK, KindsOK
<1>5. objs[objOf[requests[h].fd]].kind \in {"stream", "dgram"}
  BY <1>3, ObjectTypes
<1> QED
  BY <1>2, <1>3, <1>4, <1>5 DEF Object

(* Requests for the same object are requests of the same socket.           *)
LEMMA SameObject ==
  ASSUME ValuesOK, NumbersOK, NEW g \in Handles, NEW h \in Handles, Object(g) = Object(h), Object(h) # 0
  PROVE  requests[g].fd = requests[h].fd
BY BufferTypes DEF Object, NumbersOK, ObjsNamedOnce

Rest(h) == requests[h].cmd = "recv" /\ (requests[h].at = "rtrn" \/ Gathers(h))

Readable == {"new", "bound", "conn"}

(* Nothing is read or handed out.                                          *)
LEMMA ReadsFrame ==
  ASSUME ValuesOK, ReadsOK, UNCHANGED received, DOMAIN objs \subseteq DOMAIN objs',
         \A o \in DOMAIN objs :
           /\ objs'[o].kind = objs[o].kind /\ objs'[o].read = objs[o].read
           /\ objs'[o].peer \in Nat /\ objs[o].peer <= objs'[o].peer
           /\ objs[o].kind = "stream" /\ objs'[o].st \in Readable => objs[o].st \in Readable,
         \A o \in DOMAIN objs' \ DOMAIN objs :
           objs'[o].read = 0 /\ objs'[o].peer = 0 /\ received[o] = <<>>,
         \A h \in Handles : Gathers(h)' =>
           /\ Gathers(h) /\ requests'[h].cmd = requests[h].cmd /\ requests'[h].data = requests[h].data
           /\ Object(h)' = Object(h) /\ Object(h) \in DOMAIN objs,
         \A h \in Handles, o \in DOMAIN objs : Rest(h) /\ Object(h) = o /\ objs'[o].st \in Readable =>
           Rest(h)' /\ Object(h)' = o
  PROVE  ReadsOK'
<1>1. ASSUME NEW h \in Handles, Gathers(h)'
      PROVE  AnswerOK(h)'
  <2>1. AnswerOK(h)
    BY <1>1 DEF ReadsOK
  <2> QED
    BY <1>1, <2>1 DEF AnswerOK
<1>2. ASSUME NEW o \in DOMAIN objs
      PROVE  ReceivedOK(o)' /\ objs'[o].read <= objs'[o].peer
  <2>1. ReceivedOK(o) /\ objs[o].read <= objs[o].peer
    BY <1>2 DEF ReadsOK
  <2>2. objs[o].read \in Nat /\ objs[o].peer \in Nat
    BY ObjectTypes
  <2>3. objs[o].kind = "stream" /\ objs'[o].st \in Readable =>
          \/ Len(received[o]) = objs[o].read
          \/ \E h \in Handles : Object(h)' = o /\ Rest(h)'
    BY <2>1 DEF ReceivedOK, Rest, Readable
  <2> QED
    BY <2>1, <2>2, <2>3 DEF ReceivedOK, Rest, Readable
<1>3. ASSUME NEW o \in DOMAIN objs' \ DOMAIN objs
      PROVE  ReceivedOK(o)' /\ objs'[o].read <= objs'[o].peer
  BY <1>3 DEF ReceivedOK
<1> QED
  BY <1>1, <1>2, <1>3 DEF ReadsOK

(* Nothing is sent.                                                        *)
LEMMA SendsFrame ==
  ASSUME SendsOK, UNCHANGED sent, DOMAIN objs \subseteq DOMAIN objs',
         \A o \in DOMAIN objs : objs'[o].out = objs[o].out,
         \A o \in DOMAIN objs' \ DOMAIN objs : objs'[o].out = <<>> /\ sent[o].done = 0,
         \A h \in Handles : requests'[h].cmd \in Sends /\ requests'[h].at \in Live =>
           /\ requests[h].cmd \in Sends /\ Object(h)' = Object(h) /\ Object(h) \in DOMAIN objs
           /\ requests'[h].at \in Pends => requests[h].at \in Pends /\ requests'[h].data = requests[h].data
           /\ requests'[h].at \in {"done", "rcvd"} /\ requests'[h].rc = "EOK" =>
                requests[h].at \in {"done", "rcvd"} /\ requests[h].rc = "EOK"
  PROVE  SendsOK'
<1>1. ASSUME NEW h \in Handles, requests'[h].cmd \in Sends
      PROVE  SendOK(h)'
  <2>0. CASE requests'[h].at \notin Live
    BY <2>0 DEF SendOK, Live
  <2>a. SUFFICES ASSUME requests'[h].at \in Live
                 PROVE  SendOK(h)'
    BY <2>0
  <2>1. SendOK(h)
    BY <1>1, <2>a DEF SendsOK
  <2>2. requests'[h].at \in {"sent", "working"} => 
          /\ requests'[h].data = <<sent[Object(h)].begun>>
          /\ \A i \in DOMAIN objs'[Object(h)].out : objs'[Object(h)].out[i] < sent[Object(h)].begun
    BY <1>1, <2>1, <2>a DEF SendOK, Pends
  <2>3. requests'[h].at \in {"done", "rcvd"} /\ requests'[h].rc = "EOK" =>
          sent[Object(h)].done < Len(objs'[Object(h)].out)
    BY <1>1, <2>1, <2>a DEF SendOK, Pends
  <2> QED
    BY <1>1, <2>2, <2>3, <2>a DEF SendOK
<1>2. ASSUME NEW o \in DOMAIN objs
      PROVE  SentOK(o)'
  BY <1>2 DEF SendsOK, SentOK
<1>3. ASSUME NEW o \in DOMAIN objs' \ DOMAIN objs
      PROVE  SentOK(o)'
  BY <1>3 DEF SentOK
<1> QED
  BY <1>1, <1>2, <1>3 DEF SendsOK

(* The bytes of one object are read or handed out.                         *)
LEMMA ReadsAt ==
  ASSUME ReadsOK, DOMAIN objs' = DOMAIN objs, NEW o \in DOMAIN objs,
         \A m \in DOMAIN objs : m # o => objs'[m] = objs[m] /\ received'[m] = received[m],
         ReceivedOK(o)', objs'[o].read <= objs'[o].peer,
         \A g \in Handles : Gathers(g)' =>
           \/ AnswerOK(g)'
           \/ /\ Gathers(g) /\ requests'[g].cmd = requests[g].cmd /\ requests'[g].data = requests[g].data
              /\ Object(g)' = Object(g) /\ Object(g) \in DOMAIN objs /\ Object(g) # o,
         \A g \in Handles : Rest(g) /\ Object(g) # o => Rest(g)' /\ Object(g)' = Object(g)
  PROVE  ReadsOK'
<1>1. ASSUME NEW g \in Handles, Gathers(g)'
      PROVE  AnswerOK(g)'
  <2>1. CASE AnswerOK(g)'
    BY <2>1
  <2>2. CASE ~AnswerOK(g)'
    <3>1. /\ AnswerOK(g) /\ requests'[g].cmd = requests[g].cmd /\ requests'[g].data = requests[g].data
          /\ Object(g)' = Object(g) /\ Object(g) \in DOMAIN objs /\ Object(g) # o
      BY <1>1, <2>2 DEF ReadsOK
    <3>2. objs'[Object(g)] = objs[Object(g)] /\ received'[Object(g)] = received[Object(g)]
      BY <3>1
    <3> QED
      BY <3>1, <3>2 DEF AnswerOK
  <2> QED
    BY <2>1, <2>2
<1>2. ASSUME NEW m \in DOMAIN objs, m # o
      PROVE  ReceivedOK(m)' /\ objs'[m].read <= objs'[m].peer
  <2>1. ReceivedOK(m) /\ objs[m].read <= objs[m].peer /\ objs'[m] = objs[m] /\ received'[m] = received[m]
    BY <1>2 DEF ReadsOK
  <2>2. objs[m].kind = "stream" /\ objs[m].st \in Readable =>
          \/ Len(received[m]) = objs[m].read
          \/ \E h \in Handles : Object(h)' = m /\ Rest(h)'
    BY <1>2, <2>1 DEF ReceivedOK, Rest, Readable
  <2> QED
    BY <2>1, <2>2 DEF ReceivedOK, Rest, Readable
<1> QED
  BY <1>1, <1>2 DEF ReadsOK

(* Requests to receive are for different objects.                          *)
LEMMA OtherObject ==
  ASSUME ValuesOK, RequestsOK, NumbersOK, NEW g \in Handles, NEW h \in Handles, g # h,
         requests[g].at # "free", requests[h].at # "free",
         \/ requests[g].cmd \in Receives /\ requests[h].cmd \in Receives
         \/ requests[g].cmd \in Sends /\ requests[h].cmd \in Sends
  PROVE  Object(g) # Object(h)
<1>1. Object(h) # 0
  BY DataRequest
<1>2. Receives \subseteq Waits
  BY DEF Receives, Waits
<1> QED
  BY <1>1, <1>2, SameObject, OneReceive, OneSend

(* A request that holds bytes not handed out yet is an answered receive.   *)
LEMMA GatherTypes ==
  ASSUME NEW h \in Handles, Gathers(h) \/ Rest(h)
  PROVE  requests[h].at # "free" /\ requests[h].at # "working" /\ requests[h].cmd \in Receives
BY DEF Gathers, Rest, Receives

(* Without an answer that the program has yet to get, all that was read    *)
(* from a connection has been handed out.                                  *)
LEMMA AllGathered ==
  ASSUME ValuesOK, RequestsOK, NumbersOK, ReadsOK, NEW h \in Handles,
         requests[h].at = "working", requests[h].cmd = "recv",
         NEW o \in DOMAIN objs, o = Object(h), objs[o].st = "conn"
  PROVE  Len(received[o]) = objs[o].read /\ objs[o].kind = "stream"
<1>1. objs[o].kind = "stream"
  BY DataRequest DEF Receives
<1>2. ~\E g \in Handles : Object(g) = o /\ Rest(g)
  <2> SUFFICES ASSUME NEW g \in Handles, Object(g) = o, Rest(g)
               PROVE  FALSE
    OBVIOUS
  <2>1. requests[g].at # "free" /\ requests[g].at # "working" /\ requests[g].cmd \in Receives
    BY GatherTypes
  <2>2. g # h /\ requests[h].cmd \in Receives
    BY <2>1 DEF Receives
  <2> QED
    BY <2>1, <2>2, OtherObject
<1> QED
  BY <1>1, <1>2 DEF ReadsOK, ReceivedOK, Rest

(* A worker answers with what it has read.                                 *)
LEMMA ReadBytes ==
  ASSUME ValuesOK, RequestsOK, NumbersOK, ReadsOK, UNCHANGED <<objOf, received>>,
         NEW h \in Handles, requests[h].at = "working", requests[h].cmd \in Receives,
         NEW o \in DOMAIN objs, o = Object(h), DOMAIN objs' = DOMAIN objs,
         \A m \in DOMAIN objs : m # o => objs'[m] = objs[m],
         objs'[o].kind = objs[o].kind, objs'[o].st = objs[o].st, objs'[o].peer = objs[o].peer,
         NEW n \in Nat, 0 < n, objs'[o].read = objs[o].read + n, objs[o].read + n <= objs[o].peer,
         IF requests[h].cmd = "recv"
         THEN objs[o].st = "conn" /\ requests'[h].data = [k \in 1 .. n |-> objs[o].read + k]
         ELSE n = 1 /\ requests'[h].data = <<ADDR, objs[o].read + 1>>,
         requests'[h].at = "done", requests'[h].rc = "EOK",
         requests'[h].cmd = requests[h].cmd, requests'[h].fd = requests[h].fd,
         \A g \in Handles : g # h => requests'[g] = requests[g]
  PROVE  ReadsOK'
<1>1. objs[o].read \in Nat /\ objs[o].peer \in Nat /\ objs'[o].read \in Nat
  BY ObjectTypes
<1>2. ReceivedOK(o)
  BY DEF ReadsOK
<1>3. Object(h)' = o /\ \A g \in Handles : g # h => Object(g)' = Object(g)
  BY DEF Object
<1>4. ASSUME NEW g \in Handles, g # h, Gathers(g) \/ Rest(g)
      PROVE  Object(g) # o /\ Object(g) \in DOMAIN objs
  BY <1>4, GatherTypes, OtherObject, DataRequest
<1>5. CASE requests[h].cmd = "recv"
  <2>1. Len(received[o]) = objs[o].read /\ objs[o].kind = "stream"
    BY <1>5, AllGathered
  <2>2. requests'[h].data \in Seq(Nat) /\ Len(requests'[h].data) = n
        /\ \A k \in 1 .. n : requests'[h].data[k] = objs[o].read + k
    BY <1>1, <1>5
  <2>3. AnswerOK(h)'
    <3> DEFINE data == requests'[h].data
    <3>1. data \in Seq(Nat) /\ Len(data) = n /\ DOMAIN data = 1 .. n
          /\ \A k \in 1 .. n : data[k] = objs[o].read + k
      BY <2>2
    <3> HIDE DEF data
    <3>2. /\ \A k \in DOMAIN data : data[k] = Len(received'[o]) + k
          /\ Len(received'[o]) + Len(data) = objs'[o].read
      BY <2>1, <3>1
    <3>3. requests'[h].cmd = "recv" /\ Object(h)' = o
      BY <1>3, <1>5
    <3> QED
      BY <3>1, <3>2, <3>3 DEF AnswerOK, data
  <2>4. ReceivedOK(o)'
    <3>1. Gathers(h)' /\ Object(h)' = o /\ requests'[h].cmd = "recv"
      BY <1>3, <1>5 DEF Gathers
    <3> QED
      BY <1>1, <1>2, <3>1 DEF ReceivedOK
  <2>5. ASSUME NEW g \in Handles, Gathers(g)', g # h
        PROVE  /\ Gathers(g) /\ requests'[g].cmd = requests[g].cmd /\ requests'[g].data = requests[g].data
               /\ Object(g)' = Object(g) /\ Object(g) \in DOMAIN objs /\ Object(g) # o
    BY <1>3, <1>4, <2>5 DEF Gathers
  <2>6. ASSUME NEW g \in Handles, Rest(g), Object(g) # o
        PROVE  Rest(g)' /\ Object(g)' = Object(g)
    BY <1>3, <2>6 DEF Rest, Gathers
  <2> QED
    BY <2>3, <2>4, <2>5, <2>6, ReadsAt
<1>6. CASE requests[h].cmd = "recvfrom"
  <2>1. objs[o].kind = "dgram"
    BY <1>6, DataRequest DEF Receives
  <2>3. AnswerOK(h)'
    <3>1. objs[o].read + 1 \in 1 .. objs'[o].read /\ requests'[h].data = <<ADDR, objs[o].read + 1>>
      BY <1>1, <1>6
    <3>2. \A i \in DOMAIN received[o] : received[o][i] < objs[o].read + 1
      BY <1>1, <1>2 DEF ReceivedOK
    <3> QED
      BY <1>3, <1>6, <3>1, <3>2 DEF AnswerOK
  <2>4. ReceivedOK(o)'
    BY <1>1, <1>2, <2>1 DEF ReceivedOK
  <2>5. ASSUME NEW g \in Handles, Gathers(g)', g # h
        PROVE  /\ Gathers(g) /\ requests'[g].cmd = requests[g].cmd /\ requests'[g].data = requests[g].data
               /\ Object(g)' = Object(g) /\ Object(g) \in DOMAIN objs /\ Object(g) # o
    BY <1>3, <1>4, <2>5 DEF Gathers
  <2>6. ASSUME NEW g \in Handles, Rest(g), Object(g) # o
        PROVE  Rest(g)' /\ Object(g)' = Object(g)
    BY <1>3, <2>6 DEF Rest, Gathers
  <2> QED
    BY <2>3, <2>4, <2>5, <2>6, ReadsAt
<1> QED
  BY <1>5, <1>6 DEF Receives

(* The bytes of a made object are counted.                                 *)
LEMMA ObjectBound ==
  ASSUME ValuesOK, ObjsBounded, NEW o \in DOMAIN objs
  PROVE  /\ o \in 0 .. MaxObjs /\ o # 0 /\ received[o] \in Seq(Nat)
         /\ sent[o] \in [begun : Nat, done : Nat]
<1>1. Len(objs) <= program.objs /\ program.objs \in 1 .. MaxObjs /\ MaxObjs \in Nat
  BY SocketBounds DEF ValuesOK, ObjsBounded
<1>2. o \in 1 .. Len(objs) /\ Len(objs) \in Nat
  BY DEF ValuesOK
<1>3. o \in 0 .. MaxObjs /\ o # 0
  BY <1>1, <1>2
<1> QED
  BY <1>3 DEF ValuesOK

(* The numbers from 1 on are continued.                                    *)
CountsFrom(s, n) == \A k \in DOMAIN s : s[k] = n + k

(* Counted bytes, continued with the first of those that follow.           *)
LEMMA Continued ==
  ASSUME NEW r \in Seq(Nat), NEW d \in Seq(Nat), NEW n \in 0 .. Len(d),
         CountsFrom(r, 0), CountsFrom(d, Len(r))
  PROVE  /\ r \o SubSeq(d, 1, n) \in Seq(Nat) /\ Len(r \o SubSeq(d, 1, n)) = Len(r) + n
         /\ \A i \in 1 .. Len(r) + n : (r \o SubSeq(d, 1, n))[i] = i
<1> DEFINE s == SubSeq(d, 1, n)
<1>0. s \in Seq(Nat)
  OBVIOUS
<1>1. Len(s) = n /\ \A k \in 1 .. n : s[k] = d[k]
  OBVIOUS
<1>2. /\ \A k \in 1 .. n : s[k] = Len(r) + k
      /\ \A k \in 1 .. Len(r) : r[k] = k
      /\ Len(r) \in Nat /\ n \in Nat
  BY <1>1 DEF CountsFrom
<1> HIDE DEF s
<1>3. /\ r \o s \in Seq(Nat) /\ Len(r \o s) = Len(r) + n
      /\ \A i \in 1 .. Len(r) : (r \o s)[i] = r[i]
      /\ \A i \in 1 .. n : (r \o s)[Len(r) + i] = s[i]
  <2>1. /\ r \o s \in Seq(Nat) /\ Len(r \o s) = Len(r) + Len(s)
        /\ \A i \in 1 .. Len(r) : (r \o s)[i] = r[i]
        /\ \A i \in 1 .. Len(s) : (r \o s)[Len(r) + i] = s[i]
    BY <1>0, ConcatSeq
  <2> QED
    BY <1>1, <2>1, Zenon
<1>4. ASSUME NEW i \in 1 .. Len(r) + n
      PROVE  (r \o s)[i] = i
  <2>1. CASE i \in 1 .. Len(r)
    BY <1>2, <1>3, <2>1
  <2>2. CASE i \notin 1 .. Len(r)
    <3>1. i - Len(r) \in 1 .. n /\ Len(r) + (i - Len(r)) = i
      BY <1>2, <2>2
    <3>2. (r \o s)[Len(r) + (i - Len(r))] = Len(r) + (i - Len(r))
      BY <1>2, <1>3, <3>1
    <3> QED
      BY <3>1, <3>2
  <2> QED
    BY <2>1, <2>2
<1> QED
  BY <1>3, <1>4, Zenon DEF s

(* The value of a datagram is put behind its address, or left out.         *)
LEMMA OneMore ==
  ASSUME NEW r \in Seq(Nat), NEW a \in Nat, NEW v \in Nat, NEW m \in 1 .. 2
  PROVE  /\ SubSeq(<<a, v>>, 2, m) \in Seq(Nat) /\ r \o SubSeq(<<a, v>>, 2, m) \in Seq(Nat)
         /\ Len(r \o SubSeq(<<a, v>>, 2, m)) = Len(r) + m - 1
         /\ \A i \in 1 .. Len(r) : (r \o SubSeq(<<a, v>>, 2, m))[i] = r[i]
         /\ m = 2 => (r \o SubSeq(<<a, v>>, 2, m))[Len(r) + 1] = v
<1> DEFINE t == <<a, v>>
           b == SubSeq(t, 2, m)
<1>1. t \in Seq(Nat) /\ Len(t) = 2 /\ t[2] = v
  OBVIOUS
<1> HIDE DEF t
<1>2. b \in Seq(Nat) /\ Len(b) = m - 1 /\ (m = 2 => b[1] = v)
  BY <1>1
<1> HIDE DEF b
<1>3. /\ r \o b \in Seq(Nat) /\ Len(r \o b) = Len(r) + (m - 1)
      /\ \A i \in 1 .. Len(r) : (r \o b)[i] = r[i]
      /\ \A i \in 1 .. m - 1 : (r \o b)[Len(r) + i] = b[i]
  BY <1>2, ConcatSeq
<1>4. Len(r) + (m - 1) = Len(r) + m - 1
  OBVIOUS
<1>5. m = 2 => (r \o b)[Len(r) + 1] = v
  BY <1>2, <1>3
<1> QED
  BY <1>2, <1>3, <1>4, <1>5, Zenon DEF b, t

(* Bytes are handed out to the program.                                    *)
HandsOut(o, bytes) == received' = [received EXCEPT ![o] = @ \o bytes]

(* Only the bytes of that socket change.                                   *)
LEMMA HandedOut ==
  ASSUME ValuesOK, NEW o \in 0 .. MaxObjs, NEW bytes, HandsOut(o, bytes)
  PROVE  /\ received'[o] = received[o] \o bytes
         /\ \A m \in 0 .. MaxObjs : m # o => received'[m] = received[m]
         /\ received[o] \o bytes \in Seq(Nat) => received' \in [0 .. MaxObjs -> Seq(Nat)]
BY DEF HandsOut, ValuesOK

(* recv hands out what it was answered, or the first part of it.           *)
LEMMA RecvReads ==
  ASSUME ValuesOK, ObjsBounded, RequestsOK, NumbersOK, ReadsOK, UNCHANGED <<objs, objOf>>,
         NEW h \in Handles, requests[h].at = "rcvd", requests[h].cmd = "recv", requests[h].rc = "EOK",
         NEW o \in DOMAIN objs, o = Object(h),
         NEW n \in 0 .. Len(requests[h].data),
         HandsOut(o, SubSeq(requests[h].data, 1, n)),
         IF n < Len(requests[h].data)
         THEN requests'[h].at = "rtrn" /\ requests'[h].cmd = "recv" /\ requests'[h].fd = requests[h].fd
         ELSE requests'[h].at = "free",
         \A g \in Handles : g # h => requests'[g] = requests[g]
  PROVE  ReadsOK' /\ received' \in [0 .. MaxObjs -> Seq(Nat)]
<1>1. objs[o].read \in Nat /\ objs[o].peer \in Nat /\ objs[o].kind = "stream"
  BY ObjectTypes, DataRequest DEF Receives
<1>2. o \in 0 .. MaxObjs /\ received[o] \in Seq(Nat)
  BY ObjectBound
<1> DEFINE r == received[o]
           d == requests[h].data
<1>3. /\ d \in Seq(Nat) /\ \A k \in DOMAIN d : d[k] = Len(r) + k
      /\ Len(r) + Len(d) = objs[o].read
  BY DEF ReadsOK, AnswerOK, Gathers, Receives
<1>4. ReceivedOK(o) /\ objs[o].read <= objs[o].peer
  BY DEF ReadsOK
<1>5. r \in Seq(Nat) /\ (\A i \in DOMAIN r : r[i] = i) /\ n \in 0 .. Len(d)
  BY <1>1, <1>2, <1>4 DEF ReceivedOK
<1>6. /\ received'[o] = r \o SubSeq(d, 1, n)
      /\ \A m \in 0 .. MaxObjs : m # o => received'[m] = received[m]
      /\ r \o SubSeq(d, 1, n) \in Seq(Nat) => received' \in [0 .. MaxObjs -> Seq(Nat)]
  BY <1>2, HandedOut
<1> HIDE DEF r, d
<1>7. /\ received'[o] \in Seq(Nat) /\ Len(received'[o]) = Len(r) + n
      /\ \A i \in 1 .. Len(r) + n : received'[o][i] = i
  <2>1. CountsFrom(r, 0)
    BY <1>5 DEF CountsFrom
  <2>2. CountsFrom(d, Len(r))
    BY <1>3, Zenon DEF CountsFrom
  <2>3. /\ r \o SubSeq(d, 1, n) \in Seq(Nat) /\ Len(r \o SubSeq(d, 1, n)) = Len(r) + n
        /\ \A i \in 1 .. Len(r) + n : (r \o SubSeq(d, 1, n))[i] = i
    BY <1>3, <1>5, <2>1, <2>2, Continued, Zenon
  <2> QED
    BY <1>6, <2>3, Zenon
<1>8. received' \in [0 .. MaxObjs -> Seq(Nat)]
  BY <1>6, <1>7
<1>9. n = Len(d) \/ (Object(h)' = o /\ Rest(h)')
  BY <1>5 DEF Object, Rest, d
<1>10. ReceivedOK(o)'
  <2>1. \A i \in DOMAIN received'[o] : received'[o][i] = i /\ i \in 1 .. objs[o].read
    <3>1. DOMAIN received'[o] = 1 .. Len(r) + n /\ Len(r) \in Nat /\ Len(d) \in Nat
      BY <1>3, <1>5, <1>7
    <3>2. Len(r) + n <= objs[o].read /\ n \in Nat
      BY <1>1, <1>3, <1>5, <3>1
    <3>3. \A i \in 1 .. Len(r) + n : i \in 1 .. objs[o].read
      BY <1>1, <3>1, <3>2
    <3> QED
      BY <1>7, <3>1, <3>3, Zenon
  <2>2. \A i, j \in DOMAIN received'[o] : i < j => received'[o][i] < received'[o][j]
    BY <2>1
  <2>3. \/ Len(received'[o]) = objs[o].read
        \/ \E g \in Handles : Object(g)' = o /\ Rest(g)'
    BY <1>3, <1>7, <1>9
  <2> QED
    BY <2>1, <2>2, <2>3 DEF ReceivedOK, Rest
<1>11. ASSUME NEW g \in Handles, Gathers(g)'
       PROVE  /\ Gathers(g) /\ requests'[g].cmd = requests[g].cmd /\ requests'[g].data = requests[g].data
              /\ Object(g)' = Object(g) /\ Object(g) \in DOMAIN objs /\ Object(g) # o
  <2>1. g # h /\ Gathers(g) /\ requests'[g] = requests[g]
    BY <1>11 DEF Gathers
  <2>2. Object(g) # o /\ Object(g) \in DOMAIN objs
    BY <2>1, GatherTypes, OtherObject, DataRequest DEF Receives
  <2> QED
    BY <2>1, <2>2 DEF Object
<1>12. ASSUME NEW g \in Handles, Rest(g), Object(g) # o
       PROVE  Rest(g)' /\ Object(g)' = Object(g)
  <2>1. g # h
    BY <1>12
  <2> QED
    BY <1>12, <2>1 DEF Rest, Gathers, Object
<1>13. \A m \in DOMAIN objs : m # o => received'[m] = received[m]
  BY <1>6, ObjectBound
<1> QED
  BY <1>4, <1>8, <1>10, <1>11, <1>12, <1>13, ReadsAt

(* recvfrom hands out the datagram, or nothing of it.                      *)
LEMMA RecvfromReads ==
  ASSUME ValuesOK, ObjsBounded, RequestsOK, NumbersOK, ReadsOK, UNCHANGED <<objs, objOf>>,
         NEW h \in Handles, requests[h].at = "rcvd", requests[h].cmd = "recvfrom", requests[h].rc = "EOK",
         NEW o \in DOMAIN objs, o = Object(h), NEW m \in Nat, 0 < m, m <= Len(requests[h].data),
         HandsOut(o, SubSeq(requests[h].data, 2, m)),
         requests'[h].at = "free",
         \A g \in Handles : g # h => requests'[g] = requests[g]
  PROVE  ReadsOK' /\ received' \in [0 .. MaxObjs -> Seq(Nat)]
<1>1. objs[o].read \in Nat /\ objs[o].peer \in Nat /\ objs[o].kind = "dgram"
  BY ObjectTypes, DataRequest DEF Receives
<1>2. o \in 0 .. MaxObjs /\ received[o] \in Seq(Nat)
  BY ObjectBound
<1>3. PICK v \in 1 .. objs[o].read :
        /\ requests[h].data = <<ADDR, v>> /\ \A i \in DOMAIN received[o] : received[o][i] < v
  BY DEF ReadsOK, AnswerOK, Gathers, Receives
<1>4. ReceivedOK(o) /\ objs[o].read <= objs[o].peer
  BY DEF ReadsOK
<1> DEFINE r == received[o]
           b == SubSeq(<<ADDR, v>>, 2, m)
<1>5. m \in 1 .. 2
  BY <1>3
<1>6. v \in Nat /\ ADDR \in Nat
  BY <1>1 DEF ADDR
<1>7. /\ received'[o] = r \o b
      /\ \A k \in 0 .. MaxObjs : k # o => received'[k] = received[k]
      /\ r \o b \in Seq(Nat) => received' \in [0 .. MaxObjs -> Seq(Nat)]
  BY <1>2, <1>3, HandedOut
<1>8. /\ r \o b \in Seq(Nat) /\ Len(r \o b) = Len(r) + m - 1
      /\ \A i \in 1 .. Len(r) : (r \o b)[i] = r[i]
      /\ m = 2 => (r \o b)[Len(r) + 1] = v
  BY <1>2, <1>5, <1>6, OneMore
<1> HIDE DEF b
<1>9. /\ received'[o] \in Seq(Nat) /\ Len(received'[o]) = Len(r) + m - 1
      /\ \A i \in 1 .. Len(r) : received'[o][i] = r[i]
      /\ m = 2 => received'[o][Len(r) + 1] = v
  BY <1>7, <1>8
<1>10. received' \in [0 .. MaxObjs -> Seq(Nat)]
  BY <1>7, <1>8
<1>11. ReceivedOK(o)'
  <2>0. Len(r) \in Nat /\ DOMAIN r = 1 .. Len(r) /\ DOMAIN received'[o] = 1 .. Len(r) + m - 1
    BY <1>2, <1>9
  <2>1. \A i \in DOMAIN received'[o] : i \in DOMAIN r \/ (i = Len(r) + 1 /\ m = 2)
    BY <1>5, <2>0
  <2>2. \A i \in DOMAIN received'[o] : received'[o][i] \in 1 .. objs[o].read
    BY <1>3, <1>4, <1>9, <2>0, <2>1 DEF ReceivedOK
  <2>3. \A i, j \in DOMAIN received'[o] : i < j => received'[o][i] < received'[o][j]
    <3> SUFFICES ASSUME NEW i \in DOMAIN received'[o], NEW j \in DOMAIN received'[o], i < j
                 PROVE  received'[o][i] < received'[o][j]
      OBVIOUS
    <3>1. i \in DOMAIN r
      BY <1>5, <2>0
    <3>2. CASE j \in DOMAIN r
      BY <1>4, <1>9, <2>0, <3>1, <3>2 DEF ReceivedOK
    <3>3. CASE j = Len(r) + 1 /\ m = 2
      BY <1>3, <1>9, <2>0, <3>1, <3>3
    <3> QED
      BY <2>1, <3>2, <3>3
  <2> QED
    BY <1>1, <2>2, <2>3 DEF ReceivedOK
<1>12. ASSUME NEW g \in Handles, Gathers(g)'
       PROVE  /\ Gathers(g) /\ requests'[g].cmd = requests[g].cmd /\ requests'[g].data = requests[g].data
              /\ Object(g)' = Object(g) /\ Object(g) \in DOMAIN objs /\ Object(g) # o
  <2>1. g # h /\ Gathers(g) /\ requests'[g] = requests[g]
    BY <1>12 DEF Gathers
  <2>2. Object(g) # o /\ Object(g) \in DOMAIN objs
    BY <2>1, GatherTypes, OtherObject, DataRequest DEF Receives
  <2> QED
    BY <2>1, <2>2 DEF Object
<1>13. ASSUME NEW g \in Handles, Rest(g), Object(g) # o
       PROVE  Rest(g)' /\ Object(g)' = Object(g)
  <2>1. g # h
    BY <1>13
  <2> QED
    BY <1>13, <2>1 DEF Rest, Gathers, Object
<1>14. \A k \in DOMAIN objs : k # o => received'[k] = received[k]
  BY <1>7, ObjectBound
<1> QED
  BY <1>4, <1>10, <1>11, <1>12, <1>13, <1>14, ReadsAt

(* A datagram socket is replaced: what has arrived is dropped, and those   *)
(* who wait for it are told.                                               *)
LEMMA BindReads ==
  ASSUME ValuesOK, RequestsOK, NumbersOK, ReadsOK, UNCHANGED <<objOf, received>>,
         NEW o \in DOMAIN objs, objs[o].kind = "dgram", DOMAIN objs' = DOMAIN objs,
         \A m \in DOMAIN objs : m # o => objs'[m] = objs[m],
         objs'[o].kind = objs[o].kind, objs'[o].peer = objs[o].peer, objs'[o].read = objs[o].peer,
         \A g \in Handles : \/ requests'[g] = requests[g]
                            \/ ~Gathers(g)' /\ requests[g].at = "working"
  PROVE  ReadsOK'
<1>1. objs[o].read \in Nat /\ objs[o].peer \in Nat /\ objs[o].read <= objs[o].peer
  BY ObjectTypes DEF ReadsOK
<1>2. ReceivedOK(o)'
  BY <1>1 DEF ReadsOK, ReceivedOK
<1>3. ASSUME NEW g \in Handles, Gathers(g)'
      PROVE  \/ AnswerOK(g)'
             \/ /\ Gathers(g) /\ requests'[g].cmd = requests[g].cmd /\ requests'[g].data = requests[g].data
                /\ Object(g)' = Object(g) /\ Object(g) \in DOMAIN objs /\ Object(g) # o
  <2>1. requests'[g] = requests[g] /\ Gathers(g) /\ Object(g)' = Object(g)
    BY <1>3 DEF Gathers, Object
  <2>2. Object(g) \in DOMAIN objs
    BY <2>1, GatherTypes, DataRequest
  <2>3. CASE Object(g) = o
    <3>1. requests[g].cmd = "recvfrom"
      BY <2>1, <2>3, GatherTypes, DataRequest DEF Receives
    <3>2. PICK v \in 1 .. objs[o].read :
            /\ requests[g].data = <<ADDR, v>> /\ \A i \in DOMAIN received[o] : received[o][i] < v
      BY <2>1, <2>3, <3>1 DEF ReadsOK, AnswerOK
    <3>3. v \in 1 .. objs'[o].read
      BY <1>1
    <3> QED
      BY <2>1, <2>3, <3>1, <3>2, <3>3 DEF AnswerOK
  <2> QED
    BY <2>1, <2>2, <2>3
<1>4. ASSUME NEW g \in Handles, Rest(g)
      PROVE  Rest(g)' /\ Object(g)' = Object(g)
  <2>1. requests'[g] = requests[g]
    BY <1>4, GatherTypes
  <2> QED
    BY <1>4, <2>1 DEF Rest, Gathers, Object
<1> QED
  BY <1>1, <1>2, <1>3, <1>4, ReadsAt

(* The bytes of one object are sent.                                       *)
LEMMA SendsAt ==
  ASSUME SendsOK, DOMAIN objs' = DOMAIN objs, NEW o \in DOMAIN objs,
         \A m \in DOMAIN objs : m # o => objs'[m].out = objs[m].out /\ sent'[m] = sent[m],
         SentOK(o)',
         \A g \in Handles : requests'[g].cmd \in Sends /\ requests'[g].at \in Live =>
           \/ SendOK(g)'
           \/ /\ requests'[g] = requests[g] /\ Object(g)' = Object(g)
              /\ Object(g) \in DOMAIN objs /\ Object(g) # o
  PROVE  SendsOK'
<1>1. ASSUME NEW g \in Handles, requests'[g].cmd \in Sends
      PROVE  SendOK(g)'
  <2>1. CASE requests'[g].at \notin Live
    BY <2>1 DEF SendOK, Live
  <2>2. CASE SendOK(g)'
    BY <2>2
  <2>3. CASE /\ requests'[g] = requests[g] /\ Object(g)' = Object(g)
             /\ Object(g) \in DOMAIN objs /\ Object(g) # o
    <3>1. SendOK(g) /\ objs'[Object(g)].out = objs[Object(g)].out /\ sent'[Object(g)] = sent[Object(g)]
      BY <1>1, <2>3 DEF SendsOK
    <3> QED
      BY <2>3, <3>1 DEF SendOK
  <2> QED
    BY <1>1, <2>1, <2>2, <2>3
<1>2. ASSUME NEW m \in DOMAIN objs, m # o
      PROVE  SentOK(m)'
  BY <1>2 DEF SendsOK, SentOK
<1> QED
  BY <1>1, <1>2 DEF SendsOK

(* A request that still counts is neither free nor returned.               *)
LEMMA LiveNotFree ==
  \A at \in Live : at # "free" /\ at # "rtrn"
BY DEF Live

(* A byte is handed to send.                                               *)
LEMMA BeginSends ==
  ASSUME ValuesOK, ObjsBounded, RequestsOK, NumbersOK, SendsOK, UNCHANGED <<objs, objOf>>, Idle,
         NEW fn \in Sends, NEW fd \in Fds, Active(fd), sockets[fd].sendHandle = NULL_REQUEST,
         NEW o, o = objOf[fd], NEW n, n = sent[o].begun + 1,
         NEW h, Sent(h, fn, fd, <<n>>, 1),
         sent' = [sent EXCEPT ![o].begun = @ + 1]
  PROVE  SendsOK' /\ sent' \in [0 .. MaxObjs -> [begun : Nat, done : Nat]]
<1>1. o \in DOMAIN objs /\ o # 0
  BY EntryTypes DEF NumbersOK, TableOK, InUse
<1>2. o \in 0 .. MaxObjs /\ sent[o] \in [begun : Nat, done : Nat]
  BY <1>1, ObjectBound
<1>3. sent \in [0 .. MaxObjs -> [begun : Nat, done : Nat]]
  BY DEF ValuesOK
<1>4. /\ sent'[o].begun = n /\ sent'[o].done = sent[o].done /\ sent[o].begun < n
      /\ n \in Nat /\ sent[o].begun \in Nat /\ sent[o].done \in Nat
      /\ \A m \in 0 .. MaxObjs : m # o => sent'[m] = sent[m]
      /\ sent' \in [0 .. MaxObjs -> [begun : Nat, done : Nat]]
  BY <1>2, <1>3
<1>5. objs[o].out \in Seq(Nat) /\ SentOK(o)
  BY <1>1, ObjectTypes DEF SendsOK
<1>6. \A i \in DOMAIN objs[o].out : objs[o].out[i] \in Nat /\ objs[o].out[i] < n
  <2>1. \A i \in DOMAIN objs[o].out : objs[o].out[i] \in Nat
    BY <1>5
  <2>2. \A i \in DOMAIN objs[o].out : objs[o].out[i] <= sent[o].begun
    BY <1>5 DEF SentOK
  <2> QED
    BY <1>4, <2>1, <2>2
<1>7. SentOK(o)'
  BY <1>4, <1>5, <1>6 DEF SentOK
<1>8. SendOK(h)'
  <2>1. Object(h)' = o /\ requests'[h].at = "sent" /\ requests'[h].data = <<n>>
    BY DEF Object, Sent
  <2> QED
    BY <1>4, <1>6, <2>1 DEF SendOK
<1>9. ASSUME NEW g \in Handles, requests'[g].cmd \in Sends, requests'[g].at \in Live, g # h
      PROVE  /\ requests'[g] = requests[g] /\ Object(g)' = Object(g)
             /\ Object(g) \in DOMAIN objs /\ Object(g) # o
  <2>1. requests'[g] = requests[g] /\ requests[g].cmd \in Sends /\ requests[g].at # "free"
    BY <1>9, LiveNotFree DEF Sent
  <2>2. Object(g) \in DOMAIN objs /\ Object(g) # 0
    BY <2>1, DataRequest
  <2>3. PICK k \in Fds : g \in {sockets[k].recvHandle, sockets[k].sendHandle}
    <3>1. Holder(g)
      BY <2>1 DEF RequestsOK, BuffersHeld, Sends
    <3>2. ~WaitsFor(g)
      BY DEF WaitsFor, Idle, NoCall, SyncFns, AsyncFns, Sends, Receives
    <3> QED
      BY <3>1, <3>2 DEF Holder
  <2>4. g = sockets[k].sendHandle /\ requests[g].fd = k
    BY <2>1, <2>3, NotNull DEF RequestsOK, RecvHandleOK, SendHandleOK, Sends
  <2>5. k # fd
    BY <2>4, NotNull
  <2>6. objOf[k] # objOf[fd]
    BY <1>1, <2>5 DEF NumbersOK, ObjsNamedOnce
  <2> QED
    BY <2>1, <2>2, <2>4, <2>6 DEF Object
<1>10. \A m \in DOMAIN objs : m # o => sent'[m] = sent[m]
  BY <1>4, ObjectBound
<1> QED
  BY <1>1, <1>4, <1>7, <1>8, <1>9, <1>10, SendsAt

PutsOut(o, bytes) == objs'[o].out = objs[o].out \o bytes

(* A worker sends a byte to the peer.                                      *)
LEMMA SentBytes ==
  ASSUME ValuesOK, ObjsBounded, RequestsOK, NumbersOK, SendsOK, UNCHANGED <<objOf, sent>>,
         NEW h \in Handles, requests[h].at = "working", requests[h].cmd \in Sends,
         NEW o \in DOMAIN objs, o = Object(h), DOMAIN objs' = DOMAIN objs,
         \A m \in DOMAIN objs : m # o => objs'[m] = objs[m],
         PutsOut(o, requests[h].data),
         requests'[h].at = "done",
         requests'[h].cmd = requests[h].cmd, requests'[h].fd = requests[h].fd,
         \A g \in Handles : g # h => requests'[g] = requests[g]
  PROVE  SendsOK' /\ objs'[o].out \in Seq(Nat)
<1>1. sent[o].begun \in Nat /\ sent[o].done \in Nat /\ objs[o].out \in Seq(Nat)
  BY ObjectBound, ObjectTypes
<1>2. SentOK(o) /\ SendOK(h)
  BY DEF SendsOK
<1>3. requests[h].data = <<sent[o].begun>>
      /\ \A i \in DOMAIN objs[o].out : objs[o].out[i] < sent[o].begun
  BY <1>2 DEF SendOK
<1> DEFINE a == objs[o].out
           b == sent[o].begun
<1>4. objs'[o].out = Append(a, b)
  <2>1. a \o <<b>> = Append(a, b)
    BY <1>1
  <2> QED
    BY <1>3, <2>1 DEF PutsOut
<1>5. /\ objs'[o].out \in Seq(Nat) /\ Len(objs'[o].out) = Len(a) + 1
      /\ \A i \in 1 .. Len(a) : objs'[o].out[i] = a[i]
      /\ objs'[o].out[Len(a) + 1] = b
  BY <1>1, <1>4
<1>6. /\ Len(a) \in Nat /\ DOMAIN a = 1 .. Len(a) /\ DOMAIN objs'[o].out = 1 .. Len(a) + 1
      /\ \A i \in 1 .. Len(a) : a[i] \in Nat
  <2> HIDE DEF a
  <2>1. a \in Seq(Nat)
    BY <1>1 DEF a
  <2>2. Len(a) \in Nat /\ DOMAIN a = 1 .. Len(a) /\ \A i \in 1 .. Len(a) : a[i] \in Nat
    BY <2>1
  <2>3. DOMAIN objs'[o].out = 1 .. Len(objs'[o].out)
    BY <1>5
  <2> QED
    BY <1>5, <2>2, <2>3
<1>7. \A i \in DOMAIN objs'[o].out : i \in 1 .. Len(a) \/ i = Len(a) + 1
  BY <1>6
<1>8. SentOK(o)'
  <2>1. \A i \in DOMAIN objs'[o].out : objs'[o].out[i] <= b
    <3> SUFFICES ASSUME NEW i \in DOMAIN objs'[o].out
                 PROVE  objs'[o].out[i] <= b
      OBVIOUS
    <3>1. b \in Nat /\ b <= b
      BY <1>1
    <3>2. CASE i \in 1 .. Len(a)
      <4>1. objs'[o].out[i] = a[i] /\ a[i] < b /\ a[i] \in Nat
        BY <1>3, <1>5, <1>6, <3>2
      <4> QED
        BY <3>1, <4>1
    <3>3. CASE i = Len(a) + 1
      BY <1>5, <3>1, <3>3
    <3> QED
      BY <1>7, <3>2, <3>3
  <2>2. \A i, j \in DOMAIN objs'[o].out : i < j => objs'[o].out[i] < objs'[o].out[j]
    <3> SUFFICES ASSUME NEW i \in DOMAIN objs'[o].out, NEW j \in DOMAIN objs'[o].out, i < j
                 PROVE  objs'[o].out[i] < objs'[o].out[j]
      OBVIOUS
    <3>1. i \in 1 .. Len(a)
      BY <1>6
    <3>2. CASE j \in 1 .. Len(a)
      BY <1>2, <1>5, <1>6, <3>1, <3>2 DEF SentOK
    <3>3. CASE j = Len(a) + 1
      BY <1>3, <1>5, <1>6, <3>1, <3>3
    <3> QED
      BY <1>7, <3>2, <3>3
  <2>3. sent[o].done <= Len(objs'[o].out)
    BY <1>1, <1>2, <1>5, <1>6 DEF SentOK
  <2> QED
    BY <2>1, <2>2, <2>3 DEF SentOK
<1>9. SendOK(h)'
  <2>1. Object(h)' = o
    BY DEF Object
  <2>2. sent[o].done < Len(objs'[o].out)
    BY <1>1, <1>2, <1>5, <1>6 DEF SentOK
  <2> QED
    BY <2>1, <2>2 DEF SendOK
<1>10. ASSUME NEW g \in Handles, requests'[g].cmd \in Sends, requests'[g].at \in Live, g # h
       PROVE  /\ requests'[g] = requests[g] /\ Object(g)' = Object(g)
              /\ Object(g) \in DOMAIN objs /\ Object(g) # o
  <2>1. requests'[g] = requests[g] /\ requests[g].cmd \in Sends /\ requests[g].at # "free"
    BY <1>10, LiveNotFree
  <2>2. Object(g) \in DOMAIN objs /\ Object(g) # o
    BY <1>10, <2>1, DataRequest, OtherObject
  <2> QED
    BY <2>1, <2>2 DEF Object
<1> QED
  BY <1>5, <1>8, <1>9, <1>10, SendsAt

(* send returns the byte as sent.                                          *)
LEMMA EndSends ==
  ASSUME ValuesOK, ObjsBounded, RequestsOK, NumbersOK, SendsOK, UNCHANGED <<objs, objOf>>,
         NEW h \in Handles, requests[h].at = "rcvd", requests[h].cmd \in Sends, requests[h].rc = "EOK",
         NEW o, o = Object(h), sent' = [sent EXCEPT ![o].done = @ + 1],
         requests'[h].at = "free",
         \A g \in Handles : g # h => requests'[g] = requests[g]
  PROVE  SendsOK' /\ sent' \in [0 .. MaxObjs -> [begun : Nat, done : Nat]]
<1>1. o \in DOMAIN objs
  BY DataRequest
<1>2. o \in 0 .. MaxObjs /\ sent[o] \in [begun : Nat, done : Nat] /\ objs[o].out \in Seq(Nat)
  BY <1>1, ObjectBound, ObjectTypes
<1>3. sent \in [0 .. MaxObjs -> [begun : Nat, done : Nat]]
  BY DEF ValuesOK
<1>4. /\ sent'[o].begun = sent[o].begun /\ sent'[o].done = sent[o].done + 1
      /\ \A m \in 0 .. MaxObjs : m # o => sent'[m] = sent[m]
      /\ sent' \in [0 .. MaxObjs -> [begun : Nat, done : Nat]]
  BY <1>2, <1>3
<1>5. SentOK(o) /\ sent[o].done < Len(objs[o].out)
  BY <1>1 DEF SendsOK, SendOK
<1>6. SentOK(o)'
  <2>1. sent[o].done + 1 <= Len(objs[o].out)
    BY <1>2, <1>5
  <2> QED
    BY <1>4, <1>5, <2>1 DEF SentOK
<1>7. ASSUME NEW g \in Handles, requests'[g].cmd \in Sends, requests'[g].at \in Live
      PROVE  /\ requests'[g] = requests[g] /\ Object(g)' = Object(g)
             /\ Object(g) \in DOMAIN objs /\ Object(g) # o
  <2>0. g # h
    BY <1>7, LiveNotFree
  <2>1. requests'[g] = requests[g] /\ requests[g].cmd \in Sends /\ requests[g].at # "free"
    BY <1>7, <2>0, LiveNotFree
  <2>2. Object(g) \in DOMAIN objs /\ Object(g) # o
    BY <2>0, <2>1, DataRequest, OtherObject
  <2> QED
    BY <2>1, <2>2 DEF Object
<1>8. \A m \in DOMAIN objs : m # o => sent'[m] = sent[m]
  BY <1>4, ObjectBound
<1> QED
  BY <1>1, <1>4, <1>6, <1>7, <1>8, SendsAt

-----------------------------------------------------------------------------
(* What stays when bytes are not touched.                                  *)

(* A call returns without bytes.                                           *)
LEMMA ReturnBytes ==
  ASSUME ValuesOK, RequestsOK, NumbersOK, ReadsOK, SendsOK, UNCHANGED <<objs, received, sent>>,
         NEW h \in Handles, requests[h].at = "rcvd", ~Rest(h),
         \A k \in Fds : Active(k) => objOf'[k] = objOf[k],
         requests'[h].at \in {"free", "rtrn"}, requests'[h].cmd # "recv",
         \A g \in Handles : g # h => requests'[g] = requests[g]
  PROVE  ReadsOK' /\ SendsOK'
<1>1. ASSUME NEW g \in Handles, g # h, requests[g].at # "free", requests[g].cmd \in Sends \cup Receives
      PROVE  Object(g)' = Object(g) /\ Object(g) \in DOMAIN objs
  <2>1. Active(requests[g].fd) /\ requests[g].fd \in Fds
    BY <1>1, DataRequest, BufferTypes
  <2>2. Object(g) \in DOMAIN objs
    BY <1>1, DataRequest
  <2>3. requests'[g] = requests[g]
    BY <1>1
  <2> QED
    BY <2>1, <2>2, <2>3 DEF Object
<1>2. ASSUME NEW g \in Handles, Gathers(g)'
      PROVE  /\ Gathers(g) /\ requests'[g].cmd = requests[g].cmd /\ requests'[g].data = requests[g].data
             /\ Object(g)' = Object(g) /\ Object(g) \in DOMAIN objs
  <2>1. g # h /\ Gathers(g) /\ requests'[g] = requests[g]
    BY <1>2 DEF Gathers
  <2>2. requests[g].at # "free" /\ requests[g].cmd \in Sends \cup Receives
    BY <2>1, GatherTypes
  <2> QED
    BY <1>1, <2>1, <2>2
<1>3. ASSUME NEW g \in Handles, Rest(g)
      PROVE  Rest(g)' /\ Object(g)' = Object(g)
  <2>1. g # h /\ requests'[g] = requests[g]
    BY <1>3
  <2>2. requests[g].at # "free" /\ requests[g].cmd \in Sends \cup Receives
    BY <1>3, GatherTypes
  <2> QED
    BY <1>1, <1>3, <2>1, <2>2 DEF Rest, Gathers
<1>4. \A o \in DOMAIN objs : objs[o].peer \in Nat /\ objs[o].peer <= objs[o].peer
  BY ObjectTypes
<1>5. ReadsOK'
  BY <1>2, <1>3, <1>4, ReadsFrame
<1>6. ASSUME NEW g \in Handles, requests'[g].cmd \in Sends, requests'[g].at \in Live
      PROVE  /\ requests'[g] = requests[g] /\ Object(g)' = Object(g) /\ Object(g) \in DOMAIN objs
  <2>1. g # h /\ requests'[g] = requests[g] /\ requests[g].at # "free"
    BY <1>6, LiveNotFree
  <2> QED
    BY <1>1, <1>6, <2>1
<1>7. SendsOK'
  BY <1>6, SendsFrame
<1> QED
  BY <1>5, <1>7

(* Objects keep their bytes, new ones have none.                           *)
SameBytes ==
  /\ DOMAIN objs \subseteq DOMAIN objs'
  /\ \A o \in DOMAIN objs :
       /\ objs'[o].kind = objs[o].kind /\ objs'[o].read = objs[o].read /\ objs'[o].out = objs[o].out
       /\ objs'[o].peer \in Nat /\ objs[o].peer <= objs'[o].peer
       /\ objs[o].kind = "stream" /\ objs'[o].st \in Readable => objs[o].st \in Readable
  /\ \A o \in DOMAIN objs' \ DOMAIN objs :
       /\ objs'[o].read = 0 /\ objs'[o].peer = 0 /\ objs'[o].out = <<>>
       /\ received[o] = <<>> /\ sent[o].done = 0

(* Requests move on, without bytes.                                        *)
LEMMA PassBytes ==
  ASSUME ValuesOK, RequestsOK, NumbersOK, ReadsOK, SendsOK, UNCHANGED <<objOf, received, sent>>,
         SameBytes,
         \A g \in Handles : requests'[g].cmd = requests[g].cmd /\ requests'[g].fd = requests[g].fd,
         \A g \in Handles :
           \/ requests'[g] = requests[g]
           \/ requests[g].at \in Pends /\ requests'[g].at \in Pends /\ requests'[g].data = requests[g].data
           \/ /\ requests[g].at \in Pends /\ requests'[g].at \in {"done", "rcvd"}
              /\ requests'[g].rc # "EOK" \/ requests[g].cmd \notin Sends \cup Receives
           \/ /\ requests[g].at = "done" /\ requests'[g].at = "rcvd"
              /\ requests'[g].rc = requests[g].rc /\ requests'[g].data = requests[g].data
  PROVE  ReadsOK' /\ SendsOK'
<1>1. \A g \in Handles : Object(g)' = Object(g)
  BY DEF Object
<1>2. ASSUME NEW g \in Handles, Gathers(g)'
      PROVE  Gathers(g) /\ requests'[g].data = requests[g].data /\ Object(g) \in DOMAIN objs
  <2>1. Gathers(g) /\ requests'[g].data = requests[g].data
    BY <1>2 DEF Gathers, Pends
  <2> QED
    BY <2>1, GatherTypes, DataRequest
<1>3. ASSUME NEW g \in Handles, Rest(g)
      PROVE  Rest(g)'
  BY <1>3 DEF Rest, Gathers, Pends
<1>4. ReadsOK'
  BY <1>1, <1>2, <1>3, ReadsFrame DEF SameBytes
<1>5. ASSUME NEW g \in Handles, requests'[g].cmd \in Sends, requests'[g].at \in Live
      PROVE  /\ Object(g) \in DOMAIN objs
             /\ requests'[g].at \in Pends => requests[g].at \in Pends /\ requests'[g].data = requests[g].data
             /\ requests'[g].at \in {"done", "rcvd"} /\ requests'[g].rc = "EOK" =>
                  requests[g].at \in {"done", "rcvd"} /\ requests[g].rc = "EOK"
  <2>1. requests[g].at # "free" /\ requests[g].cmd \in Sends
    BY <1>5 DEF Live, Pends
  <2>2. Object(g) \in DOMAIN objs
    BY <2>1, DataRequest
  <2> QED
    BY <1>5, <2>2 DEF Pends
<1>6. SendsOK'
  BY <1>1, <1>5, SendsFrame DEF SameBytes
<1> QED
  BY <1>4, <1>6

-----------------------------------------------------------------------------
(* The steps keep the invariant: calls of the program.                     *)

(* What is sent is the only request that changes.                          *)
LEMMA SentOnly ==
  ASSUME NEW h, NEW cmd, NEW fd, NEW data, NEW len, Sent(h, cmd, fd, data, len)
  PROVE  OnlySends
BY DEF Sent, OnlySends

(* The bound on sockets.                                                   *)
LEMMA StillBounded ==
  ASSUME ObjsBounded, UNCHANGED <<program, objs>>,
         \A g \in Handles : requests'[g].at = "sent" /\ requests'[g].cmd = "socket" =>
           (requests[g].at = "sent" /\ requests[g].cmd = "socket") \/ Len(objs) < program.objs
  PROVE  ObjsBounded'
BY DEF ObjsBounded, Asking

(* Sockets that are not made yet have no bytes.                            *)
LEMMA StillUnmade ==
  ASSUME Unmade, UNCHANGED <<objs, received, sent>>
  PROVE  Unmade'
BY DEF Unmade

(* The flags of an entry are set.                                          *)
SetsFlags(fd, f) == sockets' = [sockets EXCEPT ![fd].flags = f]

(* Setting the flags of a number changes nothing else.                     *)
LEMMA FlagsSet ==
  ASSUME ValuesOK, NEW fd \in Fds, NEW f \in SUBSET Flags, SetsFlags(fd, f)
  PROVE  /\ sockets' \in [Fds -> Entries]
         /\ \A k \in Fds : /\ k # fd => sockets'[k] = sockets[k]
                           /\ sockets'[k].recvHandle = sockets[k].recvHandle
                           /\ sockets'[k].sendHandle = sockets[k].sendHandle
                           /\ sockets'[k].recvRemaining = sockets[k].recvRemaining
         /\ sockets'[fd].flags = f
<1>1. sockets \in [Fds -> Entries] /\ sockets[fd] \in Entries
  BY DEF ValuesOK
<1> DEFINE e == [sockets[fd] EXCEPT !.flags = f]
<1>2. /\ e \in Entries /\ e.flags = f /\ e.recvHandle = sockets[fd].recvHandle
      /\ e.sendHandle = sockets[fd].sendHandle /\ e.recvRemaining = sockets[fd].recvRemaining
  BY <1>1 DEF Entries
<1>3. sockets' = [sockets EXCEPT ![fd] = e]
  BY DEF SetsFlags
<1> HIDE DEF e
<1>4. sockets' \in [Fds -> Entries] /\ sockets'[fd] = e /\ \A k \in Fds : k # fd => sockets'[k] = sockets[k]
  BY <1>1, <1>2, <1>3
<1> QED
  BY <1>2, <1>4

SyncCall(fn, fd, data) ==
  /\ startSync(fn, fd, data)
  /\ IF fn = "closesocket"
     THEN /\ sockets[fd].recvHandle = NULL_REQUEST /\ sockets[fd].sendHandle = NULL_REQUEST
          /\ sockets' = [sockets EXCEPT ![fd].flags = {}]
     ELSE sockets' = sockets
  /\ fn \in {"socket", "gethost"} \/ Active(fd)
  /\ fn = "socket" => ~Lost /\ data \in Kinds /\ Len(objs) < program.objs

(* One of the calls that always wait for their answer.                     *)
LEMMA SyncCallInv ==
  ASSUME SocketsInv, NEW fn \in SyncFns, NEW fd \in Fds, NEW data \in Data, SyncCall(fn, fd, data)
  PROVE  SocketsInv'
<1>0. /\ ValuesOK /\ ObjsBounded /\ RequestsOK /\ NumbersOK /\ ReadsOK /\ SendsOK /\ Unmade
      /\ startSync(fn, fd, data)
  BY DEF SocketsInv, SyncCall
<1> DEFINE h == Min(FreeHandles)
<1>1. /\ Sent(h, fn, fd, data, 0) /\ Idle
      /\ call' = [fn |-> fn, fd |-> fd, h |-> h]
      /\ UNCHANGED <<proxyVars, given, history>>
      /\ requests' \in [Handles -> Buffers'] /\ wire' \in Seq(Handles) /\ call' \in Calls
  BY <1>0, SyncStart
<1> HIDE DEF h
<1>2. UNCHANGED <<table, objs, program, failures, severed, objOf, received, sent>>
  BY <1>1 DEF proxyVars, given, history
<1>3. /\ h \in Handles /\ requests'[h].at = "sent" /\ requests'[h].cmd = fn /\ requests'[h].data = data
      /\ requests[h].at = "free"
      /\ \A g \in Handles : g # h => requests'[g] = requests[g]
  BY <1>1 DEF Sent
<1>4. IF fn = "closesocket"
      THEN /\ sockets[fd].recvHandle = NULL_REQUEST /\ sockets[fd].sendHandle = NULL_REQUEST
           /\ sockets' = [sockets EXCEPT ![fd].flags = {}]
      ELSE sockets' = sockets
  BY DEF SyncCall
<1>5. /\ fn \in {"socket", "gethost"} \/ Active(fd)
      /\ fn = "socket" => ~Lost /\ data \in Kinds /\ Len(objs) < program.objs
  BY DEF SyncCall
<1>6. RequestsOK'
  BY <1>0, <1>1, <1>4, <1>5, SyncRequests
<1>7. sockets \in [Fds -> Entries] /\ sockets[fd] \in Entries
  BY <1>0 DEF ValuesOK
<1>8. /\ sockets' \in [Fds -> Entries]
      /\ \A k \in Fds : k # fd \/ fn # "closesocket" => sockets'[k] = sockets[k]
      /\ fn = "closesocket" => sockets'[fd].flags = {}
  <2>1. CASE fn = "closesocket"
    <3>1. SetsFlags(fd, {}) /\ {} \in SUBSET Flags
      BY <1>4, <2>1 DEF SetsFlags
    <3> QED
      BY <1>0, <2>1, <3>1, FlagsSet
  <2>2. CASE fn # "closesocket"
    BY <1>4, <1>7, <2>2
  <2> QED
    BY <2>1, <2>2
<1>9. ValuesOK'
  <2>1. Entries' = Entries /\ Calls' = Calls /\ Objects' = Objects
    BY DEF Entries, Calls, Objects
  <2> QED
    BY <1>0, <1>1, <1>2, <1>8, <2>1 DEF ValuesOK
<1>10. OnlySends
  BY <1>1, SentOnly
<1>11. ObjsBounded'
  BY <1>0, <1>2, <1>3, <1>5, StillBounded
<1>12. call'.fn = fn /\ call'.fd = fd /\ call'.h = h /\ call.fn = "none"
  BY <1>1 DEF Idle, NoCall
<1>13. \A k \in Fds : InUse(k)' <=> InUse(k)
  <2>1. \A k \in Fds : k # fd \/ fn # "closesocket" => (Active(k)' <=> Active(k))
    BY <1>8 DEF Active, Has
  <2>2. fn = "closesocket" => ~Active(fd)' /\ Active(fd)
    BY <1>5, <1>8 DEF Active, Has
  <2> QED
    BY <1>3, <1>12, <2>1, <2>2 DEF InUse
<1>14. \A k \in Fds : Active(k)' => Active(k) /\ (Has(k, "DGRAM")' <=> Has(k, "DGRAM"))
  BY <1>8 DEF Active, Has
<1>15. NumbersOK'
  BY <1>0, <1>2, <1>3, <1>5, <1>10, <1>13, <1>14, NumbersKept DEF proxyVars
<1>16. ReadsOK'
  BY <1>0, <1>2, <1>10, ReadsKept
<1>17. SendsOK'
  <2>1. fn \notin Sends
    BY DEF SyncFns, Sends
  <2> QED
    BY <1>0, <1>2, <1>3, <1>10, <2>1, SendsKept
<1>18. Unmade'
  BY <1>0, <1>2, StillUnmade
<1> QED
  BY <1>6, <1>9, <1>11, <1>15, <1>16, <1>17, <1>18 DEF SocketsInv

(* A program that may make a socket has lost none.                         *)
LEMMA MayMakeNotLost ==
  ASSUME SocketsInv, Careful, Idle, MayMake
  PROVE  ~Lost
<1> SUFFICES ASSUME Lost
             PROVE  FALSE
  OBVIOUS
<1>0. ValuesOK /\ RequestsOK /\ NumbersOK
  BY DEF SocketsInv
<1>1. AllLost
  BY <1>0 DEF NumbersOK
<1>2. call.fn \notin Fns \cup {"closesocket"}
  BY DEF Idle, NoCall, Fns, SyncFns, AsyncFns, Sends, Receives
<1>3. \A k \in Fds : InUse(k) <=> Active(k)
  BY <1>2 DEF InUse
<1>4. \A k \in Fds : ~Active(k)
  BY <1>1, <1>3 DEF AllLost, MayMake
<1>5. \A g \in Handles : ~New(g)
  <2> SUFFICES ASSUME NEW g \in Handles, New(g)
               PROVE  FALSE
    OBVIOUS
  <2>1. Holder(g)
    BY <1>0 DEF RequestsOK, BuffersHeld, New
  <2>2. ~WaitsFor(g)
    BY <1>2 DEF WaitsFor, Fns
  <2>3. PICK k \in Fds : g \in {sockets[k].recvHandle, sockets[k].sendHandle}
    BY <2>1, <2>2 DEF Holder
  <2>4. Active(k)
    BY <1>0, <2>3, NotNull DEF RequestsOK, RecvHandleOK, SendHandleOK
  <2> QED
    BY <1>4, <2>4
<1> QED
  BY <1>3, <1>4, <1>5 DEF Lost

(* All of them: socket, gethost, closesocket, bind, listen, ...            *)
LEMMA SyncCalls ==
  ASSUME SocketsInv, Careful,
         \/ \E kind \in {"stream", "dgram"} : socket(kind)
         \/ gethost
         \/ \E fd \in Fds : \/ closesocket(fd) \/ bind(fd) \/ listen(fd)
                            \/ shutdown(fd) \/ getSockInfo(fd)
  PROVE  SocketsInv'
<1>0. 0 \in Fds /\ <<>> \in Data /\ Kinds \subseteq Data
  BY SocketBounds DEF Fds, Data
<1>1. ASSUME NEW kind \in {"stream", "dgram"}, socket(kind)
      PROVE  SocketsInv'
  <2>1. startSync("socket", 0, <<kind>>) /\ UNCHANGED sockets /\ Len(objs) < program.objs /\ MayMake
    BY <1>1 DEF socket
  <2>2. ~Lost
    BY <2>1, MayMakeNotLost DEF startSync
  <2>3. <<kind>> \in Kinds
    BY DEF Kinds
  <2>4. SyncCall("socket", 0, <<kind>>)
    BY <2>1, <2>2, <2>3 DEF SyncCall
  <2> QED
    BY <1>0, <2>3, <2>4, SyncCallInv DEF SyncFns
<1>2. ASSUME gethost
      PROVE  SocketsInv'
  <2>1. SyncCall("gethost", 0, <<>>)
    BY <1>2 DEF gethost, SyncCall
  <2> QED
    BY <1>0, <2>1, SyncCallInv DEF SyncFns
<1>3. ASSUME NEW fd \in Fds, closesocket(fd)
      PROVE  SocketsInv'
  <2>1. sockets[fd].recvHandle = NULL_REQUEST /\ sockets[fd].sendHandle = NULL_REQUEST
    BY <1>3 DEF closesocket
  <2>2. SyncCall("closesocket", fd, <<>>)
    BY <1>3, <2>1 DEF closesocket, SyncCall
  <2> QED
    BY <1>0, <2>2, SyncCallInv DEF SyncFns
<1>4. ASSUME NEW fd \in Fds, bind(fd)
      PROVE  SocketsInv'
  <2>1. SyncCall("bind", fd, <<>>)
    BY <1>4 DEF bind, SyncCall
  <2> QED
    BY <1>0, <2>1, SyncCallInv DEF SyncFns
<1>5. ASSUME NEW fd \in Fds, listen(fd)
      PROVE  SocketsInv'
  <2>1. SyncCall("listen", fd, <<>>)
    BY <1>5 DEF listen, SyncCall
  <2> QED
    BY <1>0, <2>1, SyncCallInv DEF SyncFns
<1>6. ASSUME NEW fd \in Fds, shutdown(fd)
      PROVE  SocketsInv'
  <2>1. SyncCall("shutdown", fd, <<>>)
    BY <1>6 DEF shutdown, SyncCall
  <2> QED
    BY <1>0, <2>1, SyncCallInv DEF SyncFns
<1>7. ASSUME NEW fd \in Fds, getSockInfo(fd)
      PROVE  SocketsInv'
  <2>1. SyncCall("getSockInfo", fd, <<>>)
    BY <1>7 DEF getSockInfo, SyncCall
  <2> QED
    BY <1>0, <2>1, SyncCallInv DEF SyncFns
<1> QED
  BY <1>1, <1>2, <1>3, <1>4, <1>5, <1>6, <1>7

BeginCall(fn, fd, data, len, block, callAfter) ==
  /\ begin(fn, fd, data, len, block, callAfter)
  /\ Active(fd)
  /\ fn \in Sends \cup Receives => (fn \in {"sendto", "recvfrom"} <=> Has(fd, "DGRAM"))
  /\ UNCHANGED <<objOf, received>>
  /\ \/ Idle /\ callAfter = NoCall
     \/ Selecting /\ callAfter = call /\ ~block
  /\ IF fn \in Sends
     THEN /\ Idle
          /\ data = <<sent[objOf[fd]].begun + 1>> /\ len = 1
          /\ sent' = [sent EXCEPT ![objOf[fd]].begun = @ + 1]
     ELSE UNCHANGED sent

(* The start of connect, accept, a send or a receive, blocking or not.     *)
LEMMA BeginCallInv ==
  ASSUME SocketsInv, NEW fn \in AsyncFns, NEW fd \in Fds, NEW data \in Data, NEW len \in Nat,
         NEW block \in BOOLEAN, NEW callAfter \in Calls,
         BeginCall(fn, fd, data, len, block, callAfter)
  PROVE  SocketsInv'
<1>0. /\ ValuesOK /\ ObjsBounded /\ RequestsOK /\ NumbersOK /\ ReadsOK /\ SendsOK /\ Unmade
      /\ begin(fn, fd, data, len, block, callAfter) /\ Active(fd) /\ UNCHANGED <<objOf, received>>
  BY DEF SocketsInv, BeginCall
<1>a. /\ fn \in Sends \cup Receives => (fn \in {"sendto", "recvfrom"} <=> Has(fd, "DGRAM"))
      /\ \/ Idle /\ callAfter = NoCall
         \/ Selecting /\ callAfter = call /\ ~block
  BY DEF BeginCall
<1> DEFINE h == Min(FreeHandles)
<1>1. /\ Sent(h, fn, fd, data, len)
      /\ sockets[fd][handleOf(fn)] = NULL_REQUEST
      /\ call' = IF block THEN [fn |-> fn, fd |-> fd, h |-> h, len |-> len] ELSE callAfter
      /\ block => UNCHANGED sockets
      /\ ~block => LeavesWith(fn, fd, h)
      /\ UNCHANGED <<proxyVars, given>>
      /\ requests' \in [Handles -> Buffers'] /\ wire' \in Seq(Handles) /\ call' \in Calls
  BY <1>0, AsyncStart DEF LeavesWith
<1> HIDE DEF h
<1>2. UNCHANGED <<table, objs, program, failures, severed>>
  BY <1>1 DEF proxyVars, given
<1>3. /\ h \in Handles /\ requests'[h].at = "sent" /\ requests'[h].cmd = fn /\ requests'[h].data = data
      /\ requests[h].at = "free"
      /\ \A g \in Handles : g # h => requests'[g] = requests[g]
  BY <1>1 DEF Sent
<1>4. ~block => sockets' \in [Fds -> Entries] /\ Left(fn, fd, h)
  BY <1>0, <1>1, <1>3, LeftEntry
<1>5. sockets' \in [Fds -> Entries]
  BY <1>0, <1>1, <1>4 DEF ValuesOK
<1>6. RequestsOK'
  <2>1. CASE block
    BY <1>0, <1>1, <1>a, <2>1, BlockingRequests
  <2>2. CASE ~block
    BY <1>0, <1>1, <1>4, <1>a, <2>2, LeavingRequests
  <2> QED
    BY <2>1, <2>2
<1>7. \A k \in Fds : (Active(k)' <=> Active(k)) /\ (Has(k, "DGRAM")' <=> Has(k, "DGRAM"))
  <2>1. CASE block
    BY <1>1, <2>1 DEF Active, Has
  <2>2. CASE ~block
    <3>1. "ACTIVE" \notin pendFlags(fn) /\ "DGRAM" \notin pendFlags(fn)
      BY DEF pendFlags, AsyncFns, Sends, Receives
    <3> QED
      BY <1>4, <2>2, <3>1 DEF Left, Active, Has
  <2> QED
    BY <2>1, <2>2
<1>8. call.fn # "closesocket" /\ call'.fn # "closesocket"
  <2>1. call.fn # "closesocket"
    BY <1>a DEF Idle, NoCall, Selecting
  <2>2. CASE block
    BY <1>1, <2>1, <2>2 DEF AsyncFns, Sends, Receives
  <2>3. CASE ~block
    BY <1>1, <1>a, <2>1, <2>3 DEF NoCall
  <2> QED
    BY <2>1, <2>2, <2>3
<1>9. \A k \in Fds : InUse(k)' <=> InUse(k)
  BY <1>7, <1>8 DEF InUse
<1>10. OnlySends
  BY <1>1, SentOnly
<1>11. fn # "socket"
  BY DEF AsyncFns, Sends, Receives
<1>12. ObjsBounded'
  BY <1>0, <1>2, <1>3, <1>11, StillBounded
<1>13. NumbersOK'
  BY <1>0, <1>2, <1>3, <1>7, <1>9, <1>10, <1>11, NumbersKept DEF proxyVars
<1>14. ReadsOK'
  BY <1>0, <1>2, <1>10, ReadsKept
<1>15. SendsOK' /\ sent' \in [0 .. MaxObjs -> [begun : Nat, done : Nat]] /\ Unmade'
  <2>1. CASE fn \notin Sends
    <3>1. UNCHANGED sent
      BY <2>1 DEF BeginCall
    <3> QED
      BY <1>0, <1>2, <1>3, <1>10, <2>1, <3>1, SendsKept, StillUnmade DEF ValuesOK
  <2>2. CASE fn \in Sends
    <3> DEFINE o == objOf[fd]
    <3>1. /\ Idle /\ data = <<sent[o].begun + 1>> /\ len = 1
          /\ sent' = [sent EXCEPT ![o].begun = @ + 1]
      BY <2>2 DEF BeginCall
    <3>2. sockets[fd].sendHandle = NULL_REQUEST
      BY <1>1, <2>2 DEF handleOf
    <3>3. Sent(h, fn, fd, <<sent[o].begun + 1>>, 1)
      BY <1>1, <3>1
    <3>4. SendsOK' /\ sent' \in [0 .. MaxObjs -> [begun : Nat, done : Nat]]
      BY <1>0, <1>2, <2>2, <3>1, <3>2, <3>3, BeginSends
    <3>5. o \in DOMAIN objs /\ objs \in Seq(Objects) /\ sent \in [0 .. MaxObjs -> [begun : Nat, done : Nat]]
      BY <1>0, EntryTypes DEF NumbersOK, TableOK, InUse, ValuesOK
    <3>6. \A m \in Len(objs) + 1 .. MaxObjs : m # o /\ m \in 0 .. MaxObjs
      BY <3>5, SocketBounds
    <3>7. \A m \in Len(objs) + 1 .. MaxObjs : sent'[m] = sent[m]
      BY <3>1, <3>5, <3>6
    <3>8. Unmade'
      BY <1>0, <1>2, <3>7 DEF Unmade
    <3> QED
      BY <3>4, <3>8
  <2> QED
    BY <2>1, <2>2
<1>16. ValuesOK'
  <2>1. Entries' = Entries /\ Calls' = Calls /\ Objects' = Objects
    BY DEF Entries, Calls, Objects
  <2> QED
    BY <1>0, <1>1, <1>2, <1>5, <1>15, <2>1 DEF ValuesOK
<1> QED
  BY <1>6, <1>12, <1>13, <1>14, <1>15, <1>16 DEF SocketsInv

(* The start of connect, accept, the sends and the receives.               *)
LEMMA AsyncCalls ==
  ASSUME SocketsInv, Careful, NEW fd \in Fds,
         \/ connect(fd) \/ accept(fd)
         \/ \E fn \in Sends : send(fn, fd)
         \/ \E fn \in Receives, len \in BufLens : recv(fn, fd, len)
  PROVE  SocketsInv'
<1>0. <<>> \in Data /\ BufLens \subseteq Nat /\ NoCall \in Calls
  BY SocketBounds, CallIn DEF Data
<1>b. (~Has(fd, "NONBLOCK")) \in BOOLEAN
  BY DEF Has
<1>1. ASSUME NEW fn \in AsyncFns, NEW data \in Data, NEW len \in Nat, startAsync(fn, fd, data, len),
             UNCHANGED <<objOf, received>>,
             IF fn \in Sends
             THEN /\ data = <<sent[objOf[fd]].begun + 1>> /\ len = 1
                  /\ sent' = [sent EXCEPT ![objOf[fd]].begun = @ + 1]
             ELSE UNCHANGED sent
      PROVE  SocketsInv'
  <2>1. /\ begin(fn, fd, data, len, ~Has(fd, "NONBLOCK"), NoCall) /\ Idle /\ Active(fd) /\ Proper(fn, fd)
    BY <1>1 DEF startAsync, Accepted
  <2>2. fn \in Sends \cup Receives => (fn \in {"sendto", "recvfrom"} <=> Has(fd, "DGRAM"))
    BY <2>1 DEF Proper
  <2>3. BeginCall(fn, fd, data, len, ~Has(fd, "NONBLOCK"), NoCall)
    BY <1>1, <2>1, <2>2 DEF BeginCall
  <2> QED
    BY <1>0, <1>1, <1>b, <2>3, BeginCallInv
<1>2. CASE connect(fd)
  BY <1>0, <1>1, <1>2 DEF connect, AsyncFns, Sends, Receives, history
<1>3. CASE accept(fd)
  BY <1>0, <1>1, <1>3 DEF accept, AsyncFns, Sends, Receives, history
<1>4. ASSUME NEW fn \in Sends, send(fn, fd)
      PROVE  SocketsInv'
  <2>1. /\ startAsync(fn, fd, <<sent[objOf[fd]].begun + 1>>, 1)
        /\ sent' = [sent EXCEPT ![objOf[fd]].begun = @ + 1]
        /\ UNCHANGED <<objOf, received>>
    BY <1>4 DEF send
  <2>2. objOf[fd] \in DOMAIN objs /\ ValuesOK /\ ObjsBounded
    BY <2>1, EntryTypes DEF startAsync, Accepted, SocketsInv, NumbersOK, TableOK, InUse
  <2>3. sent[objOf[fd]].begun \in Nat
    BY <2>2, ObjectBound
  <2>4. <<sent[objOf[fd]].begun + 1>> \in Data
    BY <2>3 DEF Data
  <2> QED
    BY <1>1, <2>1, <2>4 DEF AsyncFns
<1>5. ASSUME NEW fn \in Receives, NEW len \in BufLens, recv(fn, fd, len)
      PROVE  SocketsInv'
  BY <1>0, <1>1, <1>5 DEF recv, AsyncFns, Sends, Receives, history
<1> QED
  BY <1>2, <1>3, <1>4, <1>5

(* Steps of the client that change no request.                             *)
LEMMA QuietInv ==
  ASSUME SocketsInv, UNCHANGED <<requests, wire, proxyVars, given, history>>,
         sockets' \in [Fds -> Entries], call' \in Calls, RequestsOK',
         call.fn # "closesocket", call'.fn # "closesocket",
         \A k \in Fds : (Active(k)' <=> Active(k)) /\ (Has(k, "DGRAM")' <=> Has(k, "DGRAM"))
  PROVE  SocketsInv'
<1>0. ValuesOK /\ ObjsBounded /\ NumbersOK /\ ReadsOK /\ SendsOK /\ Unmade
  BY DEF SocketsInv
<1>1. UNCHANGED <<requests, wire, table, objs, program, failures, severed, objOf, received, sent>>
  BY DEF proxyVars, given, history
<1>2. OnlySends
  BY <1>1 DEF OnlySends
<1>3. \A k \in Fds : InUse(k)' <=> InUse(k)
  BY DEF InUse
<1>4. NumbersOK'
  BY <1>0, <1>1, <1>2, <1>3, NumbersKept DEF proxyVars
<1>5. ReadsOK' /\ SendsOK'
  BY <1>0, <1>1, <1>2, ReadsKept, SendsKept
<1>6. ObjsBounded' /\ Unmade'
  BY <1>0, <1>1, StillBounded, StillUnmade
<1>7. ValuesOK'
  <2>1. Entries' = Entries /\ Calls' = Calls /\ Objects' = Objects /\ Buffers' = Buffers
    BY <1>1 DEF Entries, Calls, Objects, Buffers
  <2> QED
    BY <1>0, <1>1, <2>1 DEF ValuesOK
<1> QED
  BY <1>4, <1>5, <1>6, <1>7 DEF SocketsInv

(* The request a call resumes is one of its own.                           *)
LEMMA Resumes ==
  ASSUME ValuesOK, RequestsOK, Careful, NEW fn \in AsyncFns, NEW fd \in Fds, Accepted(fn, fd),
         NEW h, h # NULL_REQUEST,
         h = IF fn \in Sends THEN sockets[fd].sendHandle ELSE sockets[fd].recvHandle
  PROVE  h \in Handles /\ requests[h].cmd = fn /\ requests[h].at # "rtrn"
<1>0. h \in Handles
  BY EntryTypes
<1>1. RecvHandleOK(fd) /\ SendHandleOK(fd)
  BY DEF RequestsOK
<1>2. ~Refused(fn, fd) /\ Proper(fn, fd)
  BY DEF Accepted
<1>3. CASE fn \in Sends
  <2>1. /\ requests[h].at # "rtrn"
        /\ requests[h].cmd = IF Has(fd, "DGRAM") THEN "sendto" ELSE "send"
    BY <1>1, <1>3 DEF SendHandleOK
  <2>2. fn = "sendto" <=> Has(fd, "DGRAM")
    BY <1>2, <1>3 DEF Proper, Sends
  <2> QED
    BY <1>0, <1>3, <2>1, <2>2 DEF Sends
<1>4. CASE fn = "connect"
  <2>1. h = sockets[fd].recvHandle /\ Has(fd, "PENDCONN")
    BY <1>2, <1>4 DEF Refused, InProgressOther, Sends, Receives
  <2> QED
    BY <1>0, <1>1, <1>4, <2>1 DEF RecvHandleOK, Pending, Has
<1>5. CASE fn = "accept"
  <2>1. h = sockets[fd].recvHandle /\ Has(fd, "PENDACPT")
    BY <1>2, <1>5 DEF Refused, InProgressOther, Sends, Receives
  <2> QED
    BY <1>0, <1>1, <1>5, <2>1 DEF RecvHandleOK, Pending, Has
<1>6. CASE fn \in Receives
  <2>1. h = sockets[fd].recvHandle /\ Has(fd, "PENDRECV")
    BY <1>2, <1>6 DEF Refused, InProgressOther, Sends, Receives
  <2>2. /\ requests[h].at # "rtrn" /\ requests[h].cmd \in Receives
        /\ requests[h].cmd = "recvfrom" <=> Has(fd, "DGRAM")
    BY <1>1, <2>1 DEF RecvHandleOK, Pending, Has
  <2>3. fn = "recvfrom" <=> Has(fd, "DGRAM")
    BY <1>2, <1>6 DEF Proper, Receives
  <2> QED
    BY <1>0, <1>6, <2>2, <2>3 DEF Receives
<1> QED
  BY <1>3, <1>4, <1>5, <1>6 DEF AsyncFns

(* The second call of an operation that is pending.                        *)
LEMMA ResumeInv ==
  ASSUME SocketsInv, Careful, NEW fn \in AsyncFns, NEW fd \in Fds, NEW len \in Nat, resume(fn, fd, len)
  PROVE  SocketsInv'
<1>0. ValuesOK /\ RequestsOK
  BY DEF SocketsInv
<1> DEFINE h == sockets[fd][handleOf(fn)]
<1>1. /\ Accepted(fn, fd) /\ h # NULL_REQUEST
      /\ call' = [fn |-> fn, fd |-> fd, h |-> h, len |-> len]
      /\ TakesFrom(fn, fd)
      /\ UNCHANGED <<requests, wire, proxyVars, given, history>>
  BY DEF resume, TakesFrom
<1>2. h = IF fn \in Sends THEN sockets[fd].sendHandle ELSE sockets[fd].recvHandle
  BY DEF handleOf
<1> HIDE DEF h
<1>3. h \in Handles /\ requests[h].cmd = fn /\ requests[h].at # "rtrn"
  BY <1>0, <1>1, <1>2, Resumes
<1>4. Idle /\ Active(fd) /\ Proper(fn, fd)
  BY <1>1 DEF Accepted
<1>5. fn \in Sends \cup Receives => (fn \in {"sendto", "recvfrom"} <=> Has(fd, "DGRAM"))
  BY <1>4 DEF Proper
<1>6. sockets' \in [Fds -> Entries] /\ Taken(fn, fd)
  BY <1>0, <1>1, TakenEntry
<1>7. RequestsOK'
  BY <1>0, <1>1, <1>2, <1>3, <1>4, <1>5, <1>6, ResumedRequests
<1>8. call' \in Calls
  BY <1>1, <1>3, CallIn
<1>9. call.fn # "closesocket" /\ call'.fn # "closesocket"
  BY <1>1, <1>4 DEF Idle, NoCall, AsyncFns, Sends, Receives
<1>10. \A k \in Fds : (Active(k)' <=> Active(k)) /\ (Has(k, "DGRAM")' <=> Has(k, "DGRAM"))
  <2>1. "ACTIVE" \notin pendFlags(fn) /\ "DGRAM" \notin pendFlags(fn)
    BY DEF pendFlags, AsyncFns, Sends, Receives
  <2> QED
    BY <1>6, <2>1 DEF Taken, Active, Has
<1> QED
  BY <1>1, <1>6, <1>7, <1>8, <1>9, <1>10, QuietInv

(* ioctlsocket, which makes a socket non-blocking.                         *)
LEMMA IoctlInv ==
  ASSUME SocketsInv, NEW fd \in Fds, ioctlsocket(fd)
  PROVE  SocketsInv'
<1>0. ValuesOK /\ RequestsOK
  BY DEF SocketsInv
<1>1. PICK f \in {sockets[fd].flags \cup {"NONBLOCK"}, sockets[fd].flags \ {"NONBLOCK"}} : SetsFlags(fd, f)
  BY DEF ioctlsocket, SetsFlags
<1>2. Idle /\ UNCHANGED <<requests, wire, call, proxyVars, given, history>>
  BY DEF ioctlsocket
<1>3. f \in SUBSET Flags /\ \A x \in {"ACTIVE", "DGRAM", "PENDCONN", "PENDACPT", "PENDRECV"} :
                              x \in f <=> x \in sockets[fd].flags
  BY <1>0, EntryTypes DEF Flags
<1>4. /\ sockets' \in [Fds -> Entries]
      /\ \A k \in Fds : /\ k # fd => sockets'[k] = sockets[k]
                        /\ sockets'[k].recvHandle = sockets[k].recvHandle
                        /\ sockets'[k].sendHandle = sockets[k].sendHandle
      /\ sockets'[fd].flags = f
  BY <1>0, <1>1, <1>3, FlagsSet
<1>5. \A k \in Fds : (Active(k)' <=> Active(k)) /\ (Has(k, "DGRAM")' <=> Has(k, "DGRAM"))
  BY <1>3, <1>4 DEF Active, Has
<1>6. \A k \in Fds : Pending(k)' = Pending(k)
  BY <1>3, <1>4 DEF Pending
<1>7. call.fn = "none" /\ call' = call
  BY <1>2 DEF Idle, NoCall
<1>8. SelectOK'
  BY <1>7 DEF SelectOK, Selecting
<1>9. RequestsOK'
  BY <1>0, <1>2, <1>4, <1>5, <1>6, <1>7, <1>8, QuietRequests DEF Fns, SyncFns, AsyncFns, Sends, Receives
<1>10. call' \in Calls
  BY <1>0, <1>7 DEF ValuesOK
<1> QED
  BY <1>2, <1>4, <1>5, <1>7, <1>9, <1>10, QuietInv

(* selectX, but for the requests it starts.                                *)
LEMMA SelectInv ==
  ASSUME SocketsInv, Careful,
         \/ \E rd, wr \in SUBSET {fd \in Fds : Active(fd)}, timeout \in BOOLEAN : selectX(rd, wr, timeout)
         \/ selectLook \/ selectEnd
  PROVE  SocketsInv'
<1>0. ValuesOK /\ RequestsOK
  BY DEF SocketsInv
<1>1. UNCHANGED <<sockets, requests, wire, proxyVars, given, history>>
  BY DEF selectX, selectLook, selectEnd
<1>2. UNCHANGED sockets
  BY <1>1
<1>3. /\ call.fn \in {"none", "selectX"}
      /\ call' \in Calls /\ call'.fn \in {"none", "selectX"} /\ SelectOK'
  <2>1. ASSUME NEW rd \in SUBSET {fd \in Fds : Active(fd)}, NEW wr \in SUBSET {fd \in Fds : Active(fd)},
               NEW timeout \in BOOLEAN, selectX(rd, wr, timeout)
        PROVE  /\ call.fn \in {"none", "selectX"}
               /\ call' \in Calls /\ call'.fn \in {"none", "selectX"} /\ SelectOK'
    <3>1. call.fn = "none"
      BY <2>1 DEF selectX, Idle, NoCall
    <3>2. /\ call'.fn = "selectX" /\ call'.rd = rd
          /\ \A fd \in rd : fd \in Fds /\ Active(fd) /\ ~Has(fd, "DGRAM")
      BY <2>1 DEF selectX
    <3>3. call' \in Calls
      <4>1. 0 \in 0 .. FD_SETSIZE /\ rd \in SUBSET Fds /\ wr \in SUBSET Fds
        BY SocketBounds
      <4> QED
        BY <2>1, <4>1 DEF selectX, Calls
    <3>4. SelectOK'
      BY <1>2, <3>2 DEF SelectOK, Active, Has
    <3> QED
      BY <3>1, <3>2, <3>3, <3>4
  <2>2. CASE selectLook
    <3>1. call.fn = "selectX" /\ call.i < FD_SETSIZE
      BY <2>2 DEF selectLook, Scanning, Selecting
    <3>2. /\ call.rd \in SUBSET Fds /\ call.wr \in SUBSET Fds
          /\ call.timeout \in BOOLEAN /\ call.i \in 0 .. FD_SETSIZE
          /\ call.watched \in SUBSET Handles /\ call.noWait \in BOOLEAN
      BY <1>0, <3>1, CallTypes DEF ValuesOK
    <3>3. call.i \in Fds /\ call.i + 1 \in 0 .. FD_SETSIZE
      BY <3>1, <3>2, SocketBounds DEF Fds
    <3>4. Entry.recvHandle \in Handles \cup {NULL_REQUEST} /\ Entry.sendHandle \in Handles \cup {NULL_REQUEST}
      BY <1>0, <3>3, EntryTypes DEF Entry
    <3>5. call \in [fn : {"selectX"}, rd : SUBSET Fds, wr : SUBSET Fds, timeout : BOOLEAN,
                    i : 0 .. FD_SETSIZE, watched : SUBSET Handles, noWait : BOOLEAN]
      BY <1>0, <3>1 DEF ValuesOK, Calls, NoCall, SyncFns, AsyncFns, Sends, Receives
    <3>6. \E w \in SUBSET Handles, x \in BOOLEAN :
            call' = [call EXCEPT !.i = @ + 1, !.watched = w, !.noWait = x]
      <4> DEFINE rd == IF Active(call.i)
                         /\ (call.i \in call.rd \/ (call.i \in call.wr /\ Has(call.i, "PENDCONN")))
                       THEN {Entry.recvHandle} \ {NULL_REQUEST} ELSE {}
                 wr == IF Active(call.i) /\ call.i \in call.wr
                       THEN {Entry.sendHandle} \ {NULL_REQUEST} ELSE {}
                 w == call.watched \cup rd \cup wr
                 x == \/ call.noWait
                      \/ \E h \in rd : isAvailable(h)
                      \/ call.i \in call.rd /\ rd # {} /\ Entry.recvRemaining > 0
                      \/ wr # {} /\ Entry.recvHandle # NULL_REQUEST /\ isAvailable(Entry.recvHandle)
      <4>1. call' = [call EXCEPT !.i = @ + 1, !.watched = w, !.noWait = x]
        BY <2>2 DEF selectLook
      <4>2. w \in SUBSET Handles
        BY <3>2, <3>4
      <4>3. x \in BOOLEAN
        BY <3>2, Zenon
      <4> HIDE DEF w, x
      <4> QED
        BY <4>1, <4>2, <4>3
    <3>7. PICK w \in SUBSET Handles, x \in BOOLEAN :
            call' = [call EXCEPT !.i = @ + 1, !.watched = w, !.noWait = x]
      BY <3>6
    <3>8. /\ call' \in [fn : {"selectX"}, rd : SUBSET Fds, wr : SUBSET Fds, timeout : BOOLEAN,
                        i : 0 .. FD_SETSIZE, watched : SUBSET Handles, noWait : BOOLEAN]
          /\ call'.fn = "selectX" /\ call'.rd = call.rd
      BY <3>3, <3>5, <3>7
    <3>9. call' \in Calls
      BY <3>8 DEF Calls
    <3>10. SelectOK'
      BY <1>0, <1>2, <3>1, <3>8 DEF RequestsOK, SelectOK, Selecting, Active, Has
    <3> QED
      BY <3>1, <3>8, <3>9, <3>10
  <2>3. CASE selectEnd
    <3>1. call.fn = "selectX" /\ call' = NoCall
      BY <2>3 DEF selectEnd, Selecting
    <3>2. SelectOK'
      BY <3>1 DEF SelectOK, Selecting, NoCall
    <3> QED
      BY <3>1, <3>2, CallIn DEF NoCall
  <2> QED
    BY <2>1, <2>2, <2>3
<1>4. call.fn \notin Fns /\ call'.fn \notin Fns
  BY <1>3 DEF Fns, SyncFns, AsyncFns, Sends, Receives
<1>5. \A k \in Fds : /\ (Active(k)' <=> Active(k)) /\ (Has(k, "DGRAM")' <=> Has(k, "DGRAM"))
                     /\ Pending(k)' = Pending(k)
  BY <1>2 DEF Active, Has, Pending
<1>6. RequestsOK'
  BY <1>0, <1>1, <1>2, <1>3, <1>4, <1>5, QuietRequests
<1>7. sockets' \in [Fds -> Entries]
  BY <1>0, <1>2 DEF ValuesOK
<1> QED
  BY <1>1, <1>3, <1>5, <1>6, <1>7, QuietInv

(* selectX begins.                                                         *)
LEMMA SelectStartInv ==
  ASSUME SocketsInv, selectStart
  PROVE  SocketsInv'
<1>0. ValuesOK /\ RequestsOK
  BY DEF SocketsInv
<1>1. call.fn = "selectX" /\ call.i < FD_SETSIZE /\ Active(call.i) /\ call.i \in call.rd
  BY DEF selectStart, Scanning, Selecting, mustStart
<1>2. call \in Calls /\ call.i \in 0 .. FD_SETSIZE
  BY <1>0, <1>1, CallTypes DEF ValuesOK
<1>3. call.i \in Fds
  BY <1>1, <1>2, SocketBounds DEF Fds
<1>4. ~Has(call.i, "DGRAM")
  BY <1>0, <1>1 DEF RequestsOK, SelectOK, Selecting
<1>5. program.bytes \in Nat /\ <<>> \in Data
  <2>1. program.bytes \in 1 .. MaxBytes
    BY <1>0, SocketBounds DEF ValuesOK
  <2> QED
    BY <2>1, SocketBounds DEF Data
<1>6. \E fn \in {"accept", "recv"} : BeginCall(fn, call.i, <<>>, program.bytes, FALSE, call)
  BY <1>1, <1>4 DEF selectStart, BeginCall, Selecting, history, Sends, Receives
<1> QED
  BY <1>2, <1>3, <1>5, <1>6, BeginCallInv DEF AsyncFns, Receives

(* The answer a call returns with is that to its request.                  *)
LEMMA Returns ==
  ASSUME SocketsInv, Answered, return, NEW h, h = call.h, NEW fd, fd = call.fd
  PROVE  /\ call.fn \in Fns /\ h \in Handles /\ fd \in Fds
         /\ requests[h].at = "rcvd" /\ requests[h].cmd = call.fn /\ requests[h].fd = fd
         /\ OK <=> requests[h].rc = "EOK"
         /\ call' = NoCall /\ UNCHANGED <<wire, table, objs, program, failures, severed>>
<1>0. ValuesOK /\ RequestsOK /\ call \in Calls
  BY DEF SocketsInv, ValuesOK
<1>1. call.fn \in Fns
  BY <1>0, CallTypes DEF Answered
<1> QED
  BY <1>0, <1>1, CallHolds DEF Answered, isAvailable, OK, Answer, return, proxyVars, given

(* What becomes of the request buffer.                                     *)
LEMMA Freed ==
  ASSUME ValuesOK, NEW h \in Handles, h = call.h, freeRequest, UNCHANGED objs
  PROVE  /\ requests'[h].at = "free" /\ requests'[h].cmd = ""
         /\ \A g \in Handles : g # h => requests'[g] = requests[g]
         /\ requests' \in [Handles -> Buffers']
<1>1. requests \in [Handles -> Buffers] /\ Buffers' = Buffers
  BY DEF ValuesOK, Buffers
<1>2. Free \in Buffers /\ Free.at = "free" /\ Free.cmd = ""
  <2>1. 0 \in Fds /\ <<>> \in Data
    BY SocketBounds DEF Fds, Data
  <2> QED
    BY <2>1 DEF Buffers, Free, NULL, Codes
<1>3. requests' = [requests EXCEPT ![h] = Free]
  BY DEF freeRequest
<1> QED
  BY <1>1, <1>2, <1>3

(* A response that is returned and not freed stays in its buffer.          *)
LEMMA LeftThere ==
  ASSUME ValuesOK, NEW h \in Handles, requests' = [requests EXCEPT ![h].at = "rtrn"], UNCHANGED objs
  PROVE  /\ requests'[h].at = "rtrn" /\ requests'[h].cmd = requests[h].cmd
         /\ requests'[h].fd = requests[h].fd
         /\ \A g \in Handles : g # h => requests'[g] = requests[g]
         /\ requests' \in [Handles -> Buffers']
<1>1. requests \in [Handles -> Buffers] /\ Buffers' = Buffers /\ requests[h] \in Buffers
  BY DEF ValuesOK, Buffers
<1>2. [requests[h] EXCEPT !.at = "rtrn"] \in Buffers
  BY <1>1 DEF Buffers
<1> QED
  BY <1>1, <1>2 DEF Buffers

(* Objects that are yet to be made are not touched.                        *)
LEMMA UnmadeAt ==
  ASSUME ValuesOK, ObjsBounded, Unmade, UNCHANGED objs, NEW o \in DOMAIN objs,
         \A m \in 0 .. MaxObjs : m # o => received'[m] = received[m] /\ sent'[m] = sent[m]
  PROVE  Unmade'
<1>1. objs \in Seq(Objects)
  BY DEF ValuesOK
<1>2. \A m \in Len(objs) + 1 .. MaxObjs : m # o /\ m \in 0 .. MaxObjs
  BY <1>1, SocketBounds
<1> QED
  BY <1>2 DEF Unmade

(* A call returns: what is left to show of each of them.                   *)
LEMMA ReturnInv ==
  ASSUME SocketsInv, NEW h \in Handles, call' = NoCall,
         UNCHANGED <<wire, table, objs, program, failures, severed>>,
         requests' \in [Handles -> Buffers'], sockets' \in [Fds -> Entries],
         requests'[h].at \in {"free", "rtrn"},
         \A g \in Handles : g # h => requests'[g] = requests[g],
         objOf' \in [Fds -> {0} \cup DOMAIN objs],
         received' \in [0 .. MaxObjs -> Seq(Nat)],
         sent' \in [0 .. MaxObjs -> [begun : Nat, done : Nat]],
         RequestsOK', NumbersOK', ReadsOK', SendsOK', Unmade'
  PROVE  SocketsInv'
<1>0. ValuesOK /\ ObjsBounded
  BY DEF SocketsInv
<1>1. Entries' = Entries /\ Calls' = Calls /\ Objects' = Objects
  BY DEF Entries, Calls, Objects
<1>2. ValuesOK'
  BY <1>0, <1>1, CallIn DEF ValuesOK
<1>3. ObjsBounded'
  BY <1>0, StillBounded
<1> QED
  BY <1>2, <1>3 DEF SocketsInv

(* Calls that return without a new socket and without bytes.               *)
LEMMA PlainReturn ==
  ASSUME SocketsInv, NEW h \in Handles, h = call.h, call.fn \in Fns, requests[h].at = "rcvd",
         call' = NoCall, UNCHANGED <<wire, table, objs, program, failures, severed, history>>,
         requests' \in [Handles -> Buffers'], sockets' \in [Fds -> Entries],
         ~New(h), ~Rest(h),
         \A g \in Handles : g # h => requests'[g] = requests[g],
         \/ requests'[h].at = "free" /\ requests'[h].cmd = ""
         \/ requests'[h].at = "rtrn" /\ requests'[h].cmd = "gethost",
         \A k \in Fds : /\ sockets'[k].recvHandle = sockets[k].recvHandle
                        /\ sockets'[k].sendHandle = sockets[k].sendHandle
                        /\ Pending(k)' = Pending(k)
                        /\ Active(k)' <=> Active(k)
                        /\ Has(k, "DGRAM")' <=> Has(k, "DGRAM")
  PROVE  SocketsInv'
<1>0. ValuesOK /\ ObjsBounded /\ RequestsOK /\ NumbersOK /\ ReadsOK /\ SendsOK /\ Unmade
  BY DEF SocketsInv
<1>1. UNCHANGED <<objOf, received, sent>>
  BY DEF history
<1>2. RequestsOK'
  BY <1>0, ReturnRequests
<1>3. NumbersOK'
  BY <1>0, <1>1, ReturnNumbers
<1>4. ReadsOK' /\ SendsOK'
  BY <1>0, <1>1, ReturnBytes
<1>5. Unmade'
  BY <1>0, <1>1, StillUnmade
<1>6. /\ objOf' \in [Fds -> {0} \cup DOMAIN objs] /\ received' \in [0 .. MaxObjs -> Seq(Nat)]
      /\ sent' \in [0 .. MaxObjs -> [begun : Nat, done : Nat]]
  BY <1>0, <1>1 DEF ValuesOK
<1> QED
  BY <1>2, <1>3, <1>4, <1>5, <1>6, ReturnInv

(* bind, listen, shutdown and the others that only return a code.          *)
LEMMA ReturnOnlyInv ==
  ASSUME SocketsInv, returnOnly
  PROVE  SocketsInv'
<1>0. ValuesOK
  BY DEF SocketsInv
<1>1. /\ Answered /\ return /\ freeRequest /\ UNCHANGED <<sockets, history>>
      /\ ~OK \/ call.fn \in {"closesocket", "bind", "shutdown", "getSockInfo"}
  BY DEF returnOnly
<1> DEFINE h == call.h
<1>2. /\ call.fn \in Fns /\ h \in Handles
      /\ requests[h].at = "rcvd" /\ requests[h].cmd = call.fn
      /\ OK <=> requests[h].rc = "EOK"
      /\ call' = NoCall /\ UNCHANGED <<wire, table, objs, program, failures, severed>>
  BY <1>1, Returns
<1>3. /\ requests'[h].at = "free" /\ requests'[h].cmd = ""
      /\ \A g \in Handles : g # h => requests'[g] = requests[g]
      /\ requests' \in [Handles -> Buffers']
  <2>1. UNCHANGED objs
    BY <1>2
  <2> QED
    BY <1>0, <1>1, <1>2, <2>1, Freed
<1> HIDE DEF h
<1>4. ~New(h)
  BY <1>1, <1>2 DEF New
<1>5. ~Rest(h)
  BY <1>1, <1>2 DEF Rest, Gathers
<1>6. \A k \in Fds : /\ sockets'[k] = sockets[k] /\ Pending(k)' = Pending(k)
                     /\ (Active(k)' <=> Active(k)) /\ (Has(k, "DGRAM")' <=> Has(k, "DGRAM"))
  BY <1>1 DEF Pending, Active, Has
<1>7. sockets' \in [Fds -> Entries] /\ h = call.h /\ UNCHANGED history
  BY <1>0, <1>1 DEF ValuesOK, h
<1> QED
  BY <1>2, <1>3, <1>4, <1>5, <1>6, <1>7, PlainReturn

(* A host lookup returns; its buffer is not freed.                         *)
LEMMA EndGetHostInv ==
  ASSUME SocketsInv, endGetHost
  PROVE  SocketsInv'
<1>0. ValuesOK
  BY DEF SocketsInv
<1> DEFINE h == call.h
<1>1. /\ Answered /\ return /\ requests' = [requests EXCEPT ![h].at = "rtrn"]
      /\ UNCHANGED <<sockets, history>> /\ call.fn = "gethost"
  BY DEF endGetHost
<1>2. /\ call.fn \in Fns /\ h \in Handles
      /\ requests[h].at = "rcvd" /\ requests[h].cmd = call.fn
      /\ call' = NoCall /\ UNCHANGED <<wire, table, objs, program, failures, severed>>
  BY <1>1, Returns
<1> HIDE DEF h
<1>3. /\ requests'[h].at = "rtrn" /\ requests'[h].cmd = "gethost"
      /\ \A g \in Handles : g # h => requests'[g] = requests[g]
      /\ requests' \in [Handles -> Buffers']
  <2>1. UNCHANGED objs
    BY <1>2
  <2> QED
    BY <1>0, <1>1, <1>2, <2>1, LeftThere
<1>4. ~New(h)
  BY <1>1, <1>2 DEF New
<1>5. ~Rest(h)
  BY <1>1, <1>2 DEF Rest, Gathers
<1>6. \A k \in Fds : /\ sockets'[k] = sockets[k] /\ Pending(k)' = Pending(k)
                     /\ (Active(k)' <=> Active(k)) /\ (Has(k, "DGRAM")' <=> Has(k, "DGRAM"))
  BY <1>1 DEF Pending, Active, Has
<1>7. sockets' \in [Fds -> Entries] /\ h = call.h /\ UNCHANGED history
  BY <1>0, <1>1 DEF ValuesOK, h
<1> QED
  BY <1>2, <1>3, <1>4, <1>5, <1>6, <1>7, PlainReturn

(* connect returns.                                                        *)
LEMMA EndConnectInv ==
  ASSUME SocketsInv, endConnect
  PROVE  SocketsInv'
<1>0. ValuesOK
  BY DEF SocketsInv
<1> DEFINE h == call.h
           fd == call.fd
           f == sockets[fd].flags \cup {IF call.fn = "connect" THEN "CLIENT" ELSE "SERVER"}
<1>1. /\ Answered /\ return /\ freeRequest
      /\ SetsFlags(fd, f) /\ UNCHANGED history /\ call.fn \in {"connect", "listen"}
  BY DEF endConnect, SetsFlags
<1>2. /\ call.fn \in Fns /\ h \in Handles /\ fd \in Fds
      /\ requests[h].at = "rcvd" /\ requests[h].cmd = call.fn
      /\ call' = NoCall /\ UNCHANGED <<wire, table, objs, program, failures, severed>>
  BY <1>1, Returns
<1>3. /\ requests'[h].at = "free" /\ requests'[h].cmd = ""
      /\ \A g \in Handles : g # h => requests'[g] = requests[g]
      /\ requests' \in [Handles -> Buffers']
  <2>1. UNCHANGED objs
    BY <1>2
  <2> QED
    BY <1>0, <1>1, <1>2, <2>1, Freed
<1> HIDE DEF h
<1>4. ~New(h)
  BY <1>1, <1>2 DEF New
<1>5. ~Rest(h)
  BY <1>1, <1>2 DEF Rest, Gathers
<1>6. f \in SUBSET Flags /\ \A x \in {"ACTIVE", "DGRAM", "PENDCONN", "PENDACPT", "PENDRECV"} :
                              x \in f <=> x \in sockets[fd].flags
  BY <1>0, <1>2, EntryTypes DEF Flags
<1> HIDE DEF fd, f
<1>7. /\ sockets' \in [Fds -> Entries]
      /\ \A k \in Fds : /\ k # fd => sockets'[k] = sockets[k]
                        /\ sockets'[k].recvHandle = sockets[k].recvHandle
                        /\ sockets'[k].sendHandle = sockets[k].sendHandle
      /\ sockets'[fd].flags = f
  BY <1>0, <1>1, <1>2, <1>6, FlagsSet
<1>8. \A k \in Fds : (Active(k)' <=> Active(k)) /\ (Has(k, "DGRAM")' <=> Has(k, "DGRAM"))
  BY <1>6, <1>7 DEF Active, Has
<1>9. \A k \in Fds : Pending(k)' = Pending(k)
  BY <1>6, <1>7 DEF Pending
<1>10. h = call.h /\ UNCHANGED history
  BY <1>1 DEF h
<1> QED
  BY <1>2, <1>3, <1>4, <1>5, <1>7, <1>8, <1>9, <1>10, PlainReturn

(* A number that comes with an answer is not in use, and no request is     *)
(* left with it.                                                           *)
LEMMA NewIsUnused ==
  ASSUME ValuesOK, RequestsOK, NumbersOK, NEW h \in Handles, New(h),
         NEW fd, fd = requests[h].newFd
  PROVE  /\ fd \in Fds /\ ~Active(fd) /\ Pending(fd) = {}
         /\ sockets[fd].recvHandle = NULL_REQUEST /\ sockets[fd].sendHandle = NULL_REQUEST
<1>1. fd \in Fds
  BY BufferTypes
<1>2. ~Active(fd)
  BY DEF NumbersOK, NewOK
<1>3. sockets[fd].recvHandle = NULL_REQUEST /\ sockets[fd].sendHandle = NULL_REQUEST
  BY <1>1, <1>2 DEF RequestsOK, RecvHandleOK, SendHandleOK
<1> QED
  BY <1>1, <1>2, <1>3 DEF RequestsOK, RecvHandleOK

(* The entry of the socket with a new number.                              *)
Named(fd, entry) == sockets' = [sockets EXCEPT ![fd] = entry]

(* socket or accept returns a new number.                                  *)
LEMMA BecameInv ==
  ASSUME SocketsInv, Answered, OK, call.fn \in {"socket", "accept"},
         NEW fd, fd = Answer.newFd, NEW entry, Became(fd, entry), entry \in Entries,
         entry.recvHandle = NULL_REQUEST, entry.sendHandle = NULL_REQUEST,
         entry.flags \cap {"PENDCONN", "PENDACPT", "PENDRECV"} = {}, "ACTIVE" \in entry.flags,
         "DGRAM" \in entry.flags <=> (call.fn = "socket" /\ Answer.data = <<"dgram">>)
  PROVE  SocketsInv'
<1>0. ValuesOK /\ ObjsBounded /\ RequestsOK /\ NumbersOK /\ ReadsOK /\ SendsOK /\ Unmade
  BY DEF SocketsInv
<1> DEFINE h == call.h
<1>1. /\ return /\ freeRequest /\ Named(fd, entry)
      /\ objOf' = [objOf EXCEPT ![fd] = requests[h].obj] /\ UNCHANGED <<received, sent>>
  BY DEF Became, Named, Answer
<1>2. /\ call.fn \in Fns /\ h \in Handles
      /\ requests[h].at = "rcvd" /\ requests[h].cmd = call.fn
      /\ requests[h].rc = "EOK"
      /\ call' = NoCall /\ UNCHANGED <<wire, table, objs, program, failures, severed>>
  BY <1>1, Returns
<1>3. /\ requests'[h].at = "free" /\ requests'[h].cmd = ""
      /\ \A g \in Handles : g # h => requests'[g] = requests[g]
      /\ requests' \in [Handles -> Buffers']
  <2>1. UNCHANGED objs
    BY <1>2
  <2> QED
    BY <1>0, <1>1, <1>2, <2>1, Freed
<1>4. fd = requests[h].newFd /\ Answer.data = requests[h].data /\ h = call.h
  BY DEF Answer
<1> HIDE DEF h
<1>5. New(h)
  BY <1>2 DEF New
<1>6. /\ fd \in Fds /\ ~Active(fd) /\ Pending(fd) = {}
      /\ sockets[fd].recvHandle = NULL_REQUEST /\ sockets[fd].sendHandle = NULL_REQUEST
  BY <1>0, <1>2, <1>4, <1>5, NewIsUnused
<1>7. /\ sockets' \in [Fds -> Entries] /\ sockets'[fd] = entry
      /\ \A k \in Fds : k # fd => sockets'[k] = sockets[k]
  BY <1>0, <1>1, <1>6 DEF ValuesOK, Named
<1>8. \A k \in Fds : /\ sockets'[k].recvHandle = sockets[k].recvHandle
                     /\ sockets'[k].sendHandle = sockets[k].sendHandle
  BY <1>6, <1>7
<1>9. \A k \in Fds : Pending(k)' = Pending(k)
  <2>1. Pending(fd)' = Pending(fd)
    BY <1>6, <1>7 DEF Pending
  <2> QED
    BY <1>7, <2>1 DEF Pending
<1>10. \A k \in Fds : Active(k) => Active(k)' /\ (Has(k, "DGRAM")' <=> Has(k, "DGRAM"))
  BY <1>6, <1>7 DEF Active, Has
<1>11. RequestsOK'
  BY <1>0, <1>2, <1>3, <1>4, <1>8, <1>9, <1>10, ReturnRequests
<1>12. /\ requests[h].obj \in DOMAIN objs
       /\ IF requests[h].cmd = "socket" THEN requests[h].data = <<objs[requests[h].obj].kind>>
          ELSE objs[requests[h].obj].kind = "stream"
  BY <1>0, <1>2, <1>5 DEF NumbersOK, NewOK
<1>13. "DGRAM" \in entry.flags <=> objs[requests[h].obj].kind = "dgram"
  <2>1. CASE call.fn = "socket"
    <3>1. requests[h].data = <<objs[requests[h].obj].kind>>
      BY <1>2, <1>12, <2>1
    <3>2. requests[h].data = <<"dgram">> <=> objs[requests[h].obj].kind = "dgram"
      BY <3>1
    <3> QED
      BY <1>4, <2>1, <3>2
  <2>2. CASE call.fn = "accept"
    BY <1>2, <1>12, <2>2
  <2> QED
    BY <2>1, <2>2
<1>14. NumbersOK'
  BY <1>0, <1>1, <1>2, <1>3, <1>4, <1>5, <1>6, <1>7, <1>13, NewNumbers
<1>15. \A k \in Fds : Active(k) => objOf'[k] = objOf[k]
  BY <1>0, <1>1, <1>6 DEF ValuesOK
<1>16. ~Rest(h)
  BY <1>2 DEF Rest
<1>17. ReadsOK' /\ SendsOK'
  BY <1>0, <1>1, <1>2, <1>3, <1>15, <1>16, ReturnBytes
<1>18. Unmade'
  BY <1>0, <1>1, <1>2, StillUnmade
<1>19. /\ objOf' \in [Fds -> {0} \cup DOMAIN objs] /\ received' \in [0 .. MaxObjs -> Seq(Nat)]
       /\ sent' \in [0 .. MaxObjs -> [begun : Nat, done : Nat]]
  BY <1>0, <1>1, <1>12 DEF ValuesOK
<1> QED
  BY <1>2, <1>3, <1>7, <1>11, <1>14, <1>17, <1>18, <1>19, ReturnInv

(* socket returns.                                                         *)
LEMMA EndSocketInv ==
  ASSUME SocketsInv, endSocket
  PROVE  SocketsInv'
<1> DEFINE fd == Answer.newFd
           flags == IF Answer.data = <<"dgram">> THEN {"ACTIVE", "DGRAM", "CLIENT"} ELSE {"ACTIVE"}
           entry == [Unused EXCEPT !.flags = flags]
<1>1. Answered /\ OK /\ call.fn = "socket" /\ Became(fd, entry)
  BY DEF endSocket
<1>2. /\ flags \in SUBSET Flags /\ "ACTIVE" \in flags
      /\ flags \cap {"PENDCONN", "PENDACPT", "PENDRECV"} = {}
      /\ "DGRAM" \in flags <=> Answer.data = <<"dgram">>
  BY DEF Flags
<1> HIDE DEF flags
<1>3. /\ entry.flags = flags /\ entry.recvHandle = NULL_REQUEST /\ entry.sendHandle = NULL_REQUEST
  BY DEF Unused
<1>4. entry \in Entries
  BY <1>2, UnusedIn DEF Unused, Entries, NULL_REQUEST
<1> HIDE DEF entry, fd
<1>5. fd = Answer.newFd
  BY DEF fd
<1> QED
  BY <1>1, <1>2, <1>3, <1>4, <1>5, BecameInv

(* accept returns.                                                         *)
LEMMA EndAcceptInv ==
  ASSUME SocketsInv, endAccept
  PROVE  SocketsInv'
<1>0. ValuesOK /\ RequestsOK /\ NumbersOK
  BY DEF SocketsInv
<1> DEFINE fd == Answer.newFd
           entry == [sockets[fd] EXCEPT !.flags = {"ACTIVE", "CLIENT"}]
<1>1. Answered /\ OK /\ call.fn = "accept" /\ Became(fd, entry)
  BY DEF endAccept
<1>2. return /\ call.h \in Handles /\ requests[call.h].at = "rcvd" /\ requests[call.h].cmd = "accept"
      /\ requests[call.h].rc = "EOK"
  <2>1. return
    BY <1>1 DEF Became
  <2> QED
    BY <1>1, <2>1, Returns
<1>3. New(call.h) /\ fd = requests[call.h].newFd
  BY <1>2 DEF New, Answer
<1> HIDE DEF fd
<1>4. /\ fd \in Fds
      /\ sockets[fd].recvHandle = NULL_REQUEST /\ sockets[fd].sendHandle = NULL_REQUEST
  BY <1>0, <1>2, <1>3, NewIsUnused
<1>5. sockets[fd] \in Entries /\ {"ACTIVE", "CLIENT"} \in SUBSET Flags
  BY <1>0, <1>4, EntryTypes DEF Flags
<1>6. /\ entry.flags = {"ACTIVE", "CLIENT"} /\ entry \in Entries
      /\ entry.recvHandle = NULL_REQUEST /\ entry.sendHandle = NULL_REQUEST
  BY <1>4, <1>5 DEF Entries
<1> HIDE DEF entry
<1>7. fd = Answer.newFd
  BY DEF fd
<1>8. "DGRAM" \notin entry.flags /\ "ACTIVE" \in entry.flags
      /\ entry.flags \cap {"PENDCONN", "PENDACPT", "PENDRECV"} = {}
  BY <1>6
<1> QED
  BY <1>1, <1>6, <1>7, <1>8, BecameInv

(* send or sendto returns the number of bytes sent.                        *)
LEMMA EndSendInv ==
  ASSUME SocketsInv, endSend
  PROVE  SocketsInv'
<1>0. ValuesOK /\ ObjsBounded /\ RequestsOK /\ NumbersOK /\ ReadsOK /\ SendsOK /\ Unmade
  BY DEF SocketsInv
<1> DEFINE h == call.h
           o == Object(h)
<1>1. /\ Answered /\ return /\ freeRequest /\ OK /\ call.fn \in Sends
      /\ sent' = [sent EXCEPT ![objOf[call.fd]].done = @ + 1]
      /\ UNCHANGED <<sockets, objOf, received>>
  BY DEF endSend
<1>2. /\ call.fn \in Fns /\ h \in Handles
      /\ requests[h].at = "rcvd" /\ requests[h].cmd = call.fn /\ requests[h].fd = call.fd
      /\ requests[h].rc = "EOK"
      /\ call' = NoCall /\ UNCHANGED <<wire, table, objs, program, failures, severed>>
  BY <1>1, Returns
<1>3. /\ requests'[h].at = "free" /\ requests'[h].cmd = ""
      /\ \A g \in Handles : g # h => requests'[g] = requests[g]
      /\ requests' \in [Handles -> Buffers']
  <2>1. UNCHANGED objs
    BY <1>2
  <2> QED
    BY <1>0, <1>1, <1>2, <2>1, Freed
<1>4. o = objOf[call.fd] /\ h = call.h /\ o = Object(h)
  BY <1>2 DEF Object
<1> HIDE DEF h, o
<1>5. sent' = [sent EXCEPT ![o].done = @ + 1] /\ requests[h].cmd \in Sends
  BY <1>1, <1>2, <1>4
<1>6. o \in DOMAIN objs
  BY <1>0, <1>2, <1>4, <1>5, DataRequest
<1>7. SendsOK' /\ sent' \in [0 .. MaxObjs -> [begun : Nat, done : Nat]]
  BY <1>0, <1>1, <1>2, <1>3, <1>4, <1>5, EndSends
<1>8. ~New(h) /\ ~Rest(h)
  BY <1>5 DEF New, Rest, Sends
<1>9. \A k \in Fds : /\ sockets'[k] = sockets[k] /\ Pending(k)' = Pending(k)
                     /\ (Active(k)' <=> Active(k)) /\ (Has(k, "DGRAM")' <=> Has(k, "DGRAM"))
  BY <1>1 DEF Pending, Active, Has
<1>10. RequestsOK'
  BY <1>0, <1>2, <1>3, <1>4, <1>9, ReturnRequests
<1>11. NumbersOK'
  BY <1>0, <1>1, <1>2, <1>3, <1>4, <1>8, <1>9, ReturnNumbers
<1>12. ReadsOK'
  <2>1. \A g \in Handles : Gathers(g)' =>
           /\ Gathers(g) /\ requests'[g] = requests[g]
           /\ Object(g)' = Object(g) /\ Object(g) \in DOMAIN objs
    <3> SUFFICES ASSUME NEW g \in Handles, Gathers(g)'
                 PROVE  /\ Gathers(g) /\ requests'[g] = requests[g]
                        /\ Object(g)' = Object(g) /\ Object(g) \in DOMAIN objs
      OBVIOUS
    <3>1. requests'[g] = requests[g]
      BY <1>3 DEF Gathers
    <3>2. Gathers(g) /\ Object(g)' = Object(g)
      BY <1>1, <3>1 DEF Gathers, Object
    <3>3. requests[g].at # "free" /\ requests[g].cmd \in Receives
      BY <3>2 DEF Gathers
    <3> QED
      BY <1>0, <3>1, <3>2, <3>3, DataRequest
  <2>2. \A g \in Handles : Rest(g) => Rest(g)' /\ Object(g)' = Object(g)
    <3> SUFFICES ASSUME NEW g \in Handles, Rest(g)
                 PROVE  Rest(g)' /\ Object(g)' = Object(g)
      OBVIOUS
    <3>1. requests'[g] = requests[g]
      BY <1>3, <1>8
    <3> QED
      BY <1>1, <3>1 DEF Rest, Gathers, Object
  <2>3. \A m \in DOMAIN objs : objs[m].peer \in Nat /\ objs[m].peer <= objs[m].peer
    BY <1>0, ObjectTypes
  <2> QED
    BY <1>0, <1>1, <1>2, <2>1, <2>2, <2>3, ReadsFrame
<1>13. Unmade'
  <2>1. \A m \in 0 .. MaxObjs : m # o => sent'[m] = sent[m] /\ received'[m] = received[m]
    BY <1>0, <1>1, <1>5 DEF ValuesOK
  <2>2. UNCHANGED objs
    BY <1>2
  <2> QED
    BY <1>0, <1>6, <2>1, <2>2, UnmadeAt
<1>14. /\ objOf' \in [Fds -> {0} \cup DOMAIN objs] /\ received' \in [0 .. MaxObjs -> Seq(Nat)]
       /\ sockets' \in [Fds -> Entries]
  BY <1>0, <1>1 DEF ValuesOK
<1> QED
  BY <1>2, <1>3, <1>7, <1>10, <1>11, <1>12, <1>13, <1>14, ReturnInv

(* A call of a receive returns: the bytes that were sent are not its       *)
(* concern.                                                                *)
LEMMA ReceivedSends ==
  ASSUME ValuesOK, RequestsOK, NumbersOK, SendsOK, UNCHANGED <<objs, objOf, sent>>,
         NEW h \in Handles, requests'[h].at \in {"free", "rtrn"},
         \A g \in Handles : g # h => requests'[g] = requests[g]
  PROVE  SendsOK'
<1>1. ASSUME NEW g \in Handles, requests'[g].cmd \in Sends, requests'[g].at \in Live
      PROVE  /\ requests'[g] = requests[g] /\ Object(g)' = Object(g) /\ Object(g) \in DOMAIN objs
  <2>1. requests'[g].at # "free" /\ requests'[g].at # "rtrn"
    BY <1>1, LiveNotFree
  <2>2. requests'[g] = requests[g]
    BY <2>1
  <2>3. Object(g)' = Object(g)
    BY <2>2 DEF Object
  <2> QED
    BY <1>1, <2>1, <2>2, <2>3, DataRequest
<1> QED
  BY <1>1, SendsFrame

(* recvfrom returns a datagram.                                            *)
LEMMA EndRecvfromInv ==
  ASSUME SocketsInv, endRecvfrom
  PROVE  SocketsInv'
<1>0. ValuesOK /\ ObjsBounded /\ RequestsOK /\ NumbersOK /\ ReadsOK /\ SendsOK /\ Unmade
  BY DEF SocketsInv
<1> DEFINE h == call.h
           o == Object(h)
           m == Least(call.len + 1, Len(Answer.data))
<1>1. /\ Answered /\ return /\ freeRequest /\ OK /\ call.fn = "recvfrom"
      /\ HandsOut(objOf[call.fd], SubSeq(Answer.data, 2, m))
      /\ UNCHANGED <<sockets, objOf, sent>>
  BY DEF endRecvfrom, Deliver, HandsOut
<1>2. /\ call.fn \in Fns /\ h \in Handles
      /\ requests[h].at = "rcvd" /\ requests[h].cmd = call.fn /\ requests[h].fd = call.fd
      /\ requests[h].rc = "EOK"
      /\ call' = NoCall /\ UNCHANGED <<wire, table, objs, program, failures, severed>>
  BY <1>1, Returns
<1>3. /\ requests'[h].at = "free" /\ requests'[h].cmd = ""
      /\ \A g \in Handles : g # h => requests'[g] = requests[g]
      /\ requests' \in [Handles -> Buffers']
  <2>1. UNCHANGED objs
    BY <1>2
  <2> QED
    BY <1>0, <1>1, <1>2, <2>1, Freed
<1>4. o = objOf[call.fd] /\ h = call.h /\ o = Object(h) /\ Answer.data = requests[h].data
  BY <1>2 DEF Object, Answer
<1>5. call.len \in Nat /\ m = Least(call.len + 1, Len(Answer.data))
  <2>1. call \in Calls /\ call.fn \in AsyncFns
    BY <1>0, <1>1 DEF ValuesOK, AsyncFns, Receives
  <2> QED
    BY <2>1, CallTypes
<1> HIDE DEF h, o, m
<1>6. requests[h].cmd = "recvfrom"
  BY <1>1, <1>2
<1>7. o \in DOMAIN objs
  <2>1. requests[h].at # "free" /\ requests[h].cmd \in Sends \cup Receives
    BY <1>2, <1>6 DEF Receives
  <2> QED
    BY <1>0, <1>2, <1>4, <2>1, DataRequest
<1>8. Len(requests[h].data) = 2
  <2>1. Gathers(h)
    BY <1>2, <1>6 DEF Gathers, Receives
  <2>2. AnswerOK(h)
    BY <1>0, <1>2, <2>1 DEF ReadsOK
  <2>3. \E v \in 1 .. objs[o].read : requests[h].data = <<ADDR, v>>
    BY <1>4, <1>6, <2>2 DEF AnswerOK
  <2> QED
    BY <2>3
<1>9. m \in Nat /\ 0 < m /\ m <= Len(requests[h].data)
  BY <1>4, <1>5, <1>8 DEF Least
<1>10. HandsOut(o, SubSeq(requests[h].data, 2, m))
  BY <1>1, <1>4
<1>11. ReadsOK' /\ received' \in [0 .. MaxObjs -> Seq(Nat)]
  BY <1>0, <1>1, <1>2, <1>3, <1>4, <1>6, <1>7, <1>9, <1>10, RecvfromReads
<1>12. SendsOK'
  BY <1>0, <1>1, <1>2, <1>3, ReceivedSends
<1>13. ~New(h)
  BY <1>6 DEF New
<1>14. \A k \in Fds : /\ sockets'[k] = sockets[k] /\ Pending(k)' = Pending(k)
                     /\ (Active(k)' <=> Active(k)) /\ (Has(k, "DGRAM")' <=> Has(k, "DGRAM"))
  BY <1>1 DEF Pending, Active, Has
<1>15. RequestsOK'
  BY <1>0, <1>2, <1>3, <1>4, <1>14, ReturnRequests
<1>16. NumbersOK'
  BY <1>0, <1>1, <1>2, <1>3, <1>4, <1>13, <1>14, ReturnNumbers
<1>17. Unmade'
  <2>1. o \in 0 .. MaxObjs
    BY <1>0, <1>7, ObjectBound
  <2>2. \A k \in 0 .. MaxObjs : k # o => received'[k] = received[k]
    BY <1>0, <1>10, <2>1, HandedOut
  <2>3. UNCHANGED objs
    BY <1>2
  <2> QED
    BY <1>0, <1>1, <1>7, <2>2, <2>3, UnmadeAt
<1>18. /\ objOf' \in [Fds -> {0} \cup DOMAIN objs] /\ sent' \in [0 .. MaxObjs -> [begun : Nat, done : Nat]]
       /\ sockets' \in [Fds -> Entries]
  BY <1>0, <1>1 DEF ValuesOK
<1> QED
  BY <1>2, <1>3, <1>11, <1>12, <1>15, <1>16, <1>17, <1>18, ReturnInv

(* What does not fit stays with the socket.                                *)
KeepsRest(fd, h, n) ==
  sockets' = [sockets EXCEPT ![fd].recvHandle = h, ![fd].recvRemaining = n]

(* The response stays with the socket for the bytes not handed out.        *)
LEMMA RestKept ==
  ASSUME ValuesOK, NEW fd \in Fds, NEW h \in Handles, NEW n \in 0 .. MaxBytes, KeepsRest(fd, h, n)
  PROVE  /\ sockets' \in [Fds -> Entries] /\ sockets'[fd].recvHandle = h
         /\ \A k \in Fds : /\ k # fd => sockets'[k] = sockets[k]
                           /\ sockets'[k].flags = sockets[k].flags
                           /\ sockets'[k].sendHandle = sockets[k].sendHandle
<1>1. sockets \in [Fds -> Entries] /\ sockets[fd] \in Entries
  BY DEF ValuesOK
<1>2. [sockets[fd] EXCEPT !.recvHandle = h, !.recvRemaining = n] \in Entries
  BY <1>1 DEF Entries
<1>3. sockets' = [sockets EXCEPT ![fd] = [sockets[fd] EXCEPT !.recvHandle = h, !.recvRemaining = n]]
  BY <1>1 DEF KeepsRest, Entries
<1> QED
  BY <1>1, <1>2, <1>3 DEF Entries

(* recv returns bytes, and keeps the rest of the response.                 *)
LEMMA EndRecvInv ==
  ASSUME SocketsInv, endRecv
  PROVE  SocketsInv'
<1>0. ValuesOK /\ ObjsBounded /\ RequestsOK /\ NumbersOK /\ ReadsOK /\ SendsOK /\ Unmade
  BY DEF SocketsInv
<1> DEFINE h == call.h
           fd == call.fd
           o == Object(h)
           len == Len(Answer.data)
           n == Least(call.len, len)
<1>1. /\ Answered /\ return /\ OK /\ call.fn = "recv"
      /\ HandsOut(objOf[fd], SubSeq(Answer.data, 1, n))
      /\ UNCHANGED <<objOf, sent>>
      /\ IF n < len
         THEN KeepsRest(fd, h, len - n) /\ requests' = [requests EXCEPT ![h].at = "rtrn"]
         ELSE UNCHANGED sockets /\ freeRequest
  BY DEF endRecv, Deliver, HandsOut, KeepsRest
<1>2. /\ call.fn \in Fns /\ h \in Handles /\ fd \in Fds
      /\ requests[h].at = "rcvd" /\ requests[h].cmd = call.fn /\ requests[h].fd = fd
      /\ requests[h].rc = "EOK"
      /\ call' = NoCall /\ UNCHANGED <<wire, table, objs, program, failures, severed>>
  BY <1>1, Returns
<1>3. o = objOf[fd] /\ h = call.h /\ fd = call.fd /\ o = Object(h) /\ Answer.data = requests[h].data
      /\ len = Len(requests[h].data)
  BY <1>2 DEF Object, Answer
<1>4. call.len \in Nat /\ n = Least(call.len, len)
  <2>1. call \in Calls /\ call.fn \in AsyncFns
    BY <1>0, <1>1 DEF ValuesOK, AsyncFns, Receives
  <2> QED
    BY <2>1, CallTypes
<1> HIDE DEF h, fd, o, len, n
<1>5. requests[h].cmd = "recv" /\ UNCHANGED objs
  BY <1>1, <1>2
<1>6. o \in DOMAIN objs
  <2>1. requests[h].at # "free" /\ requests[h].cmd \in Sends \cup Receives
    BY <1>2, <1>5 DEF Receives
  <2> QED
    BY <1>0, <1>2, <1>3, <2>1, DataRequest
<1>7. len \in 0 .. MaxBytes
  <2>1. Gathers(h)
    BY <1>2, <1>5 DEF Gathers, Receives
  <2>2. AnswerOK(h)
    BY <1>0, <1>2, <2>1 DEF ReadsOK
  <2>3. requests[h].data \in Seq(Nat) /\ Len(received[o]) + Len(requests[h].data) = objs[o].read
    BY <1>3, <1>5, <2>2 DEF AnswerOK
  <2>4. received[o] \in Seq(Nat) /\ objs[o].read \in 0 .. MaxBytes
    BY <1>0, <1>6, ObjectBound, ObjectTypes
  <2>5. Len(received[o]) \in Nat /\ Len(requests[h].data) \in Nat
    BY <2>3, <2>4
  <2>6. /\ len = Len(requests[h].data) /\ Len(received[o]) + Len(requests[h].data) = objs[o].read
        /\ objs[o].read \in 0 .. MaxBytes /\ MaxBytes \in Nat
    BY <1>3, <2>3, <2>4, SocketBounds
  <2>7. PICK a \in Nat, r \in 0 .. MaxBytes : a + len = r
    BY <2>5, <2>6
  <2>8. len \in Nat /\ MaxBytes \in Nat
    BY <2>5, <2>6
  <2> QED
    BY <2>7, <2>8
<1>8. n \in 0 .. len /\ len - n \in 0 .. MaxBytes
  BY <1>4, <1>7, SocketBounds DEF Least
<1>9. HandsOut(o, SubSeq(requests[h].data, 1, n))
  BY <1>1, <1>3
<1>10. /\ requests'[h].at \in {"free", "rtrn"} /\ \A g \in Handles : g # h => requests'[g] = requests[g]
       /\ requests' \in [Handles -> Buffers'] /\ sockets' \in [Fds -> Entries]
       /\ RequestsOK' /\ ReadsOK' /\ received' \in [0 .. MaxObjs -> Seq(Nat)]
  <2>1. CASE n < len
    <3>1. /\ requests'[h].at = "rtrn" /\ requests'[h].cmd = "recv" /\ requests'[h].fd = fd
          /\ \A g \in Handles : g # h => requests'[g] = requests[g]
          /\ requests' \in [Handles -> Buffers']
      BY <1>0, <1>1, <1>2, <1>5, <2>1, LeftThere
    <3>2. /\ sockets' \in [Fds -> Entries] /\ sockets'[fd].recvHandle = h
          /\ \A k \in Fds : /\ k # fd => sockets'[k] = sockets[k]
                            /\ sockets'[k].flags = sockets[k].flags
                            /\ sockets'[k].sendHandle = sockets[k].sendHandle
      BY <1>0, <1>1, <1>2, <1>8, <2>1, RestKept
    <3>3. RequestsOK'
      BY <1>0, <1>1, <1>2, <1>3, <3>1, <3>2, RestRequests
    <3>4. ReadsOK' /\ received' \in [0 .. MaxObjs -> Seq(Nat)]
      BY <1>0, <1>1, <1>2, <1>3, <1>5, <1>6, <1>8, <1>9, <2>1, <3>1, RecvReads
    <3> QED
      BY <3>1, <3>2, <3>3, <3>4
  <2>2. CASE ~(n < len)
    <3>1. /\ requests'[h].at = "free" /\ requests'[h].cmd = ""
          /\ \A g \in Handles : g # h => requests'[g] = requests[g]
          /\ requests' \in [Handles -> Buffers']
      BY <1>0, <1>1, <1>2, <1>3, <1>5, <2>2, Freed
    <3>2. sockets' = sockets /\ sockets' \in [Fds -> Entries]
      BY <1>0, <1>1, <2>2 DEF ValuesOK
    <3>3. \A k \in Fds : /\ sockets'[k] = sockets[k] /\ Pending(k)' = Pending(k)
                         /\ (Active(k)' <=> Active(k)) /\ (Has(k, "DGRAM")' <=> Has(k, "DGRAM"))
      BY <3>2 DEF Pending, Active, Has
    <3>4. RequestsOK'
      BY <1>0, <1>2, <1>3, <3>1, <3>3, ReturnRequests
    <3>5. ReadsOK' /\ received' \in [0 .. MaxObjs -> Seq(Nat)]
      BY <1>0, <1>1, <1>2, <1>3, <1>5, <1>6, <1>8, <1>9, <2>2, <3>1, RecvReads
    <3> QED
      BY <3>1, <3>2, <3>4, <3>5
  <2> QED
    BY <2>1, <2>2
<1>11. \A k \in Fds : sockets'[k].flags = sockets[k].flags
  BY <1>0, <1>1, <1>2, <1>8, RestKept
<1>12. SendsOK'
  BY <1>0, <1>1, <1>2, <1>10, ReceivedSends
<1>13. NumbersOK'
  <2>1. ~New(h)
    BY <1>5 DEF New
  <2>2. \A k \in Fds : (Active(k)' <=> Active(k)) /\ (Has(k, "DGRAM")' <=> Has(k, "DGRAM"))
    BY <1>11 DEF Active, Has
  <2> QED
    BY <1>0, <1>1, <1>2, <1>3, <1>10, <2>1, <2>2, ReturnNumbers
<1>14. Unmade'
  <2>1. o \in 0 .. MaxObjs
    BY <1>0, <1>6, ObjectBound
  <2>2. \A k \in 0 .. MaxObjs : k # o => received'[k] = received[k]
    BY <1>0, <1>9, <2>1, HandedOut
  <2> QED
    BY <1>0, <1>1, <1>5, <1>6, <2>2, UnmadeAt
<1>15. /\ objOf' \in [Fds -> {0} \cup DOMAIN objs] /\ sent' \in [0 .. MaxObjs -> [begun : Nat, done : Nat]]
  BY <1>0, <1>1 DEF ValuesOK
<1> QED
  BY <1>2, <1>10, <1>12, <1>13, <1>14, <1>15, ReturnInv

-----------------------------------------------------------------------------
(* The buffer of one request changes.                                      *)

Turned(h, b) == requests' = [requests EXCEPT ![h] = b]

(* Only that request changes.                                              *)
LEMMA BufferTurned ==
  ASSUME ValuesOK, DOMAIN objs \subseteq DOMAIN objs', NEW h \in Handles, NEW b \in Buffers', Turned(h, b)
  PROVE  /\ requests'[h] = b /\ requests' \in [Handles -> Buffers']
         /\ \A g \in Handles : g # h => requests'[g] = requests[g]
<1>1. requests \in [Handles -> Buffers]
  BY DEF ValuesOK
<1>2. Buffers \subseteq Buffers'
  BY DEF Buffers
<1> QED
  BY <1>1, <1>2 DEF Turned

(* The request is answered, with what it was asked with.                   *)
Done(h, rc) ==
  /\ requests'[h].at = "done" /\ requests'[h].rc = rc
  /\ requests'[h].cmd = requests[h].cmd /\ requests'[h].fd = requests[h].fd
  /\ requests'[h].data = requests[h].data
  /\ \A g \in Handles : g # h => requests'[g] = requests[g]

(* A response with a return code only.                                     *)
LEMMA Responds ==
  ASSUME ValuesOK, DOMAIN objs \subseteq DOMAIN objs', NEW h \in Handles, NEW rc \in Codes, respond(h, rc)
  PROVE  Done(h, rc) /\ requests' \in [Handles -> Buffers']
<1> DEFINE b == [requests[h] EXCEPT !.at = "done", !.rc = rc]
<1>1. requests \in [Handles -> Buffers] /\ requests[h] \in Buffers
  BY DEF ValuesOK
<1>2. Turned(h, b)
  BY <1>1 DEF respond, Turned
<1>3. b \in Buffers'
  BY <1>1 DEF Buffers
<1>4. /\ b.at = "done" /\ b.rc = rc /\ b.cmd = requests[h].cmd /\ b.fd = requests[h].fd
      /\ b.data = requests[h].data
  BY <1>1 DEF Buffers
<1> HIDE DEF b
<1> QED
  BY <1>2, <1>3, <1>4, BufferTurned DEF Done

-----------------------------------------------------------------------------
(* One object changes.                                                     *)

Turns(m, o) == objs' = [objs EXCEPT ![m] = o]

(* Only that socket of the handler changes.                                *)
LEMMA ObjectTurns ==
  ASSUME ValuesOK, NEW m \in DOMAIN objs, NEW o \in Objects, Turns(m, o)
  PROVE  /\ objs' \in Seq(Objects) /\ DOMAIN objs' = DOMAIN objs /\ objs'[m] = o
         /\ \A k \in DOMAIN objs : k # m => objs'[k] = objs[k]
<1>1. objs \in Seq(Objects)
  BY DEF ValuesOK
<1> QED
  BY <1>1 DEF Turns

(* If no socket of the handler changes, no bytes do.                       *)
LEMMA SameObjects ==
  ASSUME ValuesOK, UNCHANGED objs
  PROVE  SameBytes /\ objs' \in Seq(Objects) /\ DOMAIN objs' = DOMAIN objs
<1>1. \A o \in DOMAIN objs : objs[o].peer \in Nat /\ objs[o].peer <= objs[o].peer
  BY ObjectTypes
<1>2. objs \in Seq(Objects)
  BY DEF ValuesOK
<1> QED
  BY <1>1, <1>2 DEF SameBytes

States == {"new", "bound", "server", "conn", "shut", "closed"}

(* A change of state moves no bytes, if it does not reopen a socket.       *)
LEMMA StateTurns ==
  ASSUME ValuesOK, NEW m \in DOMAIN objs, NEW st \in States, Turns(m, [objs[m] EXCEPT !.st = st]),
         objs[m].kind = "stream" /\ st \in Readable => objs[m].st \in Readable
  PROVE  SameBytes /\ objs' \in Seq(Objects) /\ DOMAIN objs' = DOMAIN objs
<1> DEFINE o == [objs[m] EXCEPT !.st = st]
<1>1. objs[m] \in Objects
  BY ObjectTypes
<1>2. /\ o \in Objects /\ o.kind = objs[m].kind /\ o.read = objs[m].read /\ o.out = objs[m].out
      /\ o.peer = objs[m].peer /\ o.st = st
  BY <1>1 DEF Objects, States
<1> HIDE DEF o
<1>3. /\ objs' \in Seq(Objects) /\ DOMAIN objs' = DOMAIN objs /\ objs'[m] = o
      /\ \A k \in DOMAIN objs : k # m => objs'[k] = objs[k]
  BY <1>2, ObjectTurns DEF o
<1>4. \A k \in DOMAIN objs : objs[k].peer \in Nat /\ objs[k].peer <= objs[k].peer
  BY ObjectTypes
<1>5. \A k \in DOMAIN objs :
        /\ objs'[k].kind = objs[k].kind /\ objs'[k].read = objs[k].read /\ objs'[k].out = objs[k].out
        /\ objs'[k].peer = objs[k].peer
        /\ objs[k].kind = "stream" /\ objs'[k].st \in Readable => objs[k].st \in Readable
  BY <1>2, <1>3
<1> QED
  BY <1>3, <1>4, <1>5 DEF SameBytes

(* The object a worker works for is that of the socket.                    *)
LEMMA WorkersObject ==
  ASSUME ValuesOK, NumbersOK, NEW h \in Handles, requests[h].at = "working",
         NEW m, m = requests[h].obj
  PROVE  /\ m \in DOMAIN objs /\ m = Object(h) /\ m # RESERVED /\ Obj(h) = objs[m] /\ ~Lost
         /\ \A o : becomes(h, o) => Turns(m, o) /\ UNCHANGED table
<1>1. requests[h].fd \in Fds
  BY BufferTypes
<1>2. InUse(requests[h].fd) /\ m = objOf[requests[h].fd]
  BY DEF NumbersOK, WorkersOK
<1>3. m \in DOMAIN objs
  BY <1>1, <1>2, EntryTypes DEF NumbersOK, TableOK
<1>4. m # RESERVED
  <2>1. objs \in Seq(Objects)
    BY DEF ValuesOK
  <2> QED
    BY <1>3, <2>1 DEF RESERVED
<1> QED
  BY <1>2, <1>3, <1>4, NoneLost DEF Object, Obj, becomes, Turns

-----------------------------------------------------------------------------
(* A step of the outside proxy or of the environment that makes no socket. *)
LEMMA ServiceInv ==
  ASSUME SocketsInv, UNCHANGED <<sockets, call, program, history>>,
         failures' \in 0 .. MaxFailures, severed' \subseteq DOMAIN objs,
         wire' \in Seq(Handles), WireOK', MoveOn,
         \A g \in Handles : requests'[g].at = "sent" => requests[g].at = "sent",
         requests' \in [Handles -> Buffers'], objs' \in Seq(Objects), DOMAIN objs' = DOMAIN objs,
         table' \in [Fds -> {NULL, RESERVED} \cup DOMAIN objs],
         NumbersOK', ReadsOK', SendsOK'
  PROVE  SocketsInv'
<1>0. ValuesOK /\ ObjsBounded /\ RequestsOK /\ Unmade
  BY DEF SocketsInv
<1>1. UNCHANGED <<objOf, received, sent>>
  BY DEF history
<1>2. RequestsOK'
  BY <1>0, ProxyRequests
<1>3. Entries' = Entries /\ Calls' = Calls /\ Objects' = Objects
  BY DEF Entries, Calls, Objects
<1>4. ValuesOK'
  BY <1>0, <1>1, <1>3 DEF ValuesOK
<1>5. Len(objs') = Len(objs)
  <2>1. objs \in Seq(Objects)
    BY <1>0 DEF ValuesOK
  <2> QED
    BY <2>1
<1>6. ObjsBounded'
  BY <1>0, <1>5 DEF ObjsBounded, Asking, MoveOn
<1>7. Unmade'
  BY <1>0, <1>1, <1>5 DEF Unmade
<1> QED
  BY <1>2, <1>4, <1>6, <1>7 DEF SocketsInv

(* An answer that hands out neither a socket nor bytes.                    *)
LEMMA AnswerInv ==
  ASSUME SocketsInv, UNCHANGED <<sockets, call, table, given, history>>,
         NEW h \in Handles, NEW rc \in Codes, requests[h].at \in Pends, Done(h, rc),
         rc # "EOK" \/ requests[h].cmd \notin Sends \cup Receives \cup {"socket", "accept"},
         requests[h].cmd = "closesocket" => table[requests[h].fd] = NULL,
         requests' \in [Handles -> Buffers'], wire' \in Seq(Handles), WireOK',
         objs' \in Seq(Objects), DOMAIN objs' = DOMAIN objs, SameBytes
  PROVE  SocketsInv'
<1>0. ValuesOK /\ RequestsOK /\ NumbersOK /\ ReadsOK /\ SendsOK
  BY DEF SocketsInv
<1>1. UNCHANGED <<objOf, received, sent, program, failures, severed>>
  BY DEF history, given
<1>2. /\ requests'[h].at = "done" /\ requests'[h].rc = rc
      /\ requests'[h].cmd = requests[h].cmd /\ requests'[h].fd = requests[h].fd
      /\ requests'[h].data = requests[h].data
      /\ \A g \in Handles : g # h => requests'[g] = requests[g]
  BY DEF Done
<1>3. \A o \in DOMAIN objs : objs'[o].kind = objs[o].kind
  BY DEF SameBytes
<1>4. ~New(h)'
  BY <1>2 DEF New
<1>5. NULL \notin DOMAIN objs
  <2>1. objs \in Seq(Objects)
    BY <1>0 DEF ValuesOK
  <2> QED
    BY <2>1 DEF NULL
<1>6. NumbersOK'
  BY <1>0, <1>1, <1>2, <1>3, <1>4, <1>5, AnsweredNumbers
<1>7. ReadsOK' /\ SendsOK'
  BY <1>0, <1>1, <1>2, PassBytes
<1>8. MoveOn /\ \A g \in Handles : requests'[g].at = "sent" => requests[g].at = "sent"
  BY <1>2 DEF MoveOn, Pends, Live
<1>9. /\ failures' \in 0 .. MaxFailures /\ severed' \subseteq DOMAIN objs
      /\ table' \in [Fds -> {NULL, RESERVED} \cup DOMAIN objs]
  BY <1>0, <1>1 DEF ValuesOK
<1> QED
  BY <1>1, <1>6, <1>7, <1>8, <1>9, ServiceInv

-----------------------------------------------------------------------------
(* SocketProxyHandler.run.                                                 *)

(* The run of a worker leaves the wire in order.                           *)
LEMMA RunWire ==
  ASSUME SocketsInv, UNCHANGED wire, NEW h \in Handles, requests[h].at = "working",
         \A g \in Handles : g # h => requests'[g] = requests[g]
  PROVE  wire' \in Seq(Handles) /\ WireOK'
<1>0. ValuesOK /\ RequestsOK /\ wire \in Seq(Handles)
  BY DEF SocketsInv, ValuesOK
<1>1. \A g \in Handles : requests[g].at = "sent" => requests'[g].at = "sent"
  OBVIOUS
<1> QED
  BY <1>0, <1>1, SameWire

(* Only a return code.                                                     *)
LEMMA RunRc ==
  ASSUME SocketsInv, UNCHANGED wire, clientStays, NEW h \in Handles, requests[h].at = "working",
         NEW rc \in Codes, onlyRc(h, rc), requests[h].cmd # "closesocket",
         rc # "EOK" \/ requests[h].cmd \notin Sends \cup Receives \cup {"socket", "accept"}
  PROVE  SocketsInv'
<1>0. ValuesOK
  BY DEF SocketsInv
<1>1. UNCHANGED <<sockets, call, table, objs, given, history>> /\ respond(h, rc)
  BY DEF clientStays, onlyRc, proxyVars
<1>2. UNCHANGED objs
  BY <1>1
<1>3. SameBytes /\ objs' \in Seq(Objects) /\ DOMAIN objs' = DOMAIN objs
  BY <1>0, <1>2, SameObjects
<1>4. Done(h, rc) /\ requests' \in [Handles -> Buffers']
  BY <1>0, <1>1, <1>3, Responds
<1>5. wire' \in Seq(Handles) /\ WireOK'
  BY <1>4, RunWire DEF Done
<1> QED
  BY <1>1, <1>3, <1>4, <1>5, AnswerInv DEF Pends

(* The state of the socket changes.                                        *)
LEMMA RunState ==
  ASSUME SocketsInv, UNCHANGED wire, clientStays, NEW h \in Handles, requests[h].at = "working",
         requests[h].cmd \in {"connect", "bind", "listen", "shutdown"},
         NEW st \in States, becomes(h, [Obj(h) EXCEPT !.st = st]), respond(h, "EOK"),
         Obj(h).kind = "stream" /\ st \in Readable => Obj(h).st \in Readable
  PROVE  SocketsInv'
<1>0. ValuesOK /\ NumbersOK
  BY DEF SocketsInv
<1> DEFINE m == requests[h].obj
<1>1. /\ m \in DOMAIN objs /\ Obj(h) = objs[m]
      /\ \A o : becomes(h, o) => Turns(m, o) /\ UNCHANGED table
  BY <1>0, WorkersObject
<1> HIDE DEF m
<1>2. Turns(m, [objs[m] EXCEPT !.st = st]) /\ UNCHANGED table
  BY <1>1
<1>3. SameBytes /\ objs' \in Seq(Objects) /\ DOMAIN objs' = DOMAIN objs
  BY <1>0, <1>1, <1>2, StateTurns
<1>4. Done(h, "EOK") /\ requests' \in [Handles -> Buffers']
  BY <1>0, <1>3, Responds DEF Codes
<1>5. wire' \in Seq(Handles) /\ WireOK'
  BY <1>4, RunWire DEF Done
<1>6. UNCHANGED <<sockets, call, table, given, history>>
  BY <1>2 DEF clientStays
<1>7. requests[h].cmd \notin Sends \cup Receives \cup {"socket", "accept"} /\ requests[h].cmd # "closesocket"
  BY DEF Sends, Receives
<1> QED
  BY <1>3, <1>4, <1>5, <1>6, <1>7, AnswerInv DEF Pends, Codes

(* The worker of connect.                                                  *)
LEMMA RunConnectInv ==
  ASSUME SocketsInv, UNCHANGED wire, clientStays, NEW h \in Handles, runConnect(h)
  PROVE  SocketsInv'
<1>1. requests[h].at = "working" /\ requests[h].cmd = "connect"
  BY DEF runConnect, Working
<1>2. CASE onlyRc(h, "ERROR")
  BY <1>1, <1>2, RunRc DEF Codes
<1>3. CASE /\ isDgram(Obj(h)) \/ Obj(h).st \in {"new", "bound"}
           /\ becomes(h, [Obj(h) EXCEPT !.st = "conn"])
           /\ respond(h, "EOK")
  <2>1. Obj(h).kind = "stream" => Obj(h).st \in Readable
    BY <1>3 DEF isDgram, Readable
  <2> QED
    BY <1>1, <1>3, <2>1, RunState DEF States
<1> QED
  BY <1>2, <1>3 DEF runConnect

(* The worker of listen.                                                   *)
LEMMA RunListenInv ==
  ASSUME SocketsInv, UNCHANGED wire, clientStays, NEW h \in Handles, runListen(h)
  PROVE  SocketsInv'
<1>1. requests[h].at = "working" /\ requests[h].cmd = "listen"
  BY DEF runListen, Working
<1>2. CASE onlyRc(h, "ERROR")
  BY <1>1, <1>2, RunRc DEF Codes
<1>3. CASE becomes(h, [Obj(h) EXCEPT !.st = "server"]) /\ respond(h, "EOK")
  BY <1>1, <1>3, RunState DEF States, Readable
<1> QED
  BY <1>2, <1>3 DEF runListen

(* The worker of shutdown.                                                 *)
LEMMA RunShutdownInv ==
  ASSUME SocketsInv, UNCHANGED wire, clientStays, NEW h \in Handles, runShutdown(h)
  PROVE  SocketsInv'
<1>1. requests[h].at = "working" /\ requests[h].cmd = "shutdown"
  BY DEF runShutdown, Working
<1>2. ASSUME NEW rc \in {"ERROR", "EOK"}, onlyRc(h, rc)
      PROVE  SocketsInv'
  BY <1>1, <1>2, RunRc DEF Codes, Sends, Receives
<1>3. CASE becomes(h, [Obj(h) EXCEPT !.st = "shut"]) /\ respond(h, "EOK")
  BY <1>1, <1>3, RunState DEF States, Readable
<1> QED
  BY <1>2, <1>3 DEF runShutdown

(* The worker of getsockname and getpeername.                              *)
LEMMA RunSockInfoInv ==
  ASSUME SocketsInv, UNCHANGED wire, clientStays, NEW h \in Handles, runSockInfo(h)
  PROVE  SocketsInv'
<1>1. requests[h].at = "working" /\ requests[h].cmd = "getSockInfo"
  BY DEF runSockInfo, Working
<1>2. ASSUME NEW rc \in {"ERROR", "EOK"}, onlyRc(h, rc)
      PROVE  SocketsInv'
  BY <1>1, <1>2, RunRc DEF Codes, Sends, Receives
<1> QED
  BY <1>2 DEF runSockInfo

-----------------------------------------------------------------------------
(* Receives.                                                               *)

(* A response with data.                                                   *)
LEMMA RespondsWith ==
  ASSUME ValuesOK, DOMAIN objs \subseteq DOMAIN objs', NEW h \in Handles, NEW data \in Data,
         respondWith(h, data)
  PROVE  /\ requests'[h].at = "done" /\ requests'[h].rc = "EOK" /\ requests'[h].data = data
         /\ requests'[h].cmd = requests[h].cmd /\ requests'[h].fd = requests[h].fd
         /\ \A g \in Handles : g # h => requests'[g] = requests[g]
         /\ requests' \in [Handles -> Buffers']
<1> DEFINE b == [requests[h] EXCEPT !.at = "done", !.rc = "EOK", !.data = data]
<1>1. requests \in [Handles -> Buffers] /\ requests[h] \in Buffers
  BY DEF ValuesOK
<1>2. Turned(h, b)
  BY <1>1 DEF respondWith, Turned
<1>3. b \in Buffers'
  BY <1>1 DEF Buffers, Codes
<1>4. /\ b.at = "done" /\ b.rc = "EOK" /\ b.cmd = requests[h].cmd /\ b.fd = requests[h].fd
      /\ b.data = data
  BY <1>1 DEF Buffers
<1> HIDE DEF b
<1> QED
  BY <1>2, <1>3, <1>4, BufferTurned

(* What is read stays within the bound on bytes.                           *)
LEMMA WithinBytes ==
  ASSUME NEW r \in Nat, NEW n \in Nat, NEW p \in 0 .. MaxBytes, r + n <= p
  PROVE  r + n \in 0 .. MaxBytes
BY SocketBounds

(* Bytes are read for the client.                                          *)
LEMMA RunReads ==
  ASSUME SocketsInv, UNCHANGED wire, clientStays, NEW h \in Handles, requests[h].at = "working",
         requests[h].cmd \in Receives, NEW n \in Nat, 0 < n, Obj(h).read + n <= Obj(h).peer,
         becomes(h, [Obj(h) EXCEPT !.read = @ + n]), NEW data \in Data, respondWith(h, data),
         IF requests[h].cmd = "recv"
         THEN Obj(h).st = "conn" /\ data = [k \in 1 .. n |-> Obj(h).read + k]
         ELSE n = 1 /\ data = <<ADDR, Obj(h).read + 1>>
  PROVE  SocketsInv'
<1>0. ValuesOK /\ RequestsOK /\ NumbersOK /\ ReadsOK /\ SendsOK
  BY DEF SocketsInv
<1> DEFINE m == requests[h].obj
           o == [objs[m] EXCEPT !.read = @ + n]
<1>1. /\ m \in DOMAIN objs /\ m = Object(h) /\ Obj(h) = objs[m]
      /\ \A x : becomes(h, x) => Turns(m, x) /\ UNCHANGED table
  BY <1>0, WorkersObject
<1> HIDE DEF m
<1>2. Turns(m, o) /\ UNCHANGED table
  BY <1>1
<1>3. objs[m] \in Objects /\ objs[m].read \in Nat /\ objs[m].peer \in 0 .. MaxBytes
      /\ objs[m].read + n <= objs[m].peer
  BY <1>0, <1>1, ObjectTypes
<1>4. objs[m].read + n \in 0 .. MaxBytes
  BY <1>3, WithinBytes
<1>5. /\ o \in Objects /\ o.kind = objs[m].kind /\ o.st = objs[m].st /\ o.peer = objs[m].peer
      /\ o.out = objs[m].out /\ o.read = objs[m].read + n
  BY <1>3, <1>4 DEF Objects
<1> HIDE DEF o
<1>6. /\ objs' \in Seq(Objects) /\ DOMAIN objs' = DOMAIN objs /\ objs'[m] = o
      /\ \A k \in DOMAIN objs : k # m => objs'[k] = objs[k]
  BY <1>0, <1>1, <1>2, <1>5, ObjectTurns
<1>7. /\ requests'[h].at = "done" /\ requests'[h].rc = "EOK" /\ requests'[h].data = data
      /\ requests'[h].cmd = requests[h].cmd /\ requests'[h].fd = requests[h].fd
      /\ \A g \in Handles : g # h => requests'[g] = requests[g]
      /\ requests' \in [Handles -> Buffers']
  BY <1>0, <1>6, RespondsWith
<1>8. UNCHANGED <<sockets, call, table, program, failures, severed, objOf, received, sent>>
  BY <1>2 DEF clientStays, given, history
<1>9. ReadsOK'
  <2>1. /\ objs'[m].kind = objs[m].kind /\ objs'[m].st = objs[m].st /\ objs'[m].peer = objs[m].peer
        /\ objs'[m].read = objs[m].read + n /\ objs[m].read + n <= objs[m].peer
    BY <1>3, <1>5, <1>6
  <2>2. IF requests[h].cmd = "recv"
        THEN objs[m].st = "conn" /\ requests'[h].data = [k \in 1 .. n |-> objs[m].read + k]
        ELSE n = 1 /\ requests'[h].data = <<ADDR, objs[m].read + 1>>
    BY <1>1, <1>7
  <2> QED
    BY <1>0, <1>1, <1>6, <1>7, <1>8, <2>1, <2>2, ReadBytes
<1>10. SendsOK'
  <2>1. \A k \in DOMAIN objs : objs'[k].out = objs[k].out
    BY <1>5, <1>6
  <2>2. ASSUME NEW g \in Handles, requests'[g].cmd \in Sends, requests'[g].at \in Live
        PROVE  requests'[g] = requests[g] /\ Object(g)' = Object(g) /\ Object(g) \in DOMAIN objs
    <3>1. g # h
      BY <1>7, <2>2 DEF Sends, Receives
    <3>2. requests'[g] = requests[g] /\ Object(g)' = Object(g)
      BY <1>7, <1>8, <3>1 DEF Object
    <3> QED
      BY <1>0, <2>2, <3>2, LiveNotFree, DataRequest
  <2> QED
    BY <1>0, <1>6, <1>8, <2>1, <2>2, SendsFrame
<1>11. NumbersOK'
  <2>1. \A k \in DOMAIN objs : objs'[k].kind = objs[k].kind
    BY <1>5, <1>6
  <2>2. ~New(h)' /\ requests[h].cmd # "closesocket"
    BY <1>7 DEF New, Receives
  <2> QED
    BY <1>0, <1>6, <1>7, <1>8, <2>1, <2>2, AnsweredNumbers DEF Pends
<1>12. MoveOn /\ \A g \in Handles : requests'[g].at = "sent" => requests[g].at = "sent"
  BY <1>7 DEF MoveOn, Live
<1>13. wire' \in Seq(Handles) /\ WireOK'
  BY <1>7, RunWire
<1>14. /\ failures' \in 0 .. MaxFailures /\ severed' \subseteq DOMAIN objs
       /\ table' \in [Fds -> {NULL, RESERVED} \cup DOMAIN objs]
  BY <1>0, <1>8 DEF ValuesOK
<1>15. UNCHANGED <<sockets, call, program, history>>
  BY <1>8 DEF history
<1> QED
  BY <1>6, <1>7, <1>9, <1>10, <1>11, <1>12, <1>13, <1>14, <1>15, ServiceInv

(* The bytes of a socket from the first one not read, as data.             *)
LEMMA Counted ==
  ASSUME NEW r \in Nat, NEW n \in Nat
  PROVE  [k \in 1 .. n |-> r + k] \in Data /\ <<ADDR, r + 1>> \in Data
<1>1. [k \in 1 .. n |-> r + k] \in Seq(Nat)
  OBVIOUS
<1>2. <<ADDR, r + 1>> \in Seq(Nat)
  BY DEF ADDR
<1> QED
  BY <1>1, <1>2 DEF Data

(* The worker of recv.                                                     *)
LEMMA RunRecvInv ==
  ASSUME SocketsInv, UNCHANGED wire, clientStays, NEW h \in Handles, runRecv(h)
  PROVE  SocketsInv'
<1>0. ValuesOK /\ RequestsOK /\ NumbersOK
  BY DEF SocketsInv
<1>1. requests[h].at = "working" /\ requests[h].cmd = "recv"
  BY DEF runRecv, Working
<1>2. CASE onlyRc(h, "ERROR")
  BY <1>1, <1>2, RunRc DEF Codes
<1>3. ASSUME Open(Obj(h)),
             NEW n \in 1 .. IF isDgram(Obj(h)) THEN 1 ELSE requests[h].len,
             Obj(h).read + n <= Obj(h).peer,
             becomes(h, [Obj(h) EXCEPT !.read = @ + n]),
             respondWith(h, [k \in 1 .. n |-> Obj(h).read + k])
      PROVE  SocketsInv'
  <2>1. n \in Nat /\ 0 < n
    <3>1. requests[h].len \in Nat
      BY <1>0, BufferTypes
    <3>2. (IF isDgram(Obj(h)) THEN 1 ELSE requests[h].len) \in Nat
      BY <3>1
    <3>3. \A max \in Nat : \A x \in 1 .. max : x \in Nat /\ 0 < x
      OBVIOUS
    <3> QED
      BY <1>3, <3>2, <3>3
  <2>2. requests[h].obj \in DOMAIN objs /\ requests[h].obj = Object(h) /\ Obj(h) = objs[requests[h].obj]
    BY <1>0, <1>1, WorkersObject
  <2>3. objs[requests[h].obj].kind # "dgram" /\ objs[requests[h].obj].read \in Nat
    BY <1>0, <1>1, <2>2, DataRequest, ObjectTypes DEF Receives
  <2>4. Obj(h).st = "conn" /\ Obj(h).read \in Nat
    BY <1>3, <2>2, <2>3 DEF Open, isDgram
  <2>5. [k \in 1 .. n |-> Obj(h).read + k] \in Data
    BY <2>1, <2>4, Counted
  <2> QED
    BY <1>1, <1>3, <2>1, <2>4, <2>5, RunReads DEF Receives
<1> QED
  BY <1>2, <1>3 DEF runRecv

(* The worker of recvfrom.                                                 *)
LEMMA RunRecvfromInv ==
  ASSUME SocketsInv, UNCHANGED wire, clientStays, NEW h \in Handles, runRecvfrom(h)
  PROVE  SocketsInv'
<1>0. ValuesOK /\ RequestsOK /\ NumbersOK
  BY DEF SocketsInv
<1>1. requests[h].at = "working" /\ requests[h].cmd = "recvfrom"
  BY DEF runRecvfrom, Working
<1>2. CASE onlyRc(h, "ERROR")
  BY <1>1, <1>2, RunRc DEF Codes
<1>3. CASE /\ Obj(h).read < Obj(h).peer
           /\ becomes(h, [Obj(h) EXCEPT !.read = @ + 1])
           /\ respondWith(h, <<ADDR, Obj(h).read + 1>>)
  <2>1. requests[h].obj \in DOMAIN objs /\ Obj(h) = objs[requests[h].obj]
    BY <1>0, <1>1, WorkersObject
  <2>2. Obj(h).read \in Nat /\ Obj(h).peer \in Nat
    BY <1>0, <2>1, ObjectTypes
  <2>3. Obj(h).read + 1 <= Obj(h).peer /\ 1 \in Nat /\ 0 < 1
    BY <1>3, <2>2
  <2>4. <<ADDR, Obj(h).read + 1>> \in Data
    BY <2>2, Counted
  <2> QED
    BY <1>1, <1>3, <2>3, <2>4, RunReads DEF Receives
<1> QED
  BY <1>2, <1>3 DEF runRecvfrom

-----------------------------------------------------------------------------
(* Sends.                                                                  *)

(* A worker that has sent the bytes of its request.                        *)
LEMMA RunSendsInv ==
  ASSUME SocketsInv, UNCHANGED wire, clientStays, NEW h \in Handles, requests[h].at = "working",
         requests[h].cmd \in Sends, respond(h, "EOK"),
         becomes(h, [Obj(h) EXCEPT !.out = @ \o requests[h].data])
  PROVE  SocketsInv'
<1>0. ValuesOK /\ ObjsBounded /\ RequestsOK /\ NumbersOK /\ ReadsOK /\ SendsOK
  BY DEF SocketsInv
<1> DEFINE m == requests[h].obj
           data == requests[h].data
           out == objs[m].out \o data
           o == [objs[m] EXCEPT !.out = out]
<1>1. /\ m \in DOMAIN objs /\ m = Object(h) /\ Obj(h) = objs[m]
      /\ \A x : becomes(h, x) => Turns(m, x) /\ UNCHANGED table
  BY <1>0, WorkersObject
<1>2. Turns(m, o) /\ UNCHANGED table /\ data = requests[h].data
  BY <1>1
<1> HIDE DEF m
<1>3. data = <<sent[m].begun>> /\ sent[m].begun \in Nat
  <2>1. SendOK(h)
    BY <1>0 DEF SendsOK
  <2>2. sent[m] \in [begun : Nat, done : Nat]
    BY <1>0, <1>1, ObjectBound
  <2> QED
    BY <1>1, <2>1, <2>2 DEF SendOK
<1> HIDE DEF data
<1>4. objs[m] \in Objects /\ objs[m].out \in Seq(Nat)
  BY <1>0, <1>1, ObjectTypes
<1>5. out \in Seq(Nat)
  <2>1. data \in Seq(Nat)
    BY <1>3
  <2> QED
    BY <1>4, <2>1, ConcatSeq
<1>6. out = objs[m].out \o data
  OBVIOUS
<1> HIDE DEF out
<1>7. /\ o \in Objects /\ o.kind = objs[m].kind /\ o.st = objs[m].st /\ o.peer = objs[m].peer
      /\ o.read = objs[m].read /\ o.out = out
  BY <1>4, <1>5 DEF Objects
<1> HIDE DEF o
<1>8. /\ objs' \in Seq(Objects) /\ DOMAIN objs' = DOMAIN objs /\ objs'[m] = o
      /\ \A k \in DOMAIN objs : k # m => objs'[k] = objs[k]
  BY <1>0, <1>1, <1>2, <1>7, ObjectTurns
<1>9. Done(h, "EOK") /\ requests' \in [Handles -> Buffers']
  BY <1>0, <1>8, Responds DEF Codes
<1>10. /\ requests'[h].at = "done" /\ requests'[h].rc = "EOK"
       /\ requests'[h].cmd = requests[h].cmd /\ requests'[h].fd = requests[h].fd
       /\ \A g \in Handles : g # h => requests'[g] = requests[g]
  BY <1>9 DEF Done
<1>11. UNCHANGED <<sockets, call, table, program, failures, severed, objOf, received, sent>>
  BY <1>2 DEF clientStays, given, history
<1>12. SendsOK'
  <2>1. PutsOut(m, requests[h].data)
    BY <1>2, <1>6, <1>7, <1>8 DEF PutsOut
  <2> QED
    BY <1>0, <1>1, <1>8, <1>10, <1>11, <2>1, SentBytes
<1>13. ReadsOK'
  <2>1. \A k \in DOMAIN objs :
          /\ objs'[k].kind = objs[k].kind /\ objs'[k].read = objs[k].read
          /\ objs'[k].st = objs[k].st /\ objs'[k].peer = objs[k].peer
    BY <1>7, <1>8
  <2>2. \A k \in DOMAIN objs : objs[k].peer \in Nat /\ objs[k].peer <= objs[k].peer
    BY <1>0, ObjectTypes
  <2>3. ASSUME NEW g \in Handles, Gathers(g)'
        PROVE  Gathers(g) /\ requests'[g] = requests[g] /\ Object(g)' = Object(g) /\ Object(g) \in DOMAIN objs
    <3>1. g # h
      BY <1>10, <2>3 DEF Gathers, Sends, Receives
    <3>2. requests'[g] = requests[g] /\ Object(g)' = Object(g) /\ Gathers(g)
      BY <1>10, <1>11, <2>3, <3>1 DEF Object, Gathers
    <3> QED
      BY <1>0, <3>2, GatherTypes, DataRequest
  <2>4. ASSUME NEW g \in Handles, Rest(g)
        PROVE  Rest(g)' /\ Object(g)' = Object(g)
    <3>1. requests'[g] = requests[g]
      BY <1>10, <2>4 DEF Rest, Sends
    <3> QED
      BY <1>11, <2>4, <3>1 DEF Rest, Gathers, Object
  <2> QED
    BY <1>0, <1>8, <1>11, <2>1, <2>2, <2>3, <2>4, ReadsFrame
<1>14. NumbersOK'
  <2>1. \A k \in DOMAIN objs : objs'[k].kind = objs[k].kind
    BY <1>7, <1>8
  <2>2. ~New(h)' /\ requests[h].cmd # "closesocket"
    BY <1>10 DEF New, Sends
  <2> QED
    BY <1>0, <1>8, <1>10, <1>11, <2>1, <2>2, AnsweredNumbers DEF Pends
<1>15. MoveOn /\ \A g \in Handles : requests'[g].at = "sent" => requests[g].at = "sent"
  BY <1>10 DEF MoveOn, Live
<1>16. wire' \in Seq(Handles) /\ WireOK'
  BY <1>10, RunWire
<1>17. /\ failures' \in 0 .. MaxFailures /\ severed' \subseteq DOMAIN objs
       /\ table' \in [Fds -> {NULL, RESERVED} \cup DOMAIN objs]
  BY <1>0, <1>11 DEF ValuesOK
<1>18. UNCHANGED <<sockets, call, program, history>>
  BY <1>11 DEF history
<1> QED
  BY <1>8, <1>9, <1>12, <1>13, <1>14, <1>15, <1>16, <1>17, <1>18, ServiceInv

(* The worker of send and sendto.                                          *)
LEMMA RunSendInv ==
  ASSUME SocketsInv, UNCHANGED wire, clientStays, NEW h \in Handles, runSend(h)
  PROVE  SocketsInv'
<1>1. requests[h].at = "working" /\ requests[h].cmd \in Sends
  BY DEF runSend, Working, Sends
<1>2. CASE onlyRc(h, "ERROR")
  BY <1>1, <1>2, RunRc DEF Codes, Sends
<1>3. CASE becomes(h, [Obj(h) EXCEPT !.out = @ \o requests[h].data]) /\ respond(h, "EOK")
  BY <1>1, <1>3, RunSendsInv
<1> QED
  BY <1>2, <1>3 DEF runSend

-----------------------------------------------------------------------------
(* A datagram socket is replaced: its receives end with an error.          *)
Replaced(h, o) ==
  requests' = [g \in Handles |->
    IF g = h THEN [requests[g] EXCEPT !.at = "done", !.rc = "EOK"]
    ELSE IF g \in Receiving(o) THEN [requests[g] EXCEPT !.at = "done", !.rc = "ERROR"]
    ELSE requests[g]]

(* The bind and the receives of the replaced socket are answered.          *)
LEMMA ReplacedBuffers ==
  ASSUME ValuesOK, DOMAIN objs' = DOMAIN objs, NEW h \in Handles, NEW m, Replaced(h, m),
         requests[h].at = "working", requests[h].cmd = "bind"
  PROVE  /\ requests' \in [Handles -> Buffers']
         /\ \A g \in Handles :
              \/ requests'[g] = requests[g]
              \/ /\ requests[g].at = "working" /\ requests'[g].at = "done"
                 /\ requests'[g].cmd = requests[g].cmd /\ requests'[g].fd = requests[g].fd
                 /\ requests[g].cmd = "bind" \/ (requests[g].cmd \in Receives /\ requests'[g].rc = "ERROR")
<1>1. requests \in [Handles -> Buffers] /\ Buffers' = Buffers
  BY DEF ValuesOK, Buffers
<1>2. \A g \in Handles, rc \in {"EOK", "ERROR"} : [requests[g] EXCEPT !.at = "done", !.rc = rc] \in Buffers
  BY <1>1 DEF Buffers, Codes
<1>3. requests' \in [Handles -> Buffers']
  BY <1>1, <1>2, ZenonT(30) DEF Replaced
<1>4. ASSUME NEW g \in Handles
      PROVE  \/ requests'[g] = requests[g]
             \/ /\ requests[g].at = "working" /\ requests'[g].at = "done"
                /\ requests'[g].cmd = requests[g].cmd /\ requests'[g].fd = requests[g].fd
                /\ requests[g].cmd = "bind" \/ (requests[g].cmd \in Receives /\ requests'[g].rc = "ERROR")
  <2>1. \A rc \in {"EOK", "ERROR"} :
          LET b == [requests[g] EXCEPT !.at = "done", !.rc = rc]
          IN b.at = "done" /\ b.rc = rc /\ b.cmd = requests[g].cmd /\ b.fd = requests[g].fd
    BY <1>1 DEF Buffers
  <2>2. CASE g = h
    <3>1. requests'[g] = [requests[g] EXCEPT !.at = "done", !.rc = "EOK"]
      BY <2>2 DEF Replaced
    <3> QED
      BY <2>1, <2>2, <3>1
  <2>3. CASE g # h /\ g \in Receiving(m)
    <3>1. requests'[g] = [requests[g] EXCEPT !.at = "done", !.rc = "ERROR"]
      BY <2>3 DEF Replaced
    <3>2. requests[g].at = "working" /\ requests[g].cmd \in Receives
      BY <2>3 DEF Receiving
    <3> QED
      BY <2>1, <3>1, <3>2
  <2>4. CASE g # h /\ g \notin Receiving(m)
    BY <2>4 DEF Replaced
  <2> QED
    BY <2>2, <2>3, <2>4
<1> QED
  BY <1>3, <1>4

(* The bind of a datagram socket.                                          *)
LEMMA ReplacedInv ==
  ASSUME SocketsInv, UNCHANGED wire, clientStays, NEW h \in Handles,
         requests[h].at = "working", requests[h].cmd = "bind", isDgram(Obj(h)),
         becomes(h, [Obj(h) EXCEPT !.read = Obj(h).peer]), Replaced(h, requests[h].obj)
  PROVE  SocketsInv'
<1>0. ValuesOK /\ RequestsOK /\ NumbersOK /\ ReadsOK /\ SendsOK
  BY DEF SocketsInv
<1> DEFINE m == requests[h].obj
           o == [objs[m] EXCEPT !.read = objs[m].peer]
<1>1. /\ m \in DOMAIN objs /\ m = Object(h) /\ Obj(h) = objs[m]
      /\ \A x : becomes(h, x) => Turns(m, x) /\ UNCHANGED table
  BY <1>0, WorkersObject
<1>2. Turns(m, o) /\ UNCHANGED table /\ objs[m].kind = "dgram" /\ Replaced(h, m)
  BY <1>1 DEF isDgram
<1> HIDE DEF m
<1>3. objs[m] \in Objects /\ objs[m].peer \in 0 .. MaxBytes
  BY <1>0, <1>1, ObjectTypes
<1>4. /\ o \in Objects /\ o.kind = objs[m].kind /\ o.peer = objs[m].peer /\ o.read = objs[m].peer
      /\ o.out = objs[m].out
  BY <1>3 DEF Objects
<1> HIDE DEF o
<1>5. /\ objs' \in Seq(Objects) /\ DOMAIN objs' = DOMAIN objs /\ objs'[m] = o
      /\ \A k \in DOMAIN objs : k # m => objs'[k] = objs[k]
  BY <1>0, <1>1, <1>2, <1>4, ObjectTurns
<1>6. /\ requests' \in [Handles -> Buffers']
      /\ \A g \in Handles :
           \/ requests'[g] = requests[g]
           \/ /\ requests[g].at = "working" /\ requests'[g].at = "done"
              /\ requests'[g].cmd = requests[g].cmd /\ requests'[g].fd = requests[g].fd
              /\ requests[g].cmd = "bind" \/ (requests[g].cmd \in Receives /\ requests'[g].rc = "ERROR")
  BY <1>0, <1>2, <1>5, ReplacedBuffers
<1>7. UNCHANGED <<sockets, call, table, program, failures, severed, objOf, received, sent>>
  BY <1>2 DEF clientStays, given, history
<1>8. ReadsOK'
  <2>1. \A g \in Handles : requests'[g] = requests[g] \/ (~Gathers(g)' /\ requests[g].at = "working")
    BY <1>6 DEF Gathers, Receives
  <2> QED
    BY <1>0, <1>1, <1>2, <1>4, <1>5, <1>7, <2>1, BindReads
<1>9. SendsOK'
  <2>1. \A k \in DOMAIN objs : objs'[k].out = objs[k].out
    BY <1>4, <1>5
  <2>2. ASSUME NEW g \in Handles, requests'[g].cmd \in Sends, requests'[g].at \in Live
        PROVE  requests'[g] = requests[g] /\ Object(g)' = Object(g) /\ Object(g) \in DOMAIN objs
    <3>1. requests'[g] = requests[g]
      BY <1>6, <2>2 DEF Sends, Receives
    <3>2. Object(g)' = Object(g)
      BY <1>7, <3>1 DEF Object
    <3> QED
      BY <1>0, <2>2, <3>1, <3>2, LiveNotFree, DataRequest
  <2> QED
    BY <1>0, <1>5, <1>7, <2>1, <2>2, SendsFrame
<1>10. NumbersOK'
  <2>1. \A k \in DOMAIN objs : objs'[k].kind = objs[k].kind
    BY <1>4, <1>5
  <2>2. \A g \in Handles :
          \/ requests'[g] = requests[g]
          \/ /\ requests[g].at \in Pends /\ requests'[g].at \in {"done", "rcvd"} /\ ~New(g)'
             /\ requests'[g].cmd = requests[g].cmd /\ requests'[g].fd = requests[g].fd
             /\ requests[g].cmd # "closesocket"
    BY <1>6 DEF New, Pends, Receives
  <2> QED
    BY <1>0, <1>5, <1>7, <2>1, <2>2, AnsweredNumbers
<1>11. MoveOn /\ \A g \in Handles : requests'[g].at = "sent" => requests[g].at = "sent"
  BY <1>6 DEF MoveOn, Live
<1>12. wire' \in Seq(Handles) /\ WireOK'
  <2>1. \A g \in Handles : requests[g].at = "sent" => requests'[g].at = "sent"
    BY <1>6
  <2>2. wire \in Seq(Handles)
    BY <1>0 DEF ValuesOK
  <2> QED
    BY <1>0, <2>1, <2>2, SameWire
<1>13. /\ failures' \in 0 .. MaxFailures /\ severed' \subseteq DOMAIN objs
       /\ table' \in [Fds -> {NULL, RESERVED} \cup DOMAIN objs]
  BY <1>0, <1>7 DEF ValuesOK
<1>14. UNCHANGED <<sockets, call, program, history>>
  BY <1>7 DEF history
<1> QED
  BY <1>5, <1>6, <1>8, <1>9, <1>10, <1>11, <1>12, <1>13, <1>14, ServiceInv

(* The worker of bind.                                                     *)
LEMMA RunBindInv ==
  ASSUME SocketsInv, UNCHANGED wire, clientStays, NEW h \in Handles, runBind(h)
  PROVE  SocketsInv'
<1>1. requests[h].at = "working" /\ requests[h].cmd = "bind"
  BY DEF runBind, Working
<1>2. ASSUME NEW rc \in {"ERROR", "EOK"}, onlyRc(h, rc)
      PROVE  SocketsInv'
  BY <1>1, <1>2, RunRc DEF Codes, Sends, Receives
<1>3. CASE /\ isDgram(Obj(h))
           /\ becomes(h, [Obj(h) EXCEPT !.read = Obj(h).peer])
           /\ Replaced(h, requests[h].obj)
  BY <1>1, <1>3, ReplacedInv
<1>4. CASE /\ Obj(h).st \in {"new", "bound"}
           /\ becomes(h, [Obj(h) EXCEPT !.st = "bound"])
           /\ respond(h, "EOK")
  BY <1>1, <1>4, RunState DEF States, Readable
<1> QED
  BY <1>2, <1>3, <1>4 DEF runBind, Replaced

-----------------------------------------------------------------------------
(* A number becomes free: that of a closed socket, or one that was         *)
(* reserved for a connection that does not come.                           *)
LEMMA DropInv ==
  ASSUME SocketsInv, UNCHANGED wire, clientStays, NEW h \in Handles,
         requests[h].at = "working", requests[h].cmd \in {"accept", "closesocket"},
         NEW n \in Fds, n = IF requests[h].cmd = "accept" THEN requests[h].newFd ELSE requests[h].fd,
         table' = [table EXCEPT ![n] = NULL],
         NEW rc \in Codes, rc # "EOK" \/ requests[h].cmd = "closesocket", Done(h, rc),
         requests' \in [Handles -> Buffers'],
         SameBytes, objs' \in Seq(Objects), DOMAIN objs' = DOMAIN objs
  PROVE  SocketsInv'
<1>0. ValuesOK /\ RequestsOK /\ NumbersOK /\ ReadsOK /\ SendsOK
  BY DEF SocketsInv
<1>1. UNCHANGED <<sockets, call, program, failures, severed, objOf, received, sent>>
  BY DEF clientStays, given, history
<1>2. /\ requests'[h].at = "done" /\ requests'[h].rc = rc
      /\ requests'[h].cmd = requests[h].cmd /\ requests'[h].fd = requests[h].fd
      /\ \A g \in Handles : g # h => requests'[g] = requests[g]
  BY DEF Done
<1>3. ~New(h)' /\ \A k \in DOMAIN objs : objs'[k].kind = objs[k].kind
  BY <1>2 DEF New, SameBytes
<1>4. NumbersOK'
  BY <1>0, <1>1, <1>2, <1>3, DroppedNumbers
<1>5. ReadsOK' /\ SendsOK'
  <2>1. requests[h].cmd \notin Sends \cup Receives /\ requests[h].at \in Pends
    BY DEF Sends, Receives, Pends
  <2> QED
    BY <1>0, <1>1, <1>2, <2>1, PassBytes
<1>6. MoveOn /\ \A g \in Handles : requests'[g].at = "sent" => requests[g].at = "sent"
  BY <1>2 DEF MoveOn, Live
<1>7. wire' \in Seq(Handles) /\ WireOK'
  BY <1>2, RunWire
<1>8. /\ failures' \in 0 .. MaxFailures /\ severed' \subseteq DOMAIN objs
      /\ table' \in [Fds -> {NULL, RESERVED} \cup DOMAIN objs]
  BY <1>0, <1>1 DEF ValuesOK
<1>9. UNCHANGED <<sockets, call, program, history>>
  BY <1>1 DEF history
<1> QED
  BY <1>4, <1>5, <1>6, <1>7, <1>8, <1>9, ServiceInv

(* The worker of close.                                                    *)
LEMMA RunCloseInv ==
  ASSUME SocketsInv, UNCHANGED wire, clientStays, NEW h \in Handles, runClose(h)
  PROVE  SocketsInv'
<1>0. ValuesOK /\ NumbersOK
  BY DEF SocketsInv
<1>1. requests[h].at = "working" /\ requests[h].cmd = "closesocket"
  BY DEF runClose, Working
<1> DEFINE m == requests[h].obj
           n == requests[h].fd
<1>2. m \in DOMAIN objs /\ m # RESERVED
  BY <1>0, <1>1, WorkersObject
<1>3. objs[m] \in Objects /\ objs \in Seq(Objects)
  BY <1>0, <1>2, ObjectTypes DEF ValuesOK
<1>4. /\ table' = [table EXCEPT ![n] = NULL] /\ respond(h, "EOK")
      /\ Turns(m, [objs[m] EXCEPT !.st = "closed"])
  BY <1>2, <1>3 DEF runClose, Turns
<1>5. n \in Fds
  BY <1>0, BufferTypes
<1> HIDE DEF m
<1>6. SameBytes /\ objs' \in Seq(Objects) /\ DOMAIN objs' = DOMAIN objs
  BY <1>0, <1>2, <1>4, StateTurns DEF States, Readable
<1>7. Done(h, "EOK") /\ requests' \in [Handles -> Buffers']
  BY <1>0, <1>4, <1>6, Responds DEF Codes
<1> QED
  BY <1>1, <1>4, <1>5, <1>6, <1>7, DropInv DEF Codes

-----------------------------------------------------------------------------
(* A socket is made, by CMD_ALLOCSOCKET or by CMD_ACCEPT.                  *)

(* A response with a new number.                                           *)
LEMMA RespondsNew ==
  ASSUME ValuesOK, DOMAIN objs \subseteq DOMAIN objs', NEW h \in Handles,
         NEW n \in Fds, NEW o \in DOMAIN objs', respondNew(h, n, o)
  PROVE  /\ requests'[h].at = "done" /\ requests'[h].rc = "EOK"
         /\ requests'[h].newFd = n /\ requests'[h].obj = o
         /\ requests'[h].cmd = requests[h].cmd /\ requests'[h].fd = requests[h].fd
         /\ requests'[h].data = requests[h].data
         /\ \A g \in Handles : g # h => requests'[g] = requests[g]
         /\ requests' \in [Handles -> Buffers']
<1> DEFINE b == [requests[h] EXCEPT !.at = "done", !.rc = "EOK", !.newFd = n, !.obj = o]
<1>1. requests \in [Handles -> Buffers] /\ requests[h] \in Buffers
  BY DEF ValuesOK
<1>2. Turned(h, b)
  BY <1>1 DEF respondNew, Turned
<1>3. b \in Buffers'
  BY <1>1 DEF Buffers, Codes
<1>4. /\ b.at = "done" /\ b.rc = "EOK" /\ b.cmd = requests[h].cmd /\ b.fd = requests[h].fd
      /\ b.data = requests[h].data /\ b.newFd = n /\ b.obj = o
  BY <1>1 DEF Buffers
<1> HIDE DEF b
<1> QED
  BY <1>2, <1>3, <1>4, BufferTurned

(* The new object is the next one.                                         *)
Adds(kind, st) == objs' = Append(objs, newObj(kind, st))

(* A socket is added behind those that exist.                              *)
LEMMA ObjectAdded ==
  ASSUME ValuesOK, Unmade, Len(objs) < program.objs,
         NEW kind \in {"stream", "dgram"}, NEW st \in States, Adds(kind, st), NEW o, o = Len(objs) + 1
  PROVE  /\ objs' \in Seq(Objects) /\ Len(objs') = o /\ DOMAIN objs' = DOMAIN objs \cup {o}
         /\ o \notin DOMAIN objs /\ o \in 0 .. MaxObjs /\ o \in Nat
         /\ \A m \in DOMAIN objs : objs'[m] = objs[m]
         /\ objs'[o].kind = kind
         /\ UNCHANGED <<received, sent>> => SameBytes /\ Unmade'
<1> DEFINE new == newObj(kind, st)
<1>1. /\ new \in Objects /\ new.kind = kind /\ new.read = 0 /\ new.peer = 0 /\ new.out = <<>>
  BY SocketBounds DEF newObj, Objects, States
<1>2. objs \in Seq(Objects) /\ objs' = Append(objs, new) /\ Len(objs) \in Nat
  BY DEF ValuesOK, Adds
<1> HIDE DEF new
<1>3. /\ objs' \in Seq(Objects) /\ Len(objs') = o /\ DOMAIN objs' = DOMAIN objs \cup {o}
      /\ o \notin DOMAIN objs /\ o \in Nat
      /\ \A m \in DOMAIN objs : objs'[m] = objs[m]
      /\ objs'[o] = new
  BY <1>1, <1>2
<1>4. program.objs \in 1 .. MaxObjs
  BY SocketBounds DEF ValuesOK
<1>5. o \in 0 .. MaxObjs /\ o \in Len(objs) + 1 .. MaxObjs
  BY <1>2, <1>4, SocketBounds
<1>6. ASSUME UNCHANGED <<received, sent>>
      PROVE  SameBytes /\ Unmade'
  <2>1. received[o] = <<>> /\ sent[o].done = 0
    BY <1>5 DEF Unmade
  <2>2. \A m \in DOMAIN objs : objs[m].peer \in Nat /\ objs[m].peer <= objs[m].peer
    BY ObjectTypes
  <2>3. SameBytes
    BY <1>1, <1>3, <2>1, <2>2 DEF SameBytes
  <2>4. \A m \in Len(objs') + 1 .. MaxObjs : m \in Len(objs) + 1 .. MaxObjs
    BY <1>2, <1>3, SocketBounds
  <2> QED
    BY <1>6, <2>3, <2>4 DEF Unmade
<1> QED
  BY <1>1, <1>3, <1>5, <1>6

Makes(h, n, kind, st) ==
  /\ table[n] = IF requests[h].cmd = "socket" THEN NULL ELSE RESERVED
  /\ requests[h].cmd = "accept" => n = requests[h].newFd
  /\ Adds(kind, st)
  /\ IF requests[h].cmd = "socket" THEN requests[h].data = <<kind>> ELSE kind = "stream"
  /\ table' = [table EXCEPT ![n] = Len(objs) + 1]
  /\ respondNew(h, n, Len(objs) + 1)
  /\ Len(objs) < program.objs
  /\ \A g \in Handles : g # h /\ requests[g].at = "sent" /\ requests[g].cmd = "socket"
                          => Len(objs) + 1 < program.objs

(* A new socket, with a number that was free or reserved for it.           *)
LEMMA MadeInv ==
  ASSUME SocketsInv, clientStays, NEW h \in Handles, requests[h].at \in Pends,
         requests[h].cmd = "socket" \/ (requests[h].at = "working" /\ requests[h].cmd = "accept"),
         NEW n \in Fds, NEW kind \in {"stream", "dgram"}, NEW st \in States, Makes(h, n, kind, st),
         wire' \in Seq(Handles), WireOK'
  PROVE  SocketsInv'
<1>0. ValuesOK /\ RequestsOK /\ NumbersOK /\ ReadsOK /\ SendsOK /\ Unmade
  BY DEF SocketsInv
<1>1. UNCHANGED <<sockets, call, program, failures, severed, objOf, received, sent>>
  BY DEF clientStays, given, history
<1> DEFINE o == Len(objs) + 1
<1>2. /\ objs' \in Seq(Objects) /\ Len(objs') = o /\ DOMAIN objs' = DOMAIN objs \cup {o}
      /\ o \notin DOMAIN objs /\ o \in 0 .. MaxObjs /\ o \in Nat
      /\ \A m \in DOMAIN objs : objs'[m] = objs[m]
      /\ objs'[o].kind = kind /\ SameBytes /\ Unmade'
  BY <1>0, <1>1, ObjectAdded DEF Makes
<1>3. o = Len(objs) + 1 /\ table' = [table EXCEPT ![n] = o] /\ respondNew(h, n, o)
  BY DEF Makes
<1> HIDE DEF o
<1>4. /\ requests'[h].at = "done" /\ requests'[h].rc = "EOK"
      /\ requests'[h].newFd = n /\ requests'[h].obj = o
      /\ requests'[h].cmd = requests[h].cmd /\ requests'[h].fd = requests[h].fd
      /\ requests'[h].data = requests[h].data
      /\ \A g \in Handles : g # h => requests'[g] = requests[g]
      /\ requests' \in [Handles -> Buffers']
  BY <1>0, <1>2, <1>3, RespondsNew
<1>5. ~Lost
  <2>1. requests[h].at = "working" \/ (requests[h].at = "sent" /\ requests[h].cmd = "socket")
    BY DEF Pends
  <2> QED
    BY <1>0, <2>1, NoneLost
<1>6. NumbersOK'
  <2>1. IF requests[h].cmd = "socket" THEN requests[h].data = <<objs'[o].kind>>
        ELSE objs'[o].kind = "stream"
    BY <1>2 DEF Makes
  <2>2. UNCHANGED <<sockets, call, severed, objOf>>
    BY <1>1
  <2>3. DOMAIN objs' = DOMAIN objs \cup {o} /\ \A m \in DOMAIN objs : objs'[m] = objs[m]
    BY <1>2
  <2>4. /\ requests'[h].at = "done" /\ requests'[h].rc = "EOK"
        /\ requests'[h].newFd = n /\ requests'[h].obj = o
        /\ requests'[h].cmd = requests[h].cmd /\ requests'[h].fd = requests[h].fd
        /\ requests'[h].data = requests[h].data
        /\ \A g \in Handles : g # h => requests'[g] = requests[g]
    BY <1>4
  <2>5. /\ table[n] = IF requests[h].cmd = "socket" THEN NULL ELSE RESERVED
        /\ requests[h].cmd = "accept" => n = requests[h].newFd
    BY DEF Makes
  <2> QED
    BY <1>0, <1>3, <1>5, <2>1, <2>2, <2>3, <2>4, <2>5, MadeNumbers
<1>7. ReadsOK' /\ SendsOK'
  <2>1. requests[h].cmd \notin Sends \cup Receives
    BY DEF Sends, Receives
  <2> QED
    BY <1>0, <1>1, <1>2, <1>4, <2>1, PassBytes
<1>8. MoveOn
  BY <1>4 DEF MoveOn, Live, Pends
<1>9. RequestsOK'
  BY <1>0, <1>1, <1>4, <1>8, ProxyRequests
<1>10. ValuesOK'
  <2>1. Entries' = Entries /\ Calls' = Calls /\ Objects' = Objects
    BY DEF Entries, Calls, Objects
  <2>2. table' \in [Fds -> {NULL, RESERVED} \cup DOMAIN objs']
    BY <1>0, <1>2, <1>3 DEF ValuesOK
  <2>3. objOf' \in [Fds -> {0} \cup DOMAIN objs'] /\ severed' \subseteq DOMAIN objs'
    BY <1>0, <1>1, <1>2 DEF ValuesOK
  <2> QED
    BY <1>0, <1>1, <1>2, <1>4, <2>1, <2>2, <2>3 DEF ValuesOK
<1>11. ObjsBounded'
  <2>1. program.objs \in Nat
    BY <1>0, SocketBounds DEF ValuesOK
  <2>2. o <= program.objs
    <3>1. Len(objs) \in Nat
      BY <1>0 DEF ValuesOK
    <3> QED
      BY <1>3, <2>1, <3>1 DEF Makes
  <2>3. Asking' => o < program.objs
    <3> SUFFICES ASSUME NEW g \in Handles, requests'[g].at = "sent", requests'[g].cmd = "socket"
                 PROVE  o < program.objs
      BY DEF Asking
    <3> QED
      BY <1>3, <1>4 DEF Makes
  <2> QED
    BY <1>1, <1>2, <2>2, <2>3 DEF ObjsBounded
<1> QED
  BY <1>2, <1>6, <1>7, <1>9, <1>10, <1>11 DEF SocketsInv

(* The worker of accept.                                                   *)
LEMMA RunAcceptInv ==
  ASSUME SocketsInv, UNCHANGED wire, clientStays, NEW h \in Handles, runAccept(h)
  PROVE  SocketsInv'
<1>0. ValuesOK /\ RequestsOK /\ NumbersOK
  BY DEF SocketsInv
<1>1. requests[h].at = "working" /\ requests[h].cmd = "accept"
  BY DEF runAccept, Working
<1> DEFINE n == requests[h].newFd
<1>2. n \in Fds /\ table[n] = RESERVED
  BY <1>0, <1>1, BufferTypes DEF NumbersOK, WorkersOK
<1>3. CASE /\ RoomForOne
           /\ objs' = Append(objs, newObj("stream", "conn"))
           /\ table' = [table EXCEPT ![n] = Len(objs) + 1]
           /\ respondNew(h, n, Len(objs) + 1)
  <2>1. Adds("stream", "conn") /\ respondNew(h, n, Len(objs) + 1)
    BY <1>3 DEF Adds
  <2>2. Len(objs) \in Nat /\ program.objs \in Nat
    BY <1>0, SocketBounds DEF ValuesOK
  <2>3. Len(objs) < program.objs
    BY <1>3, <2>2 DEF RoomForOne
  <2>4. \A g \in Handles : requests[g].at = "sent" /\ requests[g].cmd = "socket"
                             => Len(objs) + 1 < program.objs
    BY <1>3, <2>2 DEF RoomForOne
  <2>5. wire' \in Seq(Handles) /\ WireOK'
    <3>1. wire \in Seq(Handles) /\ requests \in [Handles -> Buffers]
      BY <1>0 DEF ValuesOK
    <3>2. \A g \in Handles : requests[g].at = "sent" => requests'[g].at = "sent"
      BY <1>1, <2>1, <3>1 DEF respondNew
    <3> QED
      BY <1>0, <3>1, <3>2, SameWire
  <2>6. UNCHANGED program
    BY DEF clientStays, given
  <2> HIDE DEF n
  <2>7. n = requests[h].newFd
    BY DEF n
  <2>8. Makes(h, n, "stream", "conn")
    BY <1>1, <1>2, <1>3, <2>1, <2>3, <2>4, <2>7 DEF Makes
  <2> QED
    BY <1>1, <1>2, <2>5, <2>8, MadeInv DEF Pends, States
<1>4. CASE /\ table' = [table EXCEPT ![n] = NULL] /\ respond(h, "ERROR") /\ UNCHANGED objs
  <2>1. SameBytes /\ objs' \in Seq(Objects) /\ DOMAIN objs' = DOMAIN objs
    BY <1>0, <1>4, SameObjects
  <2>2. Done(h, "ERROR") /\ requests' \in [Handles -> Buffers']
    BY <1>0, <1>4, <2>1, Responds DEF Codes
  <2> QED
    BY <1>1, <1>2, <1>4, <2>1, <2>2, DropInv DEF Codes
<1> QED
  BY <1>3, <1>4 DEF runAccept

(* The run of any worker.                                                  *)
LEMMA RunInv ==
  ASSUME SocketsInv, NEW h \in Handles, run(h)
  PROVE  SocketsInv'
<1>1. /\ UNCHANGED wire /\ clientStays
      /\ \/ runRecv(h) \/ runRecvfrom(h) \/ runSend(h) \/ runConnect(h) \/ runBind(h)
         \/ runListen(h) \/ runAccept(h) \/ runClose(h) \/ runShutdown(h) \/ runSockInfo(h)
  BY DEF run
<1> QED
  BY <1>1, RunRecvInv, RunRecvfromInv, RunSendInv, RunConnectInv, RunBindInv,
     RunListenInv, RunAcceptInv, RunCloseInv, RunShutdownInv, RunSockInfoInv

(* A response is delivered to the client.                                  *)
LEMMA DeliverInv ==
  ASSUME SocketsInv, NEW h \in Handles, deliver(h)
  PROVE  SocketsInv'
<1>0. ValuesOK /\ RequestsOK /\ NumbersOK /\ ReadsOK /\ SendsOK
  BY DEF SocketsInv
<1>1. /\ requests[h].at = "done" /\ UNCHANGED <<wire, table, objs>>
      /\ UNCHANGED <<sockets, call, program, failures, severed, objOf, received, sent>>
      /\ UNCHANGED <<sockets, call, program, history>>
  BY DEF deliver, proxyVars, clientStays, given, history
<1>2. SameBytes /\ objs' \in Seq(Objects) /\ DOMAIN objs' = DOMAIN objs
  <2>1. UNCHANGED objs
    BY <1>1
  <2> QED
    BY <1>0, <2>1, SameObjects
<1>3. /\ requests'[h].at = "rcvd" /\ requests'[h].rc = requests[h].rc
      /\ requests'[h].cmd = requests[h].cmd /\ requests'[h].fd = requests[h].fd
      /\ requests'[h].data = requests[h].data
      /\ requests'[h].obj = requests[h].obj /\ requests'[h].newFd = requests[h].newFd
      /\ \A g \in Handles : g # h => requests'[g] = requests[g]
      /\ requests' \in [Handles -> Buffers']
  <2> DEFINE b == [requests[h] EXCEPT !.at = "rcvd"]
  <2>1. requests \in [Handles -> Buffers] /\ requests[h] \in Buffers
    BY <1>0 DEF ValuesOK
  <2>2. Turned(h, b)
    BY <2>1 DEF deliver, Turned
  <2>3. b \in Buffers'
    BY <1>2, <2>1 DEF Buffers
  <2>4. /\ b.at = "rcvd" /\ b.rc = requests[h].rc /\ b.cmd = requests[h].cmd /\ b.fd = requests[h].fd
        /\ b.data = requests[h].data /\ b.obj = requests[h].obj /\ b.newFd = requests[h].newFd
    BY <2>1 DEF Buffers
  <2> HIDE DEF b
  <2> QED
    BY <1>0, <1>2, <2>2, <2>3, <2>4, BufferTurned
<1>4. NumbersOK'
  BY <1>0, <1>1, <1>3, PassedNumbers
<1>5. ReadsOK' /\ SendsOK'
  BY <1>0, <1>1, <1>2, <1>3, PassBytes
<1>6. MoveOn /\ \A g \in Handles : requests'[g].at = "sent" <=> requests[g].at = "sent"
  BY <1>1, <1>3 DEF MoveOn, Live
<1>7. wire' \in Seq(Handles) /\ WireOK'
  <2>1. wire \in Seq(Handles)
    BY <1>0 DEF ValuesOK
  <2> QED
    BY <1>0, <1>1, <1>6, <2>1, SameWire
<1>8. /\ failures' \in 0 .. MaxFailures /\ severed' \subseteq DOMAIN objs
      /\ table' \in [Fds -> {NULL, RESERVED} \cup DOMAIN objs]
  BY <1>0, <1>1 DEF ValuesOK
<1> QED
  BY <1>1, <1>2, <1>3, <1>4, <1>5, <1>6, <1>7, <1>8, ServiceInv

-----------------------------------------------------------------------------
(* The next request is looked at.                                          *)

Takes(h) == wire # <<>> /\ h = Head(wire) /\ wire' = Tail(wire)

(* The oldest request leaves the wire.                                     *)
LEMMA TakenFromWire ==
  ASSUME SocketsInv, NEW h, Takes(h)
  PROVE  /\ h \in Handles /\ requests[h].at = "sent"
         /\ (\A g \in Handles : g # h => requests'[g] = requests[g]) => wire' \in Seq(Handles) /\ WireOK'
<1>0. ValuesOK /\ RequestsOK /\ wire \in Seq(Handles)
  BY DEF SocketsInv, ValuesOK
<1>1. wire # <<>> /\ wire' = Tail(wire) /\ h = Head(wire)
  BY DEF Takes
<1>2. h \in Handles /\ requests[h].at = "sent"
  BY <1>0, <1>1 DEF RequestsOK, WireOK
<1>3. ASSUME \A g \in Handles : g # h => requests'[g] = requests[g]
      PROVE  wire' \in Seq(Handles) /\ WireOK'
  BY <1>0, <1>1, <1>3, ShorterWire
<1> QED
  BY <1>2, <1>3

(* It is answered at once.                                                 *)
LEMMA AnswerAtOnce ==
  ASSUME SocketsInv, clientStays, NEW h, Takes(h), NEW rc \in Codes, onlyRc(h, rc),
         rc # "EOK" \/ requests[h].cmd = "gethost",
         requests[h].cmd = "closesocket" => table[requests[h].fd] = NULL
  PROVE  SocketsInv'
<1>0. ValuesOK
  BY DEF SocketsInv
<1>1. h \in Handles /\ requests[h].at = "sent"
  BY TakenFromWire
<1>2. UNCHANGED <<sockets, call, table, objs, given, history>> /\ respond(h, rc)
  BY DEF clientStays, onlyRc, proxyVars
<1>3. UNCHANGED objs
  BY <1>2
<1>4. SameBytes /\ objs' \in Seq(Objects) /\ DOMAIN objs' = DOMAIN objs
  BY <1>0, <1>3, SameObjects
<1>5. Done(h, rc) /\ requests' \in [Handles -> Buffers']
  BY <1>0, <1>1, <1>2, <1>4, Responds
<1>6. wire' \in Seq(Handles) /\ WireOK'
  BY <1>5, TakenFromWire DEF Done
<1>7. rc # "EOK" \/ requests[h].cmd \notin Sends \cup Receives \cup {"socket", "accept"}
  BY DEF Sends, Receives
<1> QED
  BY <1>1, <1>2, <1>4, <1>5, <1>6, <1>7, AnswerInv DEF Pends

(* socket is answered at once, by the thread that takes the requests.      *)
LEMMA AllocInv ==
  ASSUME SocketsInv, clientStays, NEW h, Takes(h), requests[h].cmd = "socket", allocSocket(h)
  PROVE  SocketsInv'
<1>0. ValuesOK /\ ObjsBounded /\ RequestsOK /\ NumbersOK
  BY DEF SocketsInv
<1>1. h \in Handles /\ requests[h].at = "sent"
  BY TakenFromWire
<1>2. CASE onlyRc(h, "EMFILE")
  BY <1>2, AnswerAtOnce DEF Codes
<1>3. ASSUME FreeNumbers # {},
             objs' = Append(objs, newObj(requests[h].data[1], "new")),
             table' = [table EXCEPT ![Min(FreeNumbers)] = Len(objs) + 1],
             respondNew(h, Min(FreeNumbers), Len(objs) + 1)
      PROVE  SocketsInv'
  <2> DEFINE n == Min(FreeNumbers)
             kind == requests[h].data[1]
  <2>1. n \in Fds /\ table[n] = NULL
    BY <1>3, Least2 DEF FreeNumbers
  <2>2. kind \in {"stream", "dgram"} /\ requests[h].data = <<kind>>
    <3>1. requests[h].data \in Kinds
      BY <1>0, <1>1 DEF NumbersOK, NewOK
    <3> QED
      BY <3>1 DEF Kinds
  <2>3. Adds(kind, "new")
    BY <1>3 DEF Adds
  <2>4. Len(objs) < program.objs
    BY <1>0, <1>1 DEF ObjsBounded, Asking
  <2>5. \A g \in Handles : g # h => ~(requests[g].at = "sent" /\ requests[g].cmd = "socket")
    BY <1>0, <1>1, Whose DEF Pends
  <2>6. table' = [table EXCEPT ![n] = Len(objs) + 1] /\ respondNew(h, n, Len(objs) + 1)
    BY <1>3
  <2> HIDE DEF n, kind
  <2>7. Makes(h, n, kind, "new")
    BY <2>1, <2>2, <2>3, <2>4, <2>5, <2>6 DEF Makes
  <2>8. wire' \in Seq(Handles) /\ WireOK'
    <3>1. requests \in [Handles -> Buffers]
      BY <1>0 DEF ValuesOK
    <3>2. \A g \in Handles : g # h => requests'[g] = requests[g]
      BY <2>6, <3>1 DEF respondNew
    <3> QED
      BY <3>2, TakenFromWire
  <2> QED
    BY <1>1, <2>1, <2>2, <2>7, <2>8, MadeInv DEF Pends, States
<1> QED
  BY <1>2, <1>3 DEF allocSocket

(* It is given to a worker, with the object of its socket.                 *)
Works(h, n) ==
  /\ requests'[h].at = "working" /\ requests'[h].cmd = requests[h].cmd
  /\ requests'[h].fd = requests[h].fd /\ requests'[h].data = requests[h].data
  /\ requests'[h].obj = table[requests[h].fd] /\ requests'[h].newFd = n
  /\ \A g \in Handles : g # h => requests'[g] = requests[g]

(* A worker keeps the socket its request names.                            *)
LEMMA WorkerBuffer ==
  ASSUME ValuesOK, UNCHANGED objs, NEW h \in Handles, NEW n \in Fds,
         \/ requests' = [requests EXCEPT ![h].at = "working", ![h].obj = table[requests[h].fd],
                                         ![h].newFd = n]
         \/ /\ n = requests[h].newFd
            /\ requests' = [requests EXCEPT ![h].at = "working", ![h].obj = table[requests[h].fd]]
  PROVE  Works(h, n) /\ requests' \in [Handles -> Buffers']
<1> DEFINE o == table[requests[h].fd]
           b == [requests[h] EXCEPT !.at = "working", !.obj = o, !.newFd = n]
           c == [requests[h] EXCEPT !.at = "working", !.obj = o]
<1>1. requests \in [Handles -> Buffers] /\ requests[h] \in Buffers
  BY DEF ValuesOK
<1>2. o \in {NULL, RESERVED} \cup DOMAIN objs
  BY BufferTypes, EntryTypes
<1>3. n = requests[h].newFd => b = c
  BY <1>1 DEF Buffers
<1>4. Turned(h, b)
  BY <1>1, <1>3 DEF Turned
<1> HIDE DEF o
<1>5. b \in Buffers'
  BY <1>1, <1>2 DEF Buffers
<1>6. /\ b.at = "working" /\ b.obj = o /\ b.cmd = requests[h].cmd /\ b.fd = requests[h].fd
      /\ b.data = requests[h].data /\ b.newFd = n
  BY <1>1 DEF Buffers
<1> HIDE DEF b
<1> QED
  BY <1>4, <1>5, <1>6, BufferTurned DEF Works, o

(* A worker is started; that of accept reserves a number.                  *)
LEMMA WorkerInv ==
  ASSUME SocketsInv, clientStays, NEW h, Takes(h), requests[h].cmd \notin {"socket", "gethost"},
         table[requests[h].fd] # NULL, UNCHANGED objs,
         NEW n \in Fds, Works(h, n), requests' \in [Handles -> Buffers'],
         IF requests[h].cmd = "accept" THEN table[n] = NULL /\ table' = [table EXCEPT ![n] = RESERVED]
         ELSE UNCHANGED table
  PROVE  SocketsInv'
<1>0. ValuesOK /\ RequestsOK /\ NumbersOK /\ ReadsOK /\ SendsOK
  BY DEF SocketsInv
<1>1. h \in Handles /\ requests[h].at = "sent"
  BY TakenFromWire
<1>2. UNCHANGED <<sockets, call, program, failures, severed, objOf, received, sent>>
  BY DEF clientStays, given, history
<1>3. /\ requests'[h].at = "working" /\ requests'[h].cmd = requests[h].cmd
      /\ requests'[h].fd = requests[h].fd /\ requests'[h].data = requests[h].data
      /\ requests'[h].obj = table[requests[h].fd] /\ n = requests'[h].newFd
      /\ \A g \in Handles : g # h => requests'[g] = requests[g]
  BY DEF Works
<1>4. table \in [Fds -> {NULL, RESERVED} \cup DOMAIN objs]
  BY <1>0 DEF ValuesOK
<1>5. /\ requests[h].cmd = "accept" => table[n] = NULL /\ table'[n] = RESERVED
      /\ \A k \in Fds : table'[k] = table[k] \/ (table[k] = NULL /\ table'[k] = RESERVED)
      /\ table' \in [Fds -> {NULL, RESERVED} \cup DOMAIN objs]
  BY <1>4
<1>6. NumbersOK'
  <2>1. requests[h].fd \in Fds
    BY <1>0, <1>1, BufferTypes
  <2> QED
    BY <1>0, <1>1, <1>2, <1>3, <1>5, <2>1, WorkerNumbers
<1>7. SameBytes /\ objs' \in Seq(Objects) /\ DOMAIN objs' = DOMAIN objs
  BY <1>0, SameObjects
<1>8. ReadsOK' /\ SendsOK'
  <2>1. requests[h].at \in Pends /\ requests'[h].at \in Pends
    BY <1>1, <1>3 DEF Pends
  <2> QED
    BY <1>0, <1>2, <1>3, <1>7, <2>1, PassBytes
<1>9. MoveOn /\ \A g \in Handles : requests'[g].at = "sent" => requests[g].at = "sent"
  BY <1>1, <1>3 DEF MoveOn, Live
<1>10. wire' \in Seq(Handles) /\ WireOK'
  BY <1>3, TakenFromWire
<1>11. failures' \in 0 .. MaxFailures /\ severed' \subseteq DOMAIN objs
  BY <1>0, <1>2 DEF ValuesOK
<1>12. UNCHANGED <<sockets, call, program, history>>
  BY <1>2 DEF history
<1> QED
  BY <1>5, <1>6, <1>7, <1>8, <1>9, <1>10, <1>11, <1>12, ServiceInv

(* The oldest request on the wire is taken.                                *)
LEMMA GetRequestInv ==
  ASSUME SocketsInv, getRequestHandler
  PROVE  SocketsInv'
<1>0. ValuesOK
  BY DEF SocketsInv
<1> DEFINE h == Head(wire)
           fd == requests[h].fd
<1>1. Takes(h) /\ clientStays
  BY DEF Takes, getRequestHandler
<1>2. \/ requests[h].cmd = "socket" /\ allocSocket(h)
      \/ requests[h].cmd = "gethost" /\ resolve(h)
      \/ /\ requests[h].cmd \notin {"socket", "gethost"}
         /\ \/ table[fd] = NULL /\ onlyRc(h, "ENOTSOCK")
            \/ table[fd] # NULL /\ requests[h].cmd = "accept" /\ onlyRc(h, "EMFILE")
            \/ table[fd] # NULL /\ requests[h].cmd = "accept" /\ acceptWorker(h) /\ UNCHANGED objs
            \/ table[fd] # NULL /\ requests[h].cmd # "accept" /\ socketWorker(h) /\ UNCHANGED objs
  BY DEF getRequestHandler
<1> HIDE DEF h
<1>3. h \in Handles
  BY <1>1, TakenFromWire
<1>4. CASE requests[h].cmd = "socket" /\ allocSocket(h)
  BY <1>1, <1>4, AllocInv
<1>5. CASE requests[h].cmd = "gethost" /\ resolve(h)
  <2>1. PICK rc \in {"EOK", "HOST_NOT_FOUND"} : onlyRc(h, rc)
    BY <1>5 DEF resolve
  <2> QED
    BY <1>1, <1>5, <2>1, AnswerAtOnce DEF Codes
<1>6. CASE table[fd] = NULL /\ onlyRc(h, "ENOTSOCK")
  BY <1>1, <1>6, AnswerAtOnce DEF Codes
<1>7. CASE requests[h].cmd = "accept" /\ onlyRc(h, "EMFILE")
  BY <1>1, <1>7, AnswerAtOnce DEF Codes
<1>8. CASE table[fd] # NULL /\ requests[h].cmd = "accept" /\ acceptWorker(h) /\ UNCHANGED objs
  <2> DEFINE n == Min(FreeNumbers)
  <2>1. n \in Fds /\ table[n] = NULL
    BY <1>8, Least2 DEF acceptWorker, FreeNumbers
  <2>2. /\ table' = [table EXCEPT ![n] = RESERVED]
        /\ requests' = [requests EXCEPT ![h].at = "working", ![h].obj = table[requests[h].fd],
                                        ![h].newFd = n]
    BY <1>8 DEF acceptWorker
  <2> HIDE DEF n
  <2>3. Works(h, n) /\ requests' \in [Handles -> Buffers']
    BY <1>0, <1>3, <1>8, <2>1, <2>2, WorkerBuffer
  <2> QED
    BY <1>1, <1>8, <2>1, <2>2, <2>3, WorkerInv
<1>9. CASE /\ requests[h].cmd \notin {"socket", "gethost", "accept"}
           /\ table[fd] # NULL /\ socketWorker(h) /\ UNCHANGED objs
  <2> DEFINE n == requests[h].newFd
  <2>1. n \in Fds
    BY <1>0, <1>3, BufferTypes
  <2>2. /\ UNCHANGED table
        /\ requests' = [requests EXCEPT ![h].at = "working", ![h].obj = table[requests[h].fd]]
    BY <1>9 DEF socketWorker
  <2>3. n = requests[h].newFd
    OBVIOUS
  <2> HIDE DEF n
  <2>4. Works(h, n) /\ requests' \in [Handles -> Buffers']
    BY <1>0, <1>3, <1>9, <2>1, <2>2, <2>3, WorkerBuffer
  <2> QED
    BY <1>1, <1>9, <2>1, <2>2, <2>4, WorkerInv
<1> QED
  BY <1>2, <1>4, <1>5, <1>6, <1>7, <1>8, <1>9

-----------------------------------------------------------------------------
(* The link and the peers.                                                 *)

Rejected(h) ==
  /\ requests'[h].at = "rcvd" /\ requests'[h].rc = "REJECT"
  /\ requests'[h].cmd = requests[h].cmd /\ requests'[h].fd = requests[h].fd
  /\ \A g \in Handles : g # h => requests'[g] = requests[g]

(* A rejected request is answered as such.                                 *)
LEMMA RejectedBuffer ==
  ASSUME ValuesOK, UNCHANGED objs, NEW h \in Handles,
         requests' = [requests EXCEPT ![h].at = "rcvd", ![h].rc = "REJECT"]
  PROVE  Rejected(h) /\ requests' \in [Handles -> Buffers']
<1> DEFINE b == [requests[h] EXCEPT !.at = "rcvd", !.rc = "REJECT"]
<1>1. requests \in [Handles -> Buffers] /\ requests[h] \in Buffers
  BY DEF ValuesOK
<1>2. Turned(h, b)
  BY <1>1 DEF Turned
<1>3. b \in Buffers'
  BY <1>1 DEF Buffers, Codes
<1>4. b.at = "rcvd" /\ b.rc = "REJECT" /\ b.cmd = requests[h].cmd /\ b.fd = requests[h].fd
  BY <1>1 DEF Buffers
<1> HIDE DEF b
<1> QED
  BY <1>2, <1>3, <1>4, BufferTurned DEF Rejected

(* Failures stay within their bound.                                       *)
LEMMA OneMoreFailure ==
  ASSUME ValuesOK, failures < MaxFailures, failures' = failures + 1
  PROVE  failures' \in 0 .. MaxFailures
BY SocketBounds DEF ValuesOK

(* A request is rejected on its way to the handler.                        *)
LEMMA RejectInv ==
  ASSUME SocketsInv, NEW h \in Handles, reject(h)
  PROVE  SocketsInv'
<1>0. ValuesOK /\ RequestsOK /\ NumbersOK /\ ReadsOK /\ SendsOK
  BY DEF SocketsInv
<1>1. /\ requests[h].at = "sent" /\ UNCHANGED <<program, sockets, call, table, objs, objOf, received, sent>>
      /\ failures' \in 0 .. MaxFailures
  BY <1>0, OneMoreFailure DEF reject, proxyVars, history
<1>2. Rejected(h) /\ requests' \in [Handles -> Buffers']
  <2>1. UNCHANGED objs /\ requests' = [requests EXCEPT ![h].at = "rcvd", ![h].rc = "REJECT"]
    BY <1>1 DEF reject
  <2> QED
    BY <1>0, <2>1, RejectedBuffer
<1>3. /\ requests'[h].at = "rcvd" /\ requests'[h].rc = "REJECT"
      /\ requests'[h].cmd = requests[h].cmd /\ requests'[h].fd = requests[h].fd
      /\ \A g \in Handles : g # h => requests'[g] = requests[g]
  BY <1>2 DEF Rejected
<1>4. wire' \in Seq(Handles) /\ WireOK'
  <2>1. PICK i \in DOMAIN wire : wire[i] = h /\ wire' = Cut(wire, i)
    BY DEF reject, Cut
  <2> QED
    BY <1>0, <1>3, <2>1, CutWire
<1>5. SameBytes /\ objs' \in Seq(Objects) /\ DOMAIN objs' = DOMAIN objs
  <2>1. UNCHANGED objs
    BY <1>1
  <2> QED
    BY <1>0, <2>1, SameObjects
<1>6. ReadsOK' /\ SendsOK'
  <2>1. requests[h].at \in Pends
    BY <1>1 DEF Pends
  <2> QED
    BY <1>0, <1>1, <1>3, <1>5, <2>1, PassBytes
<1>7. MoveOn /\ \A g \in Handles : requests'[g].at = "sent" => requests[g].at = "sent"
  BY <1>1, <1>3 DEF MoveOn, Live
<1>8. ~New(h)'
  BY <1>3 DEF New
<1> DEFINE n == requests[h].fd
<1>9. n \in Fds
  BY <1>0, BufferTypes
<1>10. NumbersOK' /\ severed' \subseteq DOMAIN objs
  <2>1. CASE requests[h].cmd = "closesocket"
    <3>1. severed' = severed \cup {objOf[n]}
      BY <2>1 DEF reject
    <3>2. requests[h].at \in Pends
      BY <1>1 DEF Pends
    <3>3. InUse(n)
      BY <1>0, <2>1, <3>2, Whose
    <3>4. objOf[n] \in DOMAIN objs
      BY <1>0, <1>9, <3>3, EntryTypes DEF NumbersOK, TableOK
    <3>5. severed' \subseteq DOMAIN objs
      BY <1>0, <3>1, <3>4 DEF ValuesOK
    <3>6. NumbersOK'
      BY <1>0, <1>1, <1>3, <1>8, <1>9, <2>1, <3>1, SeveredNumbers
    <3> QED
      BY <3>5, <3>6
  <2>2. CASE requests[h].cmd # "closesocket"
    <3>1. severed' = severed
      BY <2>2 DEF reject
    <3>2. NumbersOK'
      BY <1>0, <1>1, <1>3, <1>8, <2>2, <3>1, AnsweredNumbers DEF Pends
    <3>3. severed' \subseteq DOMAIN objs
      BY <1>0, <3>1 DEF ValuesOK
    <3> QED
      BY <3>2, <3>3
  <2> QED
    BY <2>1, <2>2
<1>11. table' \in [Fds -> {NULL, RESERVED} \cup DOMAIN objs]
  BY <1>0, <1>1 DEF ValuesOK
<1>12. UNCHANGED <<sockets, call, program, history>>
  BY <1>1 DEF history
<1> QED
  BY <1>1, <1>2, <1>4, <1>5, <1>6, <1>7, <1>10, <1>11, <1>12, ServiceInv

(* What a loss of the connection does to the requests and to the objects.  *)
LEMMA LostBuffers ==
  ASSUME ValuesOK, reconnect
  PROVE  /\ requests' \in [Handles -> Buffers']
         /\ \A g \in Handles :
              IF g \in Underway
              THEN /\ requests'[g].at = "rcvd" /\ requests'[g].rc = "REJECT"
                   /\ requests'[g].cmd = requests[g].cmd /\ requests'[g].fd = requests[g].fd
              ELSE requests'[g] = requests[g]
         /\ objs' \in Seq(Objects) /\ DOMAIN objs' = DOMAIN objs
         /\ \A o \in DOMAIN objs :
              /\ objs'[o].st = "closed" /\ objs'[o].kind = objs[o].kind /\ objs'[o].read = objs[o].read
              /\ objs'[o].peer = objs[o].peer /\ objs'[o].out = objs[o].out
<1>1. requests \in [Handles -> Buffers] /\ objs \in Seq(Objects)
  BY DEF ValuesOK
<1> DEFINE c(o) == [objs[o] EXCEPT !.st = "closed"]
<1>2. /\ objs' = [o \in DOMAIN objs |-> c(o)]
      /\ \A o \in DOMAIN objs :
           /\ c(o) \in Objects
           /\ c(o).st = "closed" /\ c(o).kind = objs[o].kind /\ c(o).read = objs[o].read
           /\ c(o).peer = objs[o].peer /\ c(o).out = objs[o].out
  <2>1. objs' = [o \in DOMAIN objs |-> c(o)]
    BY DEF reconnect
  <2>2. ASSUME NEW o \in DOMAIN objs
        PROVE  /\ c(o) \in Objects
               /\ c(o).st = "closed" /\ c(o).kind = objs[o].kind /\ c(o).read = objs[o].read
               /\ c(o).peer = objs[o].peer /\ c(o).out = objs[o].out
    <3>1. objs[o] \in Objects
      BY <1>1
    <3> QED
      BY <3>1 DEF Objects
  <2> HIDE DEF c
  <2> QED
    BY <2>1, <2>2
<1> HIDE DEF c
<1>3. /\ DOMAIN objs' = DOMAIN objs
      /\ \A o \in DOMAIN objs :
           /\ objs'[o].st = "closed" /\ objs'[o].kind = objs[o].kind /\ objs'[o].read = objs[o].read
           /\ objs'[o].peer = objs[o].peer /\ objs'[o].out = objs[o].out
  BY <1>2
<1>4. objs' \in Seq(Objects)
  <2>1. DOMAIN objs = 1 .. Len(objs) /\ Len(objs) \in Nat
    BY <1>1
  <2> QED
    BY <1>2, <2>1
<1>5. Buffers' = Buffers
  BY <1>3 DEF Buffers
<1>6. \A g \in Handles :
        requests'[g] = IF g \in Underway THEN [requests[g] EXCEPT !.at = "rcvd", !.rc = "REJECT"]
                       ELSE requests[g]
  BY DEF reconnect
<1>7. ASSUME NEW g \in Handles
      PROVE  LET b == [requests[g] EXCEPT !.at = "rcvd", !.rc = "REJECT"]
             IN b \in Buffers /\ b.at = "rcvd" /\ b.rc = "REJECT" /\ b.cmd = requests[g].cmd
                  /\ b.fd = requests[g].fd
  BY <1>1 DEF Buffers, Codes
<1>8. requests' \in [Handles -> Buffers']
  <2>1. requests' = [g \in Handles |-> requests'[g]]
    BY DEF reconnect
  <2>2. \A g \in Handles : requests'[g] \in Buffers
    BY <1>1, <1>6, <1>7
  <2> QED
    BY <1>5, <2>1, <2>2
<1> QED
  BY <1>3, <1>4, <1>6, <1>7, <1>8

(* The outside proxy is started anew: its sockets are gone.                *)
LEMMA ReconnectInv ==
  ASSUME SocketsInv, reconnect
  PROVE  SocketsInv'
<1>0. ValuesOK /\ RequestsOK /\ NumbersOK /\ ReadsOK /\ SendsOK
  BY DEF SocketsInv
<1>1. /\ UNCHANGED <<program, sockets, call, objOf, received, sent>> /\ wire' = <<>>
      /\ failures' \in 0 .. MaxFailures /\ severed' = DOMAIN objs /\ table' = [fd \in Fds |-> NULL]
  BY <1>0, OneMoreFailure DEF reconnect, history
<1>2. /\ requests' \in [Handles -> Buffers']
      /\ \A g \in Handles :
           IF g \in Underway
           THEN /\ requests'[g].at = "rcvd" /\ requests'[g].rc = "REJECT"
                /\ requests'[g].cmd = requests[g].cmd /\ requests'[g].fd = requests[g].fd
           ELSE requests'[g] = requests[g]
      /\ objs' \in Seq(Objects) /\ DOMAIN objs' = DOMAIN objs
      /\ \A o \in DOMAIN objs :
           /\ objs'[o].st = "closed" /\ objs'[o].kind = objs[o].kind /\ objs'[o].read = objs[o].read
           /\ objs'[o].peer = objs[o].peer /\ objs'[o].out = objs[o].out
  BY <1>0, LostBuffers
<1>3. NumbersOK'
  <2>1. \A g \in Handles : IF g \in Underway THEN requests'[g].at = "rcvd" /\ ~New(g)'
                           ELSE requests'[g] = requests[g]
    BY <1>2 DEF New
  <2> QED
    BY <1>0, <1>1, <1>2, <2>1, ReconnectNumbers
<1>4. ReadsOK'
  <2>1. ASSUME NEW g \in Handles, Gathers(g)'
        PROVE  Gathers(g) /\ requests'[g] = requests[g] /\ Object(g)' = Object(g) /\ Object(g) \in DOMAIN objs
    <3>1. requests'[g] = requests[g]
      BY <1>2, <2>1 DEF Gathers
    <3>2. Gathers(g) /\ Object(g)' = Object(g)
      BY <1>1, <2>1, <3>1 DEF Gathers, Object
    <3> QED
      BY <1>0, <3>1, <3>2, GatherTypes, DataRequest
  <2>2. \A o \in DOMAIN objs : objs'[o].st \notin Readable
    BY <1>2 DEF Readable
  <2>3. \A o \in DOMAIN objs : objs'[o].peer \in Nat /\ objs[o].peer <= objs'[o].peer
    <3>1. \A o \in DOMAIN objs : objs[o].peer \in Nat /\ objs[o].peer <= objs[o].peer
      BY <1>0, ObjectTypes
    <3> QED
      BY <1>2, <3>1
  <2> QED
    BY <1>0, <1>1, <1>2, <2>1, <2>2, <2>3, ReadsFrame
<1>5. SendsOK'
  <2>1. ASSUME NEW g \in Handles, requests'[g].cmd \in Sends, requests'[g].at \in Live
        PROVE  /\ requests[g].cmd \in Sends /\ Object(g)' = Object(g) /\ Object(g) \in DOMAIN objs
               /\ requests'[g].at \in Pends => requests[g].at \in Pends /\ requests'[g].data = requests[g].data
               /\ requests'[g].at \in {"done", "rcvd"} /\ requests'[g].rc = "EOK" =>
                    requests[g].at \in {"done", "rcvd"} /\ requests[g].rc = "EOK"
    <3>1. requests'[g].cmd = requests[g].cmd /\ requests'[g].fd = requests[g].fd
      BY <1>2
    <3>2. requests[g].at # "free"
      BY <1>2, <2>1 DEF Underway, Live
    <3>3. Object(g)' = Object(g) /\ Object(g) \in DOMAIN objs
      BY <1>0, <1>1, <2>1, <3>1, <3>2, DataRequest DEF Object
    <3> QED
      BY <1>2, <2>1, <3>1, <3>3 DEF Pends, Underway
  <2> QED
    BY <1>0, <1>1, <1>2, <2>1, SendsFrame
<1>6. MoveOn /\ \A g \in Handles : requests'[g].at # "sent"
  BY <1>2 DEF MoveOn, Live, Underway
<1>7. wire' \in Seq(Handles) /\ WireOK'
  BY <1>1 DEF WireOK
<1>8. severed' \subseteq DOMAIN objs /\ table' \in [Fds -> {NULL, RESERVED} \cup DOMAIN objs]
  BY <1>1
<1>9. UNCHANGED <<sockets, call, program, history>>
  BY <1>1 DEF history
<1> QED
  BY <1>1, <1>2, <1>3, <1>4, <1>5, <1>6, <1>7, <1>8, <1>9, ServiceInv

(* The peer of a socket does something that moves no bytes read or sent.   *)
LEMMA PeerInv ==
  ASSUME SocketsInv, UNCHANGED <<requests, wire, table>>, clientStays,
         SameBytes, objs' \in Seq(Objects), DOMAIN objs' = DOMAIN objs
  PROVE  SocketsInv'
<1>0. ValuesOK /\ RequestsOK /\ NumbersOK /\ ReadsOK /\ SendsOK
  BY DEF SocketsInv
<1>1. /\ UNCHANGED <<sockets, call, program, failures, severed, objOf, received, sent>>
      /\ UNCHANGED <<sockets, call, program, history>>
  BY DEF clientStays, given, history
<1>2. \A o \in DOMAIN objs : objs'[o].kind = objs[o].kind
  BY DEF SameBytes
<1>3. NumbersOK'
  BY <1>0, <1>1, <1>2, PassedNumbers
<1>4. ReadsOK' /\ SendsOK'
  BY <1>0, <1>1, PassBytes
<1>5. MoveOn /\ \A g \in Handles : requests'[g].at = "sent" => requests[g].at = "sent"
  BY DEF MoveOn
<1>6. wire' \in Seq(Handles) /\ WireOK'
  <2>1. wire \in Seq(Handles)
    BY <1>0 DEF ValuesOK
  <2> QED
    BY <1>0, <2>1, SameWire
<1>7. /\ failures' \in 0 .. MaxFailures /\ severed' \subseteq DOMAIN objs
      /\ table' \in [Fds -> {NULL, RESERVED} \cup DOMAIN objs]
      /\ requests' \in [Handles -> Buffers']
  <2>1. Buffers' = Buffers
    BY DEF Buffers
  <2> QED
    BY <1>0, <1>1, <2>1 DEF ValuesOK
<1> QED
  BY <1>1, <1>3, <1>4, <1>5, <1>6, <1>7, ServiceInv

(* A peer sends a byte or closes.                                          *)
LEMMA PeersInv ==
  ASSUME SocketsInv, NEW m \in DOMAIN objs, peerSends(m) \/ peerCloses(m)
  PROVE  SocketsInv'
<1>0. ValuesOK
  BY DEF SocketsInv
<1>1. objs[m] \in Objects /\ objs[m].peer \in Nat /\ objs \in Seq(Objects)
  BY <1>0, ObjectTypes DEF ValuesOK
<1>2. \E o \in Objects : /\ Turns(m, o) /\ o.kind = objs[m].kind /\ o.read = objs[m].read
                         /\ o.out = objs[m].out /\ o.st = objs[m].st /\ objs[m].peer <= o.peer
  <2>1. CASE peerSends(m)
    <3>1. Turns(m, [objs[m] EXCEPT !.peer = @ + 1]) /\ objs[m].peer < program.bytes
      BY <1>1, <2>1 DEF peerSends, Turns
    <3>2. program.bytes \in 1 .. MaxBytes
      BY <1>0, SocketBounds DEF ValuesOK
    <3>3. objs[m].peer + 1 \in 0 .. MaxBytes /\ objs[m].peer <= objs[m].peer + 1
      BY <1>1, <3>1, <3>2, SocketBounds
    <3> DEFINE o == [objs[m] EXCEPT !.peer = @ + 1]
    <3>4. /\ o \in Objects /\ o.kind = objs[m].kind /\ o.read = objs[m].read
          /\ o.out = objs[m].out /\ o.st = objs[m].st /\ o.peer = objs[m].peer + 1
      BY <1>1, <3>3, ZenonT(30) DEF Objects
    <3> HIDE DEF o
    <3> QED
      BY <3>1, <3>3, <3>4 DEF o
  <2>2. CASE peerCloses(m)
    <3> DEFINE o == [objs[m] EXCEPT !.fin = TRUE]
    <3>1. Turns(m, o)
      BY <1>1, <2>2 DEF peerCloses, Turns
    <3>2. /\ o \in Objects /\ o.kind = objs[m].kind /\ o.read = objs[m].read
          /\ o.out = objs[m].out /\ o.st = objs[m].st /\ o.peer = objs[m].peer
      BY <1>1 DEF Objects
    <3>3. objs[m].peer <= o.peer
      BY <1>1, <3>2
    <3> HIDE DEF o
    <3> QED
      BY <3>1, <3>2, <3>3
  <2> QED
    BY <2>1, <2>2
<1>3. PICK o \in Objects : /\ Turns(m, o) /\ o.kind = objs[m].kind /\ o.read = objs[m].read
                           /\ o.out = objs[m].out /\ o.st = objs[m].st /\ objs[m].peer <= o.peer
  BY <1>2
<1>4. /\ objs' \in Seq(Objects) /\ DOMAIN objs' = DOMAIN objs /\ objs'[m] = o
      /\ \A k \in DOMAIN objs : k # m => objs'[k] = objs[k]
  BY <1>0, <1>3, ObjectTurns
<1>5. SameBytes
  <2>1. \A k \in DOMAIN objs : objs[k].peer \in Nat /\ objs[k].peer <= objs[k].peer
    BY <1>0, ObjectTypes
  <2>2. o.peer \in Nat
    BY <1>3 DEF Objects
  <2> QED
    BY <1>3, <1>4, <2>1, <2>2 DEF SameBytes
<1>6. UNCHANGED <<requests, wire, table>> /\ clientStays
  BY DEF peerSends, peerCloses
<1> QED
  BY <1>4, <1>5, <1>6, PeerInv

-----------------------------------------------------------------------------
(* The invariant.                                                          *)

(* The invariant holds initially.                                          *)
LEMMA InitInv ==
  ASSUME SocketsInit
  PROVE  SocketsInv
<1>1. /\ program \in Programs /\ sockets = [fd \in Fds |-> Unused]
      /\ requests = [h \in Handles |-> Free] /\ call = NoCall /\ wire = <<>>
      /\ table = [fd \in Fds |-> NULL] /\ objs = <<>> /\ failures = 0 /\ severed = {}
      /\ objOf = [fd \in Fds |-> 0] /\ received = [o \in 0 .. MaxObjs |-> <<>>]
      /\ sent = [o \in 0 .. MaxObjs |-> [begun |-> 0, done |-> 0]]
  BY DEF SocketsInit
<1>2. DOMAIN objs = {} /\ Len(objs) = 0 /\ objs \in Seq(Objects)
  BY <1>1
<1>3. \A h \in Handles : requests[h].at = "free" /\ requests[h].cmd = ""
  BY <1>1 DEF Free
<1>4. \A fd \in Fds : /\ sockets[fd].flags = {} /\ sockets[fd].recvHandle = NULL_REQUEST
                      /\ sockets[fd].sendHandle = NULL_REQUEST
                      /\ table[fd] = NULL /\ objOf[fd] = 0
  BY <1>1 DEF Unused
<1>5. call.fn = "none" /\ call.fn \notin Fns
  BY <1>1 DEF NoCall, Fns, SyncFns, AsyncFns, Sends, Receives
<1>6. ValuesOK
  <2>1. sockets \in [Fds -> Entries]
    BY <1>1, UnusedIn
  <2>2. requests \in [Handles -> Buffers]
    <3>1. 0 \in Fds /\ <<>> \in Data
      BY SocketBounds DEF Fds, Data
    <3>2. Free \in Buffers
      BY <3>1 DEF Buffers, Free, NULL, Codes
    <3> QED
      BY <1>1, <3>2
  <2>3. failures \in 0 .. MaxFailures
    BY <1>1, SocketBounds
  <2>4. received \in [0 .. MaxObjs -> Seq(Nat)] /\ sent \in [0 .. MaxObjs -> [begun : Nat, done : Nat]]
    BY <1>1
  <2>5. call \in Calls
    BY <1>1, CallIn
  <2>6. /\ table \in [Fds -> {NULL, RESERVED} \cup DOMAIN objs] /\ objOf \in [Fds -> {0} \cup DOMAIN objs]
        /\ wire \in Seq(Handles) /\ severed \subseteq DOMAIN objs /\ program \in Programs
    BY <1>1
  <2> QED
    BY <1>2, <2>1, <2>2, <2>3, <2>4, <2>5, <2>6 DEF ValuesOK
<1>7. ObjsBounded /\ Unmade
  <2>1. program.objs \in Nat
    BY <1>1, SocketBounds
  <2>2. ~Asking
    BY <1>3 DEF Asking
  <2>3. \A o \in Len(objs) + 1 .. MaxObjs : o \in 0 .. MaxObjs
    BY <1>2, SocketBounds
  <2> QED
    BY <1>1, <1>2, <2>1, <2>2, <2>3 DEF ObjsBounded, Unmade
<1>8. \A fd \in Fds : ~Active(fd) /\ ~InUse(fd) /\ Pending(fd) = {}
  BY <1>4, <1>5 DEF Active, Has, InUse, Pending
<1>9. \A h \in Handles : ~New(h) /\ ~Gathers(h)
  BY <1>3 DEF New, Gathers
<1>10. RequestsOK
  <2>1. WireOK
    BY <1>1 DEF WireOK
  <2>2. OneHolder /\ CallOK
    <3>1. call.fn \notin SyncFns \cup AsyncFns
      BY <1>5 DEF Fns
    <3> QED
      BY <1>4, <3>1 DEF OneHolder, WaitsFor, CallOK
  <2>3. SelectOK
    BY <1>5 DEF SelectOK, Selecting
  <2>4. BuffersHeld
    BY <1>3 DEF BuffersHeld
  <2>5. \A fd \in Fds : RecvHandleOK(fd) /\ SendHandleOK(fd)
    BY <1>4, <1>8 DEF RecvHandleOK, SendHandleOK
  <2> QED
    BY <2>1, <2>2, <2>3, <2>4, <2>5 DEF RequestsOK
<1>11. NumbersOK
  <2>1. ObjsNamedOnce
    BY <1>4, <1>9 DEF ObjsNamedOnce
  <2>2. TableOK
    BY <1>2, <1>4, <1>8 DEF TableOK
  <2>3. NewOK
    BY <1>3, <1>9 DEF NewOK
  <2>4. WorkersOK
    BY <1>3 DEF WorkersOK
  <2>5. ~Lost
    BY <1>8, <1>9 DEF Lost
  <2>6. KindsOK
    BY <1>8 DEF KindsOK
  <2> QED
    BY <2>1, <2>2, <2>3, <2>4, <2>5, <2>6 DEF NumbersOK
<1>12. ReadsOK /\ SendsOK
  BY <1>2, <1>3, <1>9 DEF ReadsOK, SendsOK, Sends
<1> QED
  BY <1>6, <1>7, <1>10, <1>11, <1>12 DEF SocketsInv

(* Every step of a careful program, of the outside proxy and of what is    *)
(* around them preserves the invariant.                                    *)
LEMMA NextInv ==
  ASSUME Careful, SocketsInv, SocketsNext
  PROVE  SocketsInv'
<1>1. CASE Call
  <2>1. CASE \/ \E kind \in {"stream", "dgram"} \cap program.uses : socket(kind)
             \/ "gethost" \in program.uses /\ gethost
    BY <2>1, SyncCalls
  <2>2. ASSUME NEW fd \in Fds, SocketCall(fd)
        PROVE  SocketsInv'
    <3>1. CASE \/ closesocket(fd) \/ bind(fd) \/ listen(fd) \/ shutdown(fd) \/ getSockInfo(fd)
      BY <3>1, SyncCalls
    <3>2. CASE ioctlsocket(fd)
      BY <3>2, IoctlInv
    <3>3. CASE \/ connect(fd) \/ accept(fd)
               \/ \E fn \in Sends : send(fn, fd)
               \/ \E fn \in Receives, len \in BufLens : recv(fn, fd, len)
      BY <3>3, AsyncCalls
    <3>4. ASSUME NEW fn \in AsyncFns, NEW len \in Nat, resume(fn, fd, len)
          PROVE  SocketsInv'
      BY <3>4, ResumeInv
    <3>5. /\ "connect" \in AsyncFns /\ "accept" \in AsyncFns
          /\ Sends \subseteq AsyncFns /\ Receives \subseteq AsyncFns
          /\ 0 \in Nat /\ BufLens \subseteq Nat
      BY SocketBounds DEF AsyncFns
    <3>6. \/ closesocket(fd) \/ bind(fd) \/ listen(fd) \/ shutdown(fd) \/ getSockInfo(fd) \/ ioctlsocket(fd)
          \/ connect(fd) \/ accept(fd) \/ resume("connect", fd, 0) \/ resume("accept", fd, 0)
          \/ \E fn \in Sends : send(fn, fd) \/ resume(fn, fd, 0)
          \/ \E fn \in Receives, len \in BufLens : recv(fn, fd, len) \/ resume(fn, fd, len)
      BY <2>2 DEF SocketCall
    <3> QED
      BY <3>1, <3>2, <3>3, <3>4, <3>5, <3>6
  <2>3. CASE \E rd, wr \in SUBSET {fd \in Fds : Active(fd)}, timeout \in BOOLEAN : selectX(rd, wr, timeout)
    BY <2>3, SelectInv
  <2> QED
    BY <1>1, <2>1, <2>2, <2>3 DEF Call
<1>2. CASE Continue
  BY <1>2, ReturnOnlyInv, EndGetHostInv, EndSocketInv, EndAcceptInv, EndConnectInv,
     EndSendInv, EndRecvInv, EndRecvfromInv, SelectStartInv, SelectInv DEF Continue
<1>3. CASE Proxy
  BY <1>3, GetRequestInv, RunInv, DeliverInv DEF Proxy
<1>4. CASE Environment
  BY <1>4, RejectInv, ReconnectInv, PeersInv DEF Environment
<1> QED
  BY <1>1, <1>2, <1>3, <1>4 DEF SocketsNext

(* A stuttering step keeps the invariant.                                  *)
LEMMA StutterInv ==
  ASSUME SocketsInv, UNCHANGED socketVars
  PROVE  SocketsInv'
<1>0. ValuesOK /\ RequestsOK
  BY DEF SocketsInv
<1>1. /\ UNCHANGED <<sockets, call, requests, wire, table, objs>>
      /\ UNCHANGED <<requests, wire, table>> /\ clientStays
  BY DEF socketVars, proxyVars, clientStays
<1>2. SameBytes /\ objs' \in Seq(Objects) /\ DOMAIN objs' = DOMAIN objs
  <2>1. UNCHANGED objs
    BY <1>1
  <2> QED
    BY <1>0, <2>1, SameObjects
<1> QED
  BY <1>1, <1>2, PeerInv

(* The inductive invariant holds in every state a careful client program,  *)
(* the handler of the outside proxy and the failures around them reach     *)
(* (ncfsockt.c, Level0SocketAPIHandler.java).                              *)
THEOREM SocketsInvariant ==
  ASSUME Careful
  PROVE  SocketsSpec => []SocketsInv
<1>1. SocketsInit => SocketsInv
  BY InitInv
<1>2. SocketsInv /\ [SocketsNext]_socketVars => SocketsInv'
  BY NextInv, StutterInv
<1> QED
  BY <1>1, <1>2, PTL DEF SocketsSpec

-----------------------------------------------------------------------------
(* What it means for the properties.                                       *)

(* What the invariant implies: types, ...                                  *)
LEMMA InvTypes == SocketsInv => SocketsTypeOK
<1> SUFFICES ASSUME SocketsInv PROVE SocketsTypeOK
  OBVIOUS
<1>0. ValuesOK /\ RequestsOK /\ ObjsBounded
  BY DEF SocketsInv
<1>1. ASSUME NEW fd \in Fds
      PROVE  /\ sockets[fd].flags \subseteq Flags
             /\ sockets[fd].flags \cap {"PENDCONN", "PENDACPT", "PENDRECV"} # {}
                  => sockets[fd].recvHandle # NULL_REQUEST
             /\ {sockets[fd].recvHandle, sockets[fd].sendHandle} \subseteq Handles \cup {NULL_REQUEST}
             /\ sockets[fd].recvRemaining \in 0 .. MaxBytes
             /\ table[fd] \in {NULL, RESERVED} \cup DOMAIN objs
             /\ objOf[fd] \in {0} \cup DOMAIN objs
  <2>1. RecvHandleOK(fd)
    BY <1>0 DEF RequestsOK
  <2>2. sockets[fd].flags \cap {"PENDCONN", "PENDACPT", "PENDRECV"} # {}
           => sockets[fd].recvHandle # NULL_REQUEST
    BY <2>1 DEF RecvHandleOK, Pending
  <2> QED
    BY <1>0, <2>2, EntryTypes
<1>2. \A h \in Handles :
        /\ requests[h].at \in {"free", "sent", "working", "done", "rcvd", "rtrn"}
        /\ requests[h].obj \in {NULL, RESERVED} \cup DOMAIN objs
        /\ requests[h].newFd \in Fds
  BY <1>0, BufferTypes
<1>3. Len(objs) <= MaxObjs
  <2>1. Len(objs) \in Nat /\ program.objs \in 1 .. MaxObjs /\ Len(objs) <= program.objs
    BY <1>0, SocketBounds DEF ValuesOK, ObjsBounded
  <2> QED
    BY <2>1, SocketBounds
<1>4. failures \in 0 .. MaxFailures
  BY <1>0 DEF ValuesOK
<1> QED
  BY <1>1, <1>2, <1>3, <1>4 DEF SocketsTypeOK

(* ... matching numbers, ...                                               *)
LEMMA InvNumbers == SocketsInv => NumbersMatch
<1> SUFFICES ASSUME SocketsInv PROVE NumbersMatch
  OBVIOUS
<1>0. NumbersOK
  BY DEF SocketsInv
<1>1. \A fd \in Fds : Active(fd) /\ objOf[fd] \notin severed => table[fd] = objOf[fd]
  BY <1>0 DEF NumbersOK, TableOK, InUse
<1>2. ASSUME NEW fd \in Fds, table[fd] \in DOMAIN objs \ severed
      PROVE  \/ objOf[fd] = table[fd] /\ (Active(fd) \/ Closing(fd))
             \/ Ungathered(table[fd])
  <2>1. CASE objOf[fd] = table[fd] /\ InUse(fd)
    <3>1. call.fn = "closesocket" => ~Idle
      BY DEF Idle, NoCall
    <3> QED
      BY <2>1, <3>1 DEF InUse, Closing
  <2>2. CASE \E h \in Handles : New(h) /\ requests[h].obj = table[fd]
    BY <2>2 DEF New, Ungathered
  <2> QED
    BY <1>0, <1>2, <2>1, <2>2 DEF NumbersOK, TableOK
<1> QED
  BY <1>1, <1>2 DEF NumbersMatch

(* ... no leaked request, ...                                              *)
LEMMA InvLeaked == SocketsInv => NoLeakedRequest
<1> SUFFICES ASSUME SocketsInv, NEW h \in Handles, requests[h].at # "free"
             PROVE  \/ ~Idle /\ call.fn # "selectX" /\ call.h = h
                    \/ \E fd \in Fds : Active(fd) /\ h \in {sockets[fd].recvHandle, sockets[fd].sendHandle}
                    \/ requests[h].cmd = "gethost"
  BY DEF NoLeakedRequest
<1>0. RequestsOK
  BY DEF SocketsInv
<1>1. Holder(h) \/ requests[h].cmd = "gethost"
  BY <1>0 DEF RequestsOK, BuffersHeld
<1>2. CASE WaitsFor(h)
  <2>1. call.fn \in Fns /\ call.h = h
    BY <1>2 DEF WaitsFor, Fns
  <2>2. ~Idle /\ call.fn # "selectX"
    BY <2>1 DEF Idle, NoCall, Fns, SyncFns, AsyncFns, Sends, Receives
  <2> QED
    BY <2>1, <2>2
<1>3. ASSUME NEW fd \in Fds, h \in {sockets[fd].recvHandle, sockets[fd].sendHandle}
      PROVE  Active(fd)
  BY <1>0, <1>3, NotNull DEF RequestsOK, RecvHandleOK, SendHandleOK
<1> QED
  BY <1>1, <1>2, <1>3 DEF Holder

(* ... each call with its own response, ...                                *)
LEMMA InvOwn == SocketsInv => OwnResponse
<1> SUFFICES ASSUME SocketsInv, ~Idle, call.fn # "selectX"
             PROVE  /\ requests[call.h].at \notin {"free", "rtrn"}
                    /\ requests[call.h].cmd = call.fn
                    /\ requests[call.h].fd = call.fd
                    /\ (requests[call.h].at = "working" /\ call.fn # "closesocket"
                          /\ objOf[call.fd] \notin severed) => requests[call.h].obj = objOf[call.fd]
  BY DEF OwnResponse
<1>0. ValuesOK /\ RequestsOK /\ NumbersOK /\ call \in Calls
  BY DEF SocketsInv, ValuesOK
<1>1. call.fn \in Fns
  BY <1>0, CallTypes
<1>2. /\ call.h \in Handles /\ requests[call.h].cmd = call.fn /\ requests[call.h].fd = call.fd
  BY <1>0, <1>1, CallHolds
<1>3. requests[call.h].at \notin {"free", "rtrn"}
  BY <1>0, <1>1 DEF RequestsOK, CallOK, Fns
<1>4. requests[call.h].at = "working" => requests[call.h].obj = objOf[requests[call.h].fd]
  BY <1>0, <1>2 DEF NumbersOK, WorkersOK
<1> QED
  BY <1>2, <1>3, <1>4

(* ... bytes received in order, ...                                        *)
LEMMA InvReceived == SocketsInv => ReceivedInOrder
<1> SUFFICES ASSUME SocketsInv, NEW o \in DOMAIN objs, NEW i \in DOMAIN received[o]
             PROVE  /\ received[o][i] \in 1 .. objs[o].read
                    /\ objs[o].kind = "stream" => received[o][i] = i
                    /\ i > 1 => received[o][i - 1] < received[o][i]
  BY DEF ReceivedInOrder
<1>0. ValuesOK /\ ObjsBounded /\ ReceivedOK(o)
  BY DEF SocketsInv, ReadsOK
<1>1. received[o] \in Seq(Nat)
  BY <1>0, ObjectBound
<1>2. i > 1 => i - 1 \in DOMAIN received[o] /\ i - 1 < i
  BY <1>1
<1> QED
  BY <1>0, <1>2 DEF ReceivedOK

(* ... and bytes sent in order.                                            *)
LEMMA InvSent == SocketsInv => SentInOrder
BY DEF SocketsInv, SendsOK, SentOK, SentInOrder

(* The state of client and handler is well-formed, and a pending operation *)
(* has its request (ncfsockt.c, SOCKENTRY).                                *)
THEOREM SocketsTypes ==
  ASSUME Careful
  PROVE  SocketsSpec => []SocketsTypeOK
BY SocketsInvariant, InvTypes, PTL

(* Client and handler mean the same socket by a number, whatever is closed *)
(* and made meanwhile (closesocket and accept in ncfsockt.c, the table of  *)
(* Level0SocketAPIHandler.java).                                           *)
THEOREM NumbersStayMatched ==
  ASSUME Careful
  PROVE  SocketsSpec => []NumbersMatch
BY SocketsInvariant, InvNumbers, PTL

(* No request buffer but those of the host lookups is left without an      *)
(* owner (nicofclt_freeRequest in ncfsockt.c).                             *)
THEOREM NoRequestLeaks ==
  ASSUME Careful
  PROVE  SocketsSpec => []NoLeakedRequest
BY SocketsInvariant, InvLeaked, PTL

(* Each call waits for the answer to a request of its own.                 *)
THEOREM CallsGetOwnResponse ==
  ASSUME Careful
  PROVE  SocketsSpec => []OwnResponse
BY SocketsInvariant, InvOwn, PTL

(* recv and recvfrom return bytes in order and none twice, for any number  *)
(* of sockets, requests and bytes.                                         *)
THEOREM ReceivesInOrder ==
  ASSUME Careful
  PROVE  SocketsSpec => []ReceivedInOrder
BY SocketsInvariant, InvReceived, PTL

(* The bytes of send and sendto go out in order, and none is reported that *)
(* has not gone out, although each send has a worker thread of its own.    *)
THEOREM SendsInOrder ==
  ASSUME Careful
  PROVE  SocketsSpec => []SentInOrder
BY SocketsInvariant, InvSent, PTL
=============================================================================
