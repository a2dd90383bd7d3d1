----------------------------- MODULE MCSockets ------------------------------
(* Small instances of Sockets for TLC.                                     *)
EXTENDS Sockets

Program(uses, n, bytes) == [uses |-> uses, objs |-> n, bytes |-> bytes]

(* A connection that is used without blocking; two of them, one after the  *)
(* other or at the same time; datagrams; a server; and select with each of *)
(* the requests it watches.                                                *)
MCPrograms ==
  {Program({"stream", "connect", "send", "recv", "closesocket", "ioctlsocket"}, 1, 2),
   Program({"stream", "connect", "recv", "closesocket", "getSockInfo"}, 2, 1),
   Program({"dgram", "sendto", "recvfrom", "bind", "closesocket", "ioctlsocket"}, 1, 1),
   Program({"dgram", "recvfrom", "bind", "closesocket", "ioctlsocket"}, 1, 2),
   Program({"stream", "bind", "listen", "accept", "recv", "closesocket"}, 3, 1),
   Program({"stream", "bind", "listen", "accept", "selectX"}, 3, 1),
   Program({"stream", "connect", "send", "recv", "selectX", "ioctlsocket"}, 1, 1),
   Program({"stream", "connect", "recv", "selectX", "shutdown", "gethost"}, 1, 2)}

SelectPrograms == {Program({"stream", "connect", "recv", "send", "selectX", "ioctlsocket"}, 1, 2)}
=============================================================================
