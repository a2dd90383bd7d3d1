# A verification project for NICOF

NICOF (Non-Invasive COmmunication Facility) gives CMS programs on VM/370R6
access to services that run outside the mainframe, TCP sockets and files of
the host among them. This directory holds TLA+ models of NICOF, translated from
its source, the TLC configurations that check them and TLAPS proofs of their
central invariants. Paths are relative to the root of the repository, called
`src/` in `PROJECT.json`.

- [1. The system](#1-the-system)
- [2. Inventory](#2-inventory)
- [3. The modules](#3-the-modules)
- [4. What is checked](#4-what-is-checked)
- [5. What is proved](#5-what-is-proved)
- [6. What the code does differently from its comments](#6-what-the-code-does-differently-from-its-comments)
- [7. Plan](#7-plan)
- [8. What is not modelled](#8-what-is-not-modelled)
- [9. How to run](#9-how-to-run)

## 1. The system

```
 client VM (CMS)            proxy VM (CMS)                 host (Java)
+--------------------+     +-----------------------+     +-----------------------+
| program            |     | inside proxy          |     | outside proxy         |
|  socket API        |     |  handleExt            |     |  Dialed3270Host-      |
|  base services     | VMCF|   getSlot, enqueue    | 3270|   Connector           |
|  nicofclt (ncf_0xx)|<--->|  devintHandler        |<--->|  CommProxy, workers   |
|  rcv_ecb, timer    |     |   state machine       |line |  level 0/1 handlers   |
+--------------------+     +-----------------------+     +-----------------------+
```

A client sends a request with VMCF SEND/RECV. The external interrupt handler of
the inside proxy puts its message id into one of 128 *slots* and queues the
slot. The inside proxy and the outside proxy speak over a 3270 terminal that
the outside proxy DIALs to the proxy machine: each wants a permission before it
sends a packet, both may ask at the same time (the inside proxy then goes
first), and a 3270 input tells by its AID byte what it is. The outside proxy
gives each request to a worker thread; the responses come back in any order,
each with the slot number of its request, and the inside proxy answers the VMCF
message of that slot. The reply raises an external interrupt in the client
machine, whose handler marks the request as answered and posts an ECB.

## 2. Inventory

For each component: its state, its operations, whom it talks to, what is hard
about it, what makes it correct.

**Request slots of the inside proxy** (`cms/ioproxy.c` 240-450). State: a ring of
free slots, a ring of waiting slots, the message id in each. Operations:
`getSlot`, `enqueueRequest` (external handler), `getNextRequestToSend`,
`freeSlot`, `resetAllRequests` (device handler). Hard: the device handler
interrupts the external handler between any two instructions, there is no lock,
no ring is ever tested for being full. Correct: a slot has one owner, no message
is lost, none is answered twice, a request is rejected only if no slot is left.

**Transmission state machine of the inside proxy** (`cms/ioproxy.c` 540-1240).
State: `pstate`, `inRecv`, the 3270 device. Operations: the two interrupt
handlers. Hard: handshakes that collide, an input that carries several records,
a SIO refused by a busy device, a reconnection in any state. Correct: no request
stays behind, no transmission without a request, a reconnection succeeds.

**Host connector of the outside proxy** (`Dialed3270HostConnector.java`). State:
`sending`, `mayRequestSend`, `pendingRequestSend`, the queue of responses, the
slots in use. Operations: `innerReceiveRecord`, `handleHandshake`,
`sendResponse`, the start-up dialogue of `connect`. Hard: worker threads enqueue
at any moment; the object survives a lost connection. Correct: each response
goes to the request it is for; every response is sent.

**Main loop and workers of the outside proxy** (`CommProxy.java`). One worker per
request, in any order; reconnects when a connection is lost.

**Client API** (`cms/nicofclt.c`). State: the list of request buffers with their
states and filter tags, the last message id, the response filter, the ECB and
the timer. Operations `ncf_001` to `ncf_050`, the VMCF and timer interrupts.
Hard: an interrupt between the look at a request, the wait and the clearing of
the ECB; a buffer reused while VMCF may still write to it; stale filters.
Correct: no wakeup is lost, no buffer is reused too early, waits end.

**Interrupt API** (`cms/intrapi.assemble`): installs the handlers, waits on ECBs,
runs the timer. It appears in the models as the steps it makes possible.

**Socket API** (`cms/ncfsockt.c`, the `socketapi` package). State: in the client,
the entry of each socket with its flags and the handles of the requests left with
it; in the outside proxy, the table of socket numbers and the Java sockets.
Operations: the BSD calls, `selectX`, one worker per request outside. Hard: a
non-blocking call or a `select` leaves its request with the socket and a later
call picks up the answer; workers answer in any order; a number is reserved while
an accept waits; either side may lose what the other one has. Correct: bytes
arrive once and in order, a number means the same socket on both sides, a call
gets its own answer, and comes back unless a peer is silent.

**Level-One base services and streams** (`LevelZeroToLevelOneDispatcher.java`,
`cms/ncfbases.c`, `LevelOneFileContent*.java`): services resolved by name, streams
opened by services, read and written in blocks by clients. State: the tables of
streams and the last ids in the dispatcher, position and state of each stream
object, buffer and state of each stream in the client. Operations: the bulk
requests (read, write, close), `ngetstr`, `nread`, `nputstr`, `nwrite`, `nflush`,
`nclose`, `neof`. Hard: lines, blocks and buffers that end at different bytes, a
request that fails halfway, a dispatcher replaced while streams are open.
Correct: bytes arrive once and in order, texts come in lines, the end is seen at
the end, closed streams are forgotten.

**FTP server** (`cms/cmsftpd.c`). State: the list of sessions with their login,
current disk, pending rename and passive socket, the set of sockets to watch, the
open file, the transfer. Operations: the main loop and the FTP commands. It is a
client of the socket API. Hard: one thread serves all sessions and waits within a
transfer and within a command line; clients leave at any moment; packets, lines and records end at different
bytes; sockets are shared between the sessions by number only. Correct: files are
changed only by those who may, transfers are complete, each socket has one owner,
commands are answered, the server ends with its last session.

**Host file services** (`LevelOne*File*.java`, `cms/*nhfs*.c`): built on the
streams. Not modelled.

**7-of-8 encoding** of responses on the 3270 line, and its binary alternative: a
pure algorithm on both sides. The inside proxy decodes in place, in the buffer it
reads from. Correct: what is decoded is what was encoded, wherever a packet ends.

**Code pages, logging, configuration; test and sample programs**: not modelled.

The hazards this code is exposed to are listed in `PROJECT.json`, each at its
line with the properties that would notice it.

## 3. The modules

| module | models | state | actions |
|---|---|---|---|
| `Common` | slots and VMCF messages | - | - |
| `SlotPool` | slots of `ioproxy.c` | `reqFree`, `reqQueue`, their indices, `msgId`, locals of `handleExt` | one per shared access of `handleExt`; one per operation of the device handler |
| `Line` | the DIALed 3270 line (external) | `toOut`, `toIn` | - |
| `IoProxy` | state machine of `ioproxy.c` | `pstate`, `inRecv`, `devBusy` | idle check, transition and SIO of `handleExt`; attention, device end of a write, device end of a read |
| `Connector` | `Dialed3270HostConnector.java`, workers of `CommProxy.java` | its flags, `waiting`, `working`, `phase` | `receiveRecord`, `sendResponse`, the steps of `connect`, loss and restart |
| `Link` | composition of the three | all of them | `Inside`, `Outside` |
| `Codec` | `RequestResponse.transmit` with both encodings; the decoding in `endReceivePacket` | - | operators: `transmit`, `received` |
| `NicofClient` | `nicofclt.c` | buffers, filters, ECB, timer, the client's position | one per API call and per step of a wait; VMCF and timer interrupts |
| `Streams` | NCFIO functions of `ncfbases.c`; stream tables of `LevelZeroToLevelOneDispatcher.java`; `LevelOneFileContentSource.java`, `LevelOneFileContentSink.java` | client: `str`, `op`, `lineEndMode`; dispatcher: tables, last ids; `objs`, the stream objects; `call`, the request under way | one per bulk request; start, requests, loop step and return of each NCFIO function; a refused request, a reconnection |
| `Sockets` | `ncfsockt.c`; `Level0SocketAPIHandler.java`, `InetV4StreamSocketProxy.java`, `InetV4DatagramSocketProxy.java` | client: `sockets`, `requests`, `call`; outside proxy: `table`, `objs`; `wire` between them | start of each call, pick-up of a pending request, return of each call; the steps of `selectX`; lookup of the socket of a request, one worker step per command; a rejected request, a lost connection; the peers |
| `FtpServer` | `cmsftpd.c` | `srvSocket`, `trfSocket`, `clientSocks`, `sessions`, `f`; the command and the transfer it is at; sockets, files and clients (external) | the steps of the main loop; one per FTP command; opening of the data connection, one per record sent or packet received, end of a transfer; the clients |
| `MCSlotPool`, `MCLink`, `MCNicofClient` | - | - | symmetry for TLC; in `MCLink` the assumptions on `Codec` |
| `MCStreams` | - | - | programs for TLC |
| `MCSockets`, `MCFtpServer` | - | - | client programs, scripts of FTP clients and minidisks for TLC |
| `SlotPoolProofs`, `LinkProofs`, `CodecProofs`, `NicofClientProofs`, `SocketsProofs`, `StreamsProofs`, `FtpServerTypeProofs`, `FtpServerProofs` | - | - | theorems |

`SlotPool` is used twice. By itself it is the specification of the slots, with
the rule that the outside proxy answers each transmitted request once. `Link`
builds on its actions and is then shown (`PoolRefined`) to be an implementation
of it, with the steps of `handleExt` that `SlotPool` does not know mapped to
its last one: the rule is a consequence of what the two proxies do.

Abstractions. A message stands for the user name and the user words of a
request; contents of packets are left out in `Link` (`Codec` says how they travel). The locals of `handleExt` are
variables because device interrupts fall between its steps; the device handler
is not interrupted and each of its runs is one action, with its SIO. `overtaken` in `Link` is
history: whether such an interrupt has made the idle check of `handleExt` stale (section 5). A SIO that
meets a busy device is refused, and so is its retry, and the record is lost, as
in `doSIO`. A READ MODIFIED may return several records (`MaxCoalesce`); all but
a want-send behind an ack are dropped, as in `endReceivePacket`. A branch of the
code that reads through a NULL request has no next state in `SlotPool`; in
`IoProxy` it is the state `NULL_REQUEST`. In the client a scan of the list is one step;
`NicofClient` says why. Calls that return an error code change nothing.

`Streams` looks at one client from the level of its requests: a request is
carried out once, or not at all (`refuse`), and `reconnect` takes away the answer
of one that may or may not have been carried out; that is what `Link` and
`NicofClient` say of the levels below. `nread` and `ngetstr` share their actions, as they
share their structure; so do `nwrite` and `nputstr`. An `InputStream` returns blocks of any
length, and both it and an `OutputStream` may fail at any call. What malloc
leaves in `lastLineWasBufferEnd` is a choice. The tables `e2a` and `a2e` of
`nicofclt.c` map LF and CR, and nothing else, to LF and CR.
The variables `passed`, `failed` and `objOf` are history for the properties.

`Sockets` models one client program and its handler, again at the level of requests:
a request is carried out by a worker, rejected on its way, or lost with the
connection, in which case the inside proxy rejects it. Each byte of a connection is
numbered, so that its order can be seen; a datagram is one byte with its sender's
address in front. A blocking call is a start and a return, with everybody else in
between. A program (`Programs`) says which functions it uses; which of them it calls
when, with which buffer and on which socket is open. `Careful` keeps the program
from closing a socket that has a request under way, from mixing stream and
datagram functions, and from making a socket while it has one that was lost with the
connection; what happens without it is in the list of hazards. `objOf`,
`received`, `sent` and `severed` are history for the properties.
The errors of the Java sockets are one. A listening, bound or connected Java socket
is a state of the object; closing it makes the calls that wait on it fail. The part
of `recv` that hands out the rest of an earlier answer (`ncfsockt.c` 668-697) has no
action: it cannot be reached, see section 6.

`FtpServer` takes from `Sockets` what its calls return: `accept`, `send` and `recv`
wait, fail or deliver, and a new socket gets the smallest free number. The steps of
the server between two waits are one action. A path is the sequence of its
components, a record a sequence of bytes in which `BLANK` is the filling; CR LF is
the single byte LF. Reading `disks[-1]` gives any disk and any flag. The option that
makes all disks read-only is a choice of the constant `disks`. Clients
send their next command when the server is done with the last one, connect before
or after the transfer command, and may leave at any time. A command line may come in
parts (`beginCommand`): `getCtlLine` calls `recv` until the CR is there, and has no step as long as
the line is not complete. A line that starts with a line end (an empty one, or one before which
the LF of the last line comes late, since the loop ends with the CR) is a command without a name,
the empty string: `cmdQUIT` ends its session without a reply. A file that fails to be read may be
readable again at the next attempt, or never (`stays`).

A definition named `x_y` with the comment *Slip* is a plausible error in `x`. No
specification uses them; they document what each property is able to notice.

## 4. What is checked

| run | specification and bounds | shows |
|---|---|---|
| `slot_pool` | `PoolSpec`, 5 slots, 5 messages | `PoolTypeOK`, `OneOwner`, `TakenSlotIsFree`, `SlotCarriesPendingMsg`, `NoMessageForgotten`, `RejectOnlyWhenExhausted`; no deadlock |
| `link` | `Spec`, 4 slots, 3 messages, two records in one read, STAT commands, device interrupts between the steps of `handleExt` | `NoDuplicateSlotUsage`, `NoNullTransmit`, `PoolRefined`, `ReplyAnswersItsRequest` |
| `link_restart` | `FairSpec`, 3 slots, 2 messages, one restart | `TypeOK`, `NoDuplicateSlotUsage`, `PoolRefined`, `ReplyAnswersItsRequest` and the liveness properties `RequestLeavesQueue`, `LineComesUp` |
| `client` | `ClientFairSpec`, up to 3 buffers, 3 message ids, 1 tag | `ClientTypeOK`, `PendingIsOutstanding`, `NoLostWakeup`, `WaitEnds` |
| `streams` | `StreamsSpec`, blocks of 2 bytes, all texts of up to 3 characters over x, LF and CR, two platforms, programs of up to three streams, one failure, dispatchers that give out the same ids | `StreamsTypeOK`, `ReadInOrder`, `WrittenInOrder`, `EofAtEnd`, `IdsMatch`, `TextInLines` |
| `sockets` | `SocketsFairSpec`, 2 socket numbers, up to 3 sockets, 3 request buffers, 2 bytes each way, 8 kinds of programs, one failure | `SocketsTypeOK`, `ReceivedInOrder`, `SentInOrder`, `NumbersMatch`, `NoLeakedRequest`, `OwnResponse`, `CallReturns` |
| `ftp` | `FtpFairSpec`, 2 clients, 2 disks, 2 file names, 10 pairs of scripts, packets of 4 bytes, one failure | `FtpTypeOK`, `SocketsMatch`, `StoredInOrder`, `ChangesAllowed`, `DoneIsComplete`, `CommandAnswered`, `ServerEnds` |
| `slot_pool_reset`, `link_reconnect`, `link_stuck`, `streams_stale`, `sockets_partial` | see section 6 | a statement of the source that the code does not keep |

`MCLink` also has two assumptions, which TLC evaluates at the start of each of its
runs: `PacketArrives`, the inside proxy decodes what the outside proxy has encoded, in
both encodings, and `PacketFits`, the 7-of-8 encoding holds no byte that telnet would
escape and the longest packet fits into `recvBuffer`. The packets have 12 bytes in front of their
data and end before, at and behind the ends of the second and the third chunk. Section 5
has the same for every packet.

**Bounds.** One slot is never used by `getSlot` (it stops when its index meets
that of the last freed slot), so 5 slots are 4 usable ones: enough for both
rings to wrap, to be full, and for a message to be turned away, with one slot in
each of the places a slot may be. Messages are interchangeable, hence the
symmetry. A message may be sent again once it is answered, so runs have no
bound on their length. In `link` three usable slots let a response be in the
queue, another with a worker and a third request collide with both; a message that is
answered comes again. Once a device interrupt has overtaken `handleExt` the properties of
the run say only that there was one, and `FewWhenOvertaken` keeps what is explored behind
it small: a NULL request is still transmitted there. One restart
is enough to meet every state of the inside proxy with every state of the line;
a second one starts from the same states. Three message ids let a buffer be
answered, freed and reused while another is outstanding, and a list of three
buffers has a head, a middle and an end.

In `streams` a text of three characters may come in one, two or three blocks, and
caller's buffers of one and two characters are shorter than, as long as and longer
than its lines. Platforms 2 (CR) and 3 (CR LF) are the two cases `ngetstr`
distinguishes. Two streams of three bytes each are enough to mix up ids, buffers or
tables, and each needs two blocks. A dispatcher starts its ids from 12 bits of the
clock, so a later one may give out ids of an earlier one again; in the run both start
from the same id (`FirstIds`), and the third stream may get the id under which the
client still holds one from before the loss of the connection (section 5).
`streams_stale` keeps them apart, as its finding does not need it.

In `sockets` two numbers and three sockets make every number be used again, with the
table full while an accept reserves a number. Three request buffers are the most one
socket has under way (receive, send, and one call) and let a lookup hold one. Two
bytes come in one answer or two, and buffers of one and two bytes are smaller than
and as large as an answer. One failure is a request rejected or the connection lost
at any moment; the program then goes on with sockets that only it still knows.

In `ftp` five socket numbers are too few for two sessions with passive sockets and a
transfer, so running out of them happens. Records of two bytes, text of up to four
and packets cut anywhere give every position of a record's end in a packet. Disk B is
read-only, file y has a type with an override. The scripts cover every command, with
and without a login, and in the orders listed in `MCFtpServer`; one of them uploads to a path
that leads to the root, and ends with a line without a command. Every line may come in two parts.

**Symmetry** is used only where all temporal properties are step properties.

**Deadlock** is checked for `slot_pool`. It is not for the other runs, since the
systems may really stop. On the line with a record dropped by a coalesced read
or a refused SIO nobody retries. In `client`, a wait with a filter and without
a timeout goes on for ever if no pending request has its tag, and the message
ids end. In `streams` the program is finished when its streams are closed. In `sockets` a
program may wait for a silent peer for ever, and in `ftp` the server ends, or all
clients are silent.

**Fairness.** `HandlerFairness` in `Link`: an interrupt that stays pending is
taken, a handler runs to its end, the thread that reads the connection
goes on, a worker finishes its request. The first two are what CP and the
hardware do, the third is a thread of its own in `CommProxy`, the fourth is
an assumption on services. No client is assumed to send anything.
`ClientFairSpec` assumes that the client program runs, a started timer expires
and each message VMCF holds is returned in the end. It does not assume that the
client leaves the API, calls it again or reads its responses. `SocketsFairSpec`
assumes that a call goes on when its answer is there, that the threads of the
outside proxy run and that the link delivers; nothing is assumed of the program
between calls or of the peers. `FtpFairSpec` assumes that the server, one thread,
runs when it can, and that a client that has sent PASV and a transfer command and
stays opens the data connection it has asked for. Clients need not send anything.

**Where liveness is not claimed.** `RequestLeavesQueue` and `LineComesUp` do not
hold with `MaxCoalesce = 2`, as a handshake may be lost. `LineComesUp` does not
hold when a connection is lost while workers are active: a want-send they write
into the start-up dialogue makes the inside proxy reset the line instead of
answering the DIAL.

The server of `ftp` has four states it may never get out of (`Stuck`). It then serves no
session, as it is a single thread:

- it waits in `recv` for the rest of a command line whose client sends only a part
  (`getCtlLine`, `cmsftpd.c` 1746);
- it waits in `accept` for the data connection of a client that has left (769);
- it interprets a path component such as `.x`, which its loop never skips (507);
- it reads a file that cannot be read any more: only the end of the file ends the loop of
  `cmdRETR`, and `readRecord` sends a reply each time (917, 1016).

`CommandAnswered` and `ServerEnds` say that the server does its duty unless it stays in one of these
for good (`[]Stuck`): a client that goes on with its line, or a file that can be
read again, is no excuse. A client whose line was without a command gets no answer (1680, 1825). Its
session ends, and `CommandAnswered` says so (`HungUp`). Without any one of the four, or without
`HungUp`, TLC finds the properties violated. The hazards list all of these.

## 5. What is proved

For every number of slots (at least 2), every set of messages, every number of
buffers, tags and message ids, every number of socket numbers, sockets, streams and
bytes, every set of FTP clients, their scripts, disks and files.

**`SlotPoolProofs`** proves `PoolInvariant`: under `~ResetDuringExt`, `PoolInv` is
an invariant of `PoolSpec`. `PoolInv` is `PoolTypeOK`, `OneOwner` and three
strengthenings. `RingsHoldSlots`: the used part of each ring holds slots, never
NULL. `ExtHoldsSlot`: the locals of `handleExt` agree with the rings between its
steps. `MsgsMatchOwners`: a free slot has no message, a used one has one, and
`handleExt` holds a message no slot has. `OneOwner` alone is not inductive: that a
slot put into a ring does not overwrite another one depends on the ring not
being full, and no operation tests that. The argument is a counting argument
without cardinalities: if a ring were full, the position of each slot in it would be an
injection of all slots into all positions, leaving no slot for the one that is
being added (`NoSlotToSpare`, `RingNotFull`, `QueueNotFull`). From it follow
`PoolTypeCorrect`, `SlotsHaveOneOwner`, `TakenSlotsAreFree`,
`SlotsCarryPendingMsgs` and `NoMessageIsForgotten`. The assumption is necessary:
`slot_pool_reset` shows what happens without it. Two more results need the counts
of the slots. `SlotsAreNeverLost`: every slot is in the free ring, in the queue, transmitted
or held by `handleExt` (`NoSlotLost`). From it
`RejectsOnlyWhenExhausted`: a message is turned away only when all slots but one are in use.

**`LinkProofs`** proves `LinkInvariant`: under `~ResetDuringExt`, `LinkInv` holds of
`Spec` until a device interrupt has overtaken `handleExt` (`[](~overtaken => LinkInv)`), for
every number of slots and messages, of records in one read (`MaxCoalesce`) and of
restarts of the outside proxy, with and without STAT commands, and with device interrupts
between any two steps of `handleExt`. `LinkInv` is `TypeOK`,
`PoolInv` (the invariant of the slots, seen through the mapping of `PoolRefined`) and
two parts.

- `Control`, what is on the line. The handshakes bound the line: while the
  connection is up at most three records are under way from the inside proxy
  and two from the outside proxy, and the state of the transmission state machine
  says which (`WelcomeLine`, `IdleLine`, `PrepLine`, `TransmitLine`, `ReceiveLine`,
  `ResetLine`). A STAT request may be anywhere between them and is not answered, so
  the lines are described without it (`Handshakes`). `SendingHead`: `sending` means that
  the head of the queue of responses is on the line, or that the next record tells of its arrival.
  `Announces`: a request is waiting whenever the line was asked for. While the
  connection is down, neither requests nor responses are anywhere (`LineDown`).
- `OnePlace`, where the transmitted slots are: on the line, with a worker, or in
  the queue of responses, whose head is also on the line; never in two of them,
  and with the message of the slot.

Neither is inductive without the other: which slot the next record carries depends
on the handshakes, and that there is a request to transmit depends on who holds the
slots. There is a lemma per handler for each part. `RefinesStep` shows along the way
that each step of the link is a step of the pool or leaves it alone. From the invariant follow
`NoSlotIsUsedTwice`, `NeverTransmitsNull`, `LinkRefinesPool`, `RepliesAnswerTheirRequests` and, by
the refinement, what is proved of the slots: `LinkForgetsNoMessage`. `LinkTypeCorrect` holds
without any hypothesis, also after `handleExt` was overtaken and after a reset within it. TLC has
checked `~overtaken => LinkInv` on 3 and 4 slots, with device interrupts, two records in one read
and STAT.

`overtaken` is history: it is set by the step in which a device interrupt makes the idle check
of `handleExt` stale, either because the request just enqueued is gone when the handler sees
`IDLE`, or because the state machine leaves the state from which the handler is about to send
its WILL_SEND (`Overtaking`). All other interrupts within `handleExt` are covered by the
theorems. So `NeverTransmitsNull` says that these two are the only ways to a NULL request, however
handshakes collide, are dropped or are refused. The restriction is necessary: without it each of
the four properties is violated, see section 6. The step that overtakes still is a step of the pool.

`~ResetDuringExt` excludes the reset of the slots within `handleExt`; `slot_pool_reset` shows what
it does. `Spec` has no `loseConnection`, which `LossySpec` adds: `link_reconnect` shows what it does.

**`NicofClientProofs`** proves `ClientInvariant`: `ClientInv` is an invariant of
`ClientSpec`, which holds `ClientTypeOK`, `PendingIsOutstanding`, `NoLostWakeup`
and the strengthening `ClientAux`: ids are handed out upwards, so a new one is not
outstanding; a filter is set only while `ncf_037` waits, so a wait for a response
is woken by every response; the request at hand is in the list and is not
outstanding before VMCF has it.

**`CodecProofs`** proves what TLC evaluates for a few packets, for every packet: whatever its
bytes are and for each length of its data up to `MAX_PACKET_LEN`, the inside proxy takes from its
buffer the packet that the outside proxy has put on the line, in both encodings
(`PacketsArrive`); in the text mode each character has seven bits, and the longest packet fits into
`recvBuffer` (`WireIsText`). `Codec` is written with recursive functions along the bytes; as for
the FTP server, what they compute is shown by induction along them. `EncAt` says where the
encoder is: all full chunks are on the line, the one that is begun has its bytes and their
highest bits. `DecAt` says the same of the decoder, which overwrites the buffer that it reads: it
is at byte `8 * j + t` of the buffer when it has stored `7 * j + t` bytes, so what it has not come
to is as it was. Each highest bit is found again by its mask (`BitFound`). For the binary mode
`Taken` says that the telnet connection has passed on the first bytes of the packet and waits for no
second 0xFF. The length that is checked counts two bytes less in front of the data than there are,
which cuts off nothing in either mode (`ParsedPacket`).

**`SocketsProofs`** proves `SocketsInvariant`: if the program is `Careful`, `SocketsInv` is an invariant of `SocketsSpec`, for every number of
socket numbers, request buffers, sockets, bytes and failures, every set of buffer
lengths and of programs that stay within these bounds. `SocketsInv` is the type of
the state and four parts.

- `RequestsOK`, who holds a request. Each buffer in use is held by one socket, for
  receiving or for sending, or by the call under way, and its command, its number and its
  state fit the flags of that socket (`RecvHandleOK`, `SendHandleOK`, `CallOK`). This is
  what makes a worker the only one for its direction of a socket.
- `NumbersOK`, what a number means. The handler's table has the object the client
  means (`TableOK`), also while the number of a new socket is on its way back
  (`NewOK`) and while an accept has reserved one (`WorkersOK`). After a loss of the
  connection the client knows numbers the handler does not; then all of its numbers are
  lost ones, the table is empty and no worker is left (`AllLost`), so none of them can
  meet a new socket.
- `ReadsOK`: what the client has received, followed by the data of the answer on
  its way, is exactly what was read from the peer.
- `SendsOK`: what has gone out is in order, and the send under way is for bytes
  behind it.

`NumbersMatch` is not inductive: that a number the handler gives out is not one
the client still uses depends on requests in flight, in both directions. `ReceivedInOrder`
and `SentInOrder` need the other two parts: two workers for one direction of a socket, or
a worker for another socket under the same number, would mix the bytes. The steps of
the client's calls come first, then those of the handler's threads, the failures and the
peers. From the invariant follow
`SocketsTypes`, `NumbersStayMatched`, `NoRequestLeaks`, `CallsGetOwnResponse`,
`ReceivesInOrder` and `SendsInOrder`. The runs use careful programs, too. With
`Careful = FALSE` TLC finds `NoLeakedRequest` violated by a program that closes a
socket with a request under way; the other five still hold on the bounds of
`sockets`, but not by this invariant. TLC has checked the parts of `SocketsInv` on the
bounds of `sockets`, and partly on larger ones.

**`StreamsProofs`** proves `StreamsInvariant`: `StreamsInv` is an
invariant of `StreamsSpec`, for every block size, set of files and programs, number of
streams, refused requests and lost connections, and whatever ids the dispatchers start
from. `StreamsInv` is the type of the state
(`ValuesOK`, `HandleOK` for the structure behind each handle, `ObjectOK` for each
stream object) and four parts.

- `TablesOK`, the dispatcher's tables: the ids in them are those it has given out, even
  ones for sources and odd ones for sinks, none beyond the last one given, never two for
  one stream object, and no closed object is left in them.
- `IdsOK`, what an id means: an open handle none of whose requests has failed leads to its own
  stream object, and that is in the table. Whatever the id of any open handle
  leads to, it is not the object of another handle none of whose requests has failed. No two
  handles have the same object. While nothing has failed every entry has a handle (`Owned`), but
  for the moment the answer to an open request is on its way (`Opened`).
- `CallOK`, what the function under way has asked for and what the answer brings
  (`OpenOK`, `ReadingOK`, `WritingOK`, `ClosingOK`): a block is asked for only when the
  buffer is read, a block that is sent is the buffer, and the end of the file is
  reported only with all of it read.
- `ReadOK` and `WriteOK`, where the bytes of a stream are: those returned, those the call
  has taken, those in the buffer and those in the answer make up the file as far as it
  is read; those in the file and in the buffer are the ones written.

`ReadInOrder` and `WrittenInOrder` are not inductive: that a block comes from the right
file and joins what was read before needs the id to lead to it (`IdsOK`) and the request to be
the one the buffer was empty for (`CallOK`); that a new id leads nowhere else needs it to be
larger than all in the tables. `EofAtEnd` needs the end of the file, seen by the
stream object, to reach the client with the last block. The proof has one lemma per
action. Steps of the client leave all handles but one alone, steps of the dispatcher
all objects but one. From the invariant follow `StreamsTypes`, `BytesAreReadInOrder`,
`BytesAreWrittenInOrder`, `EofMeansAllRead` and `IdsStayMatched`.

The properties speak of streams none of whose requests has failed (`failed`). All streams
of a client have failed when its connection is lost. Such a handle stays open in the client, and when a
later dispatcher gives its id to a new stream (`sharedWith`), reads, writes and a close by the old
handle go to the new stream's object. The model does this, and counts the handle
that shares its id as failed, too: nothing is promised for a stream whose bytes another one may take.
What is proved is that a collision does no harm to any third stream, and that only handles
held from before a lost connection collide. TLC reaches the collision in the run `streams`:
without `sharedWith`, `ReadInOrder`, `WrittenInOrder`, `EofAtEnd` and `IdsMatch` are violated.

`TextsComeInLines` proves `TextInLines`: the lines `ngetstr` has returned are those the
reference `LinesOf` cuts the text into, wherever blocks and buffers end, for every block
size, text, line end and buffer of two bytes or more. With a shorter buffer `ngetstr`
returns at once, which `StreamPrograms` excludes. The invariant is `TextInv`, beside
`StreamsInv`: `BlocksOK`, what is in the buffer and on its way is the file behind what
is taken, and a block is empty only at the end of the file; `LinesOK`, while a call is at
work the reference, run on what is taken, stands exactly where the call does (the lines
returned, the line begun, whether a line end is to be skipped), and between two calls
nothing is begun unless the end of the file is reached. `LinesOf` is a recursive
function; the lemmas on it say what it makes of no character and of one more (`Cutting`,
`NothingCut` and those behind them), by the least-number principle on sets of naturals.
TLC has checked `TextInv` and the parts of `StreamsInv` on the bounds of `streams`.

**`FtpServerTypeProofs`** proves of `FtpSpec` what the state is and who owns what, for all
clients, scripts, disks, files, sizes and failures.

- `TypesHold`: `TypeInv` is inductive. Next to the types it says what keeps them: a
  record being filled does not exceed its length, the file that is open is the one the
  transfer is about, and the session that is served and those left to look at in a round
  are still there.
- `OwnersHold`: `OwnInv` and `MovingInv`. Each open socket number has one owner, the server, a
  session or the transfer, which opened it for this use; `clientSocks`, `lastSockPlus1` and
  `clientSockCount` agree with the list of sessions, and no client has two. A transfer is the
  one of the command at hand, of a client that is logged in.

From them follow `SocketsAlwaysMatch` and `FtpTypesHold`. `SocketsMatch` counts sockets and is
not inductive: that a number closed with a session was not another's too needs the use of each
number and its client.

**`FtpServerProofs`** proves what a client may rely on.

- `CommandsHold`: each command is worked on once, and it is the last one sent
  (`CommandsInv`). `AuthHold`: login, user name and pending rename of a session are what the
  commands of its client say (`AuthInv`, with `Authorised` and `LastHeard` as functions of the
  commands alone). Hence `OnlyAllowedChanges`: every step satisfies `ChangesAllowed`. The proof of
  this also carries along that an upload under way was allowed when it started (`WriteInv`).
  For a path that leads to the root `cmdSTOR` looks at `disks[-1].readonly`, a value outside of the
  array (`cmsftpd.c` 1061), so such an upload may change a file on a read-only disk.
  `ChangesAllowed` says that nothing else does (`UploadToRoot`). TLC reaches this case in the run `ftp`:
  without the exception the property is violated, by a `STOR` of `../x` on disk B.
- `StoreHolds`: what an upload has put into the file and the record it is filling
  are what was there and what has been received (`StoreInv`); hence `UploadsInOrder`, which is
  `StoredInOrder`. The argument is about `takeBytes`, which cuts a packet
  into records: for all bytes and every LRECL it keeps each byte, in order (`Made`).
- `FetchHolds`: what a client has got of a download, with what is in the buffer, is what has been
  read of the file (`FetchInv`, about `transmitUnits`); hence `TransfersComplete`: a transfer that
  is reported as done is complete (`DoneIsComplete`).

None of the three is inductive by itself: they compare files with commands
sent long before, or with bytes that are still in a buffer. `takeBytes` and `transmitUnits` are
functions over the positions of a sequence. What they compute is proved by induction
over these positions, as the least element of a set of counterexamples (`LeastNat`).

No theorem about the server has a hypothesis. `FtpDataAssumption` says that records have 1 to `PACKETLEN - 1` bytes, as in CMS.

The proof attempts changed models where they were wrong or hard to reason about. The bound on
sockets did not count a `socket` request under way when an accept made a socket
(`RoomForOne`). `ChangesAllowed` took the last RNFR for the one a rename follows; an
RNFR that is refused for want of a login leaves an earlier one pending (`cmsftpd.c` 1545, 1871), hence
`LastHeard`. The test of a login left out what a PASS between USER and PASS does (`Authorised`).

**Only model-checked**: liveness (`RequestLeavesQueue`, `LineComesUp`, `WaitEnds`,
`CallReturns`, `CommandAnswered`, `ServerEnds`), which is out of reach of the installed
provers.

## 6. What the code does differently from its comments

Each is a run that ends with a counterexample.

- `slot_pool_reset` - a reconnection that falls between `getSlot` and
  `enqueueRequest` puts the slot just taken back into the free ring. The same
  buffer is then given to two requests. (`ioproxy.c` 372, 1007)
- `link_reconnect` - the test for a slot not in use (`ioproxy.c` 1104) is never
  true. A response queued before a loss of the connection frees a free slot.
- `link_stuck` - a response enqueued while the last packet awaits its ack is not
  "sent subsequently" (`Dialed3270HostConnector.java` 1124, 875): it waits for
  a later request to set the line in motion; a later response only joins the queue.
- `streams_stale` - a read request that fails without an answer leaves buffer and
  length as they were; `nread` returns the last block once more. (`ncfbases.c` 416)
- `sockets_partial` - a `recv` that takes a part of an answer leaves the rest for the
  next one, which is refused with `EINPROGRESS`, as is every other. It takes a
  `select` before it, which asks for more bytes than the program. (`ncfsockt.c` 659, 732, 754)

The first depends on a device interrupt within the external handler, which the
comment at `ioproxy.c` 848 says may happen. Such an interrupt also makes the idle check of
`handleExt` (525) stale: the request is announced twice and an ack transmits a NULL request (862).
The runs `slot_pool` and `link` have these interrupts, and `link` reaches the NULL request; no
document says that it cannot, so there is no run for it. Without `overtaken` in
`NoNullTransmit` TLC needs 29 states on 3 slots with 2 messages: between
`enqueueRequest` and the idle check device interrupts announce the request, transmit it and take the
ack for it; `handleExt` then sees `IDLE` and sends a WILL_SEND with an empty queue. Its WILL_SEND
may also come after that of a device interrupt, or in an exchange under way. It then makes the outside proxy
forget that it is sending the head of its queue, which comes again: `PoolRefined` is violated
after 61 states, `ReplyAnswersItsRequest` after 114 and `NoDuplicateSlotUsage` after 117, if
they do not leave out what follows an overtaken `handleExt`. The liveness run `link_restart` keeps
`handleExt` in one piece (`DevInterruptsExt = FALSE`).

Two more deviations are in the list of hazards: a `select` without a timeout that returns without
activity (`ncfsockt.c` 1211), and `nicofclt_waitForAnyAvailable`, which without a filter returns a
request that has no response (`nicofclt.c` 353).

## 7. Plan

In this order, most important first.

1. Done: slots, line, both proxies, client API, bulk streams, sockets, FTP server,
   encoding of packets;
   proofs of the safety of the slots, the link, the client, the sockets, the bulk streams
   and the FTP server, and of the encoding.
2. `Streams`, continued: an abstract specification of a stream (bytes arrive in
   order, once, until end of file) and the block protocol as an implementation of it; two
   requests to one stream at a time.
3. `RequestFlow`: an abstract specification of the request path (a request is
   answered at most once, by its own response or a reject), implemented by the
   client and the link together.
4. Host file services; programs that are not `Careful`.

## 8. What is not modelled

- Combined status: an interrupt with attention and device end in one CSW
  (`ioproxy.c` 1161). The modelled device reports one condition at a time.
- The commands of the proxy's console and users other than their effect on the
  state machine; the service hours and authorisation of users.
- The text of 3270 screens in the start-up dialogue: it appears by what it is
  recognised as. Time-outs of that dialogue are choices.
- Wrap-around of client message ids after 2^32 requests: the model stops before.
- Of the streams: resolution of services by name, environment and count requests
  (they change no state, but for the line end mode the client keeps), buffers of
  less than two bytes given to `ngetstr`, the texts of error messages.
- Of the sockets: addresses and ports, options of the functions, `MSG_` flags,
  lengths beyond 2048, the conversion of addresses.
- Of the FTP server: options of the program and configuration, the splitting of a command line
  into command and parameter, lines that do not fit into the buffer of 1400 bytes,
  commands sent before the last one is answered, the
  layout of listings, date and size of files, the texts of replies (their codes are
  there where a property needs them).
- Host file services: programs and services that read and write streams one after
  the other; what can go wrong in the streams is in `Streams`.
- Everything in the plan after its first item.

## 9. How to run

In this directory, `tlc -config <file>.cfg <module>` for the pairs named in
`PROJECT.json`, and `tlapm <module>.tla` for the eight modules whose names end in `Proofs`.
`FtpServerTypeProofs`, `FtpServerProofs`, `SocketsProofs` and `StreamsProofs` take the longest,
about ten minutes each; the others take one to five minutes.
