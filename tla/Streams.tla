------------------------------ MODULE Streams -------------------------------
(***************************************************************************)
(* Bulk streams: the NCFIO functions of a client program (cms/ncfbases.c)  *)
(* on streams that a Level-One service has opened in the outside proxy     *)
(* (LevelZeroToLevelOneDispatcher.java, LevelOneFileContentSource.java,    *)
(* LevelOneFileContentSink.java).                                          *)
(*                                                                         *)
(* The client program is one thread and waits for the answer to each of    *)
(* its requests.  A request may fail before it reaches the outside proxy,  *)
(* and a lost connection may take away its answer after it was carried     *)
(* out.  Everything is a sequence of bytes.  Texts are translated between  *)
(* ASCII and EBCDIC byte by byte; only LF and CR become LF and CR, and of  *)
(* the bytes of a text nothing else matters.                               *)
(***************************************************************************)
EXTENDS Integers, Sequences, Functions

CONSTANTS
  STREAM_BUFFER_LEN, \* bytes in a block (2048)
  Programs,          \* client programs: the streams each opens, in order
  LF, CR,
  Platforms,         \* line end modes of the outside proxy's platform
  FirstIds,          \* the id each dispatcher starts from, for sources
  MaxStreams,        \* bound: streams a program opens
  MaxReads,          \* bound: lines read from one stream
  MaxWritten,        \* bound: bytes written to one stream
  MaxFailures        \* bound: requests refused and connections lost

ASSUME StreamBounds ==
  /\ STREAM_BUFFER_LEN \in Nat \ {0}
  /\ FirstIds \in Seq(Nat) /\ FirstIds # <<>>
  /\ \A i \in DOMAIN FirstIds : FirstIds[i] % 2 = 0
  /\ {MaxStreams, MaxReads, MaxWritten, MaxFailures} \subseteq Nat
  /\ Platforms \subseteq 0 .. 3

\* ngetstr returns at once, without a look at the stream, if the buffer it
\* gets has less than two bytes: programs do not call it so.
ASSUME StreamPrograms ==
  \A p \in Programs :
    /\ p \in Seq(Range(p)) /\ Len(p) <= MaxStreams
    /\ \A s \in Range(p) :
         /\ {s.isSource, s.isText} \subseteq BOOLEAN
         /\ s.isSource => s.content \in Seq(Range(s.content))
         /\ s.isSource /\ s.isText => s.keepNL \in BOOLEAN /\ s.len \in Nat /\ s.len >= 2

VARIABLES
  program,          \* the streams it opens: source or sink, text or not;
                    \* of a source the content and how it is read
  str,              \* handle -> the BULKSTREAM structure behind it
  opened,           \* handles given out so far
  op,               \* the NCFIO function that is being executed
  lineEndMode,      \* of the platform; -1 until a text stream is opened
  call,             \* the request that is under way
  bulkSources,      \* id -> stream object
  bulkSinks,
  lastBulkSourceId,
  lastBulkSinkId,
  objs,             \* the stream objects, in the order of their creation
  dispatcher,       \* which dispatcher of this client it is
  failures,
  failed,           \* handles with a request that failed, a write error, or
                    \* the id of another open handle
  passed,           \* handle -> the bytes its calls have returned or were
                    \* given; of a text that is read, the lines
  objOf             \* handle -> its stream object, 0 if none

managerVars == <<bulkSources, bulkSinks, lastBulkSourceId, lastBulkSinkId>>
remoteVars  == <<managerVars, objs, dispatcher>>
clientVars  == <<program, str, opened, op, lineEndMode, passed, objOf>>
streamVars  == <<clientVars, call, remoteVars, failures, failed>>

Handles == 1 .. MaxStreams

STATE_OK           == 0
STATE_CLOSED       == -1 \* of a source and of a sink
STATE_SOURCE_ENDED == -2
STATE_ERROR        == -3 \* READ_ERROR of a source, WRITE_ERROR of a sink

NoStream == [open |-> FALSE] \* not yet created, or freed by nclose
NoOp     == [fn |-> "none"]
NoCall   == [state |-> "none"]

Answer(rc, word2, data) ==
  [state |-> "answered", rc |-> rc, word2 |-> word2, data |-> data]

(* LevelOneProtErrResult: second user word and length are 0.               *)
ProtErr == Answer("invalid", 0, <<>>)

(* The client gets a return code and nothing else.                         *)
NoAnswer == [state |-> "answered", rc |-> "failed"]

StreamsInit ==
  /\ program \in Programs
  /\ str = [h \in Handles |-> NoStream]
  /\ opened = 0
  /\ op = NoOp
  /\ lineEndMode = -1
  /\ call = NoCall
  /\ bulkSources = <<>>
  /\ bulkSinks = <<>>
  /\ lastBulkSourceId = FirstIds[1]
  /\ lastBulkSinkId = FirstIds[1] + 1
  /\ objs = <<>>
  /\ dispatcher = 1
  /\ failures = 0
  /\ failed = {}
  /\ passed = [h \in Handles |-> <<>>]
  /\ objOf = [h \in Handles |-> 0]

-----------------------------------------------------------------------------
(* The dispatcher and the stream objects: one action per request.          *)

Put(f, k, v)  == [i \in DOMAIN f \cup {k} |-> IF i = k THEN v ELSE f[i]]
Drop(f, k)    == [i \in DOMAIN f \ {k} |-> f[i]]

Asked(cmd) == call.state = "sent" /\ call.cmd = cmd

remoteStep(answer) ==
  /\ call' = answer
  /\ UNCHANGED <<clientVars, dispatcher, failures>>

(* A service has returned a stream object, LevelOneRunnable.run registers  *)
(* it with addStream.  The ids of a dispatcher start from 12 bits of the   *)
(* clock, so the new one may be that of a stream the client has kept open  *)
(* since before the connection was lost.                                   *)
sharedWith(id) == {op.h : h \in {k \in Handles : str[k].open /\ str[k].streamId = id}}

addSource ==
  /\ Asked("OPEN_SOURCE")
  /\ objs' = Append(objs, [content |-> call.data, pos |-> 0, state |-> STATE_OK])
  /\ lastBulkSourceId' = lastBulkSourceId + 2
  /\ bulkSources' = Put(bulkSources, lastBulkSourceId', Len(objs'))
  /\ remoteStep(Answer("new", lastBulkSourceId', <<>>))
  /\ failed' = failed \cup sharedWith(lastBulkSourceId')
  /\ UNCHANGED <<bulkSinks, lastBulkSinkId>>

addSink ==
  /\ Asked("OPEN_SINK")
  /\ objs' = Append(objs, [content |-> <<>>, pos |-> 0, state |-> STATE_OK])
  /\ lastBulkSinkId' = lastBulkSinkId + 2
  /\ bulkSinks' = Put(bulkSinks, lastBulkSinkId', Len(objs'))
  /\ remoteStep(Answer("new", lastBulkSinkId', <<>>))
  /\ failed' = failed \cup sharedWith(lastBulkSinkId')
  /\ UNCHANGED <<bulkSources, lastBulkSourceId>>

(* getSourceStream, getSinkStream find nothing.                            *)
invalidStream ==
  /\ \/ call.state = "sent" /\ call.cmd \in {"BULKSRC_READ", "BULKSRC_CLOSE"}
        /\ call.id \notin DOMAIN bulkSources
     \/ call.state = "sent" /\ call.cmd \in {"BULKSINK_WRITE", "BULKSINK_CLOSE"}
        /\ call.id \notin DOMAIN bulkSinks
  /\ remoteStep(ProtErr)
  /\ UNCHANGED <<managerVars, objs, failed>>

(* Slip: the end is reported with bytes left.                              *)
AtEnd_early(o) == o.pos + 1 >= Len(o.content)

AtEnd(o) == o.pos = Len(o.content)

(* A stream object that has ended or failed stays as it is.  Else an       *)
(* InputStream gives some of the bytes, its end once there are no more, or *)
(* an error at any time ...                                                *)
nextBlocks(o) ==
  IF o.state # STATE_OK THEN {o}
  ELSE {[o EXCEPT !.pos = o.pos + n] :
          n \in {k \in 1 .. STREAM_BUFFER_LEN : o.pos + k <= Len(o.content)}}
       \cup {[o EXCEPT !.state = STATE_ERROR]}
       \cup (IF AtEnd(o) THEN {[o EXCEPT !.state = STATE_SOURCE_ENDED]} ELSE {})

getNextBlock ==
  /\ Asked("BULKSRC_READ")
  /\ call.id \in DOMAIN bulkSources
  /\ LET i == bulkSources[call.id]
         o == objs[i]
     IN \E after \in nextBlocks(o) :
          /\ objs' = [objs EXCEPT ![i] = after]
          /\ remoteStep(Answer("ok", after.state,
                               SubSeq(o.content, o.pos + 1, after.pos)))
  /\ UNCHANGED <<managerVars, failed>>

(* ... and an OutputStream takes the block or fails.                       *)
afterBlock(o, block) ==
  IF o.state # STATE_OK THEN {o}
  ELSE {[o EXCEPT !.content = o.content \o block], [o EXCEPT !.state = STATE_ERROR]}

putBlock ==
  /\ Asked("BULKSINK_WRITE")
  /\ call.id \in DOMAIN bulkSinks
  /\ LET i == bulkSinks[call.id]
     IN \E after \in afterBlock(objs[i], call.data) :
          /\ objs' = [objs EXCEPT ![i] = after]
          /\ failed' = IF after.state = STATE_OK THEN failed ELSE failed \cup {op.h}
          /\ remoteStep(Answer("ok", after.state, <<>>))
  /\ UNCHANGED managerVars

(* Slip: sources and sinks mixed up.                                       *)
removeStream_swapped(id) ==
  /\ bulkSources' = IF id % 2 = 1 THEN Drop(bulkSources, id) ELSE bulkSources
  /\ bulkSinks' = IF id % 2 = 1 THEN bulkSinks ELSE Drop(bulkSinks, id)

removeStream(id) ==
  /\ bulkSources' = IF id % 2 = 0 THEN Drop(bulkSources, id) ELSE bulkSources
  /\ bulkSinks' = IF id % 2 = 0 THEN bulkSinks ELSE Drop(bulkSinks, id)

closeStream(cmd, table) ==
  /\ Asked(cmd)
  /\ call.id \in DOMAIN table
  /\ objs' = [objs EXCEPT ![table[call.id]].state = STATE_CLOSED]
  /\ removeStream(call.id)
  /\ remoteStep(Answer("ok", STATE_CLOSED, <<>>))
  /\ UNCHANGED <<lastBulkSourceId, lastBulkSinkId, failed>>

closeSource == closeStream("BULKSRC_CLOSE", bulkSources)
closeSink   == closeStream("BULKSINK_CLOSE", bulkSinks)

Serve ==
  \/ addSource
  \/ addSink
  \/ invalidStream
  \/ getNextBlock
  \/ putBlock
  \/ closeSource
  \/ closeSink

(* VMCF or the inside proxy refuses the request, for want of a slot, say.  *)
refuse ==
  /\ call.state = "sent"
  /\ failures < MaxFailures
  /\ failures' = failures + 1
  /\ call' = NoAnswer
  /\ failed' = failed \cup {op.h}
  /\ UNCHANGED <<clientVars, remoteVars>>

(* The connection is lost: CommProxy.run forgets the dispatcher and starts *)
(* another one, and the inside proxy rejects what is not yet answered.     *)
reconnect ==
  /\ dispatcher < Len(FirstIds)
  /\ failures < MaxFailures
  /\ failures' = failures + 1
  /\ dispatcher' = dispatcher + 1
  /\ bulkSources' = <<>>
  /\ bulkSinks' = <<>>
  /\ lastBulkSourceId' = FirstIds[dispatcher']
  /\ lastBulkSinkId' = FirstIds[dispatcher'] + 1
  /\ call' = IF call = NoCall THEN NoCall ELSE NoAnswer
  /\ failed' = 1 .. opened
  /\ UNCHANGED <<clientVars, objs>>

-----------------------------------------------------------------------------
(* The client.                                                             *)

Idle == op = NoOp

(* ncfbasesvc_invoke_sync: the request ...                                 *)
invoke(cmd, id, data) ==
  /\ call = NoCall
  /\ call' = [state |-> "sent", cmd |-> cmd, id |-> id, data |-> data]

(* ... and what is left of it when it returns.                             *)
Returned == call.state = "answered"

localStep == UNCHANGED <<program, remoteVars, failures, failed>>

(* A service is asked for the next stream of the program.                  *)
openStream ==
  /\ Idle
  /\ opened < Len(program)
  /\ opened' = opened + 1
  /\ op' = [fn |-> "open", h |-> opened']
  /\ LET s == program[opened']
     IN IF s.isSource THEN invoke("OPEN_SOURCE", 0, s.content)
                      ELSE invoke("OPEN_SINK", 0, <<>>)
  /\ UNCHANGED <<str, lineEndMode, passed, objOf>>
  /\ localStep

TextSource(h) == program[h].isSource /\ program[h].isText

(* The structure is malloc'ed and lastLineWasBufferEnd not initialised.    *)
(* lineEndMode is asked for with a request of its own; the answer, or the  *)
(* uninitialised word if it fails, is one of the modes.                    *)
ncfbid2s ==
  /\ op.fn = "open"
  /\ Returned
  /\ \/ /\ call.rc = "new"
        /\ \E garbage \in BOOLEAN :
             str' = [str EXCEPT ![op.h] =
               [open |-> TRUE, streamId |-> call.word2,
                isSourceStream |-> program[op.h].isSource,
                lastLineWasBufferEnd |-> TextSource(op.h) /\ garbage,
                streamState |-> STATE_OK, nerr |-> "none",
                buffer |-> <<>>, bufPos |-> 0]]
        /\ IF program[op.h].isText /\ lineEndMode < 0
           THEN lineEndMode' \in Platforms
           ELSE UNCHANGED lineEndMode
        /\ objOf' = [objOf EXCEPT ![op.h] = Len(objs)]
     \/ call.rc # "new" /\ UNCHANGED <<str, lineEndMode, objOf>>
  /\ op' = NoOp
  /\ call' = NoCall
  /\ UNCHANGED <<opened, passed>>
  /\ localStep

(* Reading: nread and ngetstr.                                             *)

Source(h) == str[h].open /\ str[h].isSourceStream
Sink(h)   == str[h].open /\ ~str[h].isSourceStream
BufferRead(h) == str[h].bufPos >= Len(str[h].buffer)

(* No step is taken at the end of the stream: the call returns at once.    *)
startRead(h) ==
  /\ Idle
  /\ Source(h)
  /\ ~(BufferRead(h) /\ str[h].streamState = STATE_SOURCE_ENDED)
  /\ TextSource(h) => Len(passed[h]) < MaxReads
  /\ op' = [fn |-> "read", h |-> h, out |-> <<>>,
            skipLineEnd |-> str[h].lastLineWasBufferEnd]
  /\ str' = [str EXCEPT ![h].nerr = "none", ![h].lastLineWasBufferEnd = FALSE]
  /\ UNCHANGED <<opened, lineEndMode, call, passed, objOf>>
  /\ localStep

limit(h) == IF program[h].isText THEN program[h].len - 1 ELSE program[h].len

keepNL == program[op.h].keepNL

(* Slip: the LF of a line of the buffer's length counts as cut off.        *)
return_full(s, out) ==
  /\ op' = NoOp
  /\ str' = [str EXCEPT ![op.h] = [s EXCEPT !.lastLineWasBufferEnd =
                TextSource(op.h) /\ Len(out) = limit(op.h)]]
  /\ passed' = [passed EXCEPT ![op.h] = IF TextSource(op.h) THEN Append(@, out) ELSE @ \o out]

return(s, out) ==
  /\ op' = NoOp
  /\ str' = [str EXCEPT ![op.h] = [s EXCEPT !.lastLineWasBufferEnd =
                TextSource(op.h) /\ ~keepNL /\ Len(out) = limit(op.h)]]
  /\ passed' = [passed EXCEPT ![op.h] = IF TextSource(op.h) THEN Append(@, out) ELSE @ \o out]

continue(s, out, skip) ==
  /\ op' = [op EXCEPT !.out = out, !.skipLineEnd = skip]
  /\ str' = [str EXCEPT ![op.h] = s]
  /\ UNCHANGED passed

lineEnd == IF lineEndMode = 2 THEN CR ELSE LF

takeByte ==
  /\ op.fn = "read"
  /\ call = NoCall
  /\ Len(op.out) < limit(op.h)
  /\ ~BufferRead(op.h)
  /\ LET s == [str[op.h] EXCEPT !.bufPos = @ + 1]
         c == s.buffer[s.bufPos]
     IN \/ ~TextSource(op.h) /\ continue(s, Append(op.out, c), FALSE)
        \/ /\ TextSource(op.h)
           /\ \/ c = lineEnd /\ op.skipLineEnd /\ continue(s, op.out, FALSE)
              \/ c = lineEnd /\ ~op.skipLineEnd
                 /\ return(s, IF keepNL THEN Append(op.out, LF) ELSE op.out)
              \/ c \in {LF, CR} \ {lineEnd} /\ continue(s, op.out, op.skipLineEnd)
              \/ c \notin {LF, CR} /\ continue(s, Append(op.out, c), FALSE)
  /\ UNCHANGED <<opened, lineEndMode, call, objOf>>
  /\ localStep

needBlock ==
  /\ op.fn = "read"
  /\ Len(op.out) < limit(op.h)
  /\ BufferRead(op.h)
  /\ str[op.h].streamState = STATE_OK
  /\ invoke("BULKSRC_READ", str[op.h].streamId, <<>>)
  /\ UNCHANGED clientVars
  /\ localStep

(* Slip: reading goes on where the last block ended.                       *)
afterRead_keepsPos ==
  LET s == str[op.h]
  IN IF call.rc = "failed"
     THEN [s EXCEPT !.nerr = "comm"]
     ELSE [s EXCEPT !.buffer = call.data,
                    !.bufPos = IF @ <= Len(call.data) THEN @ ELSE 0,
                    !.streamState = call.word2,
                    !.nerr = IF call.rc = "ok" THEN @ ELSE "comm"]

(* Without an answer the buffer is what it was.                            *)
afterRead ==
  LET s == str[op.h]
  IN IF call.rc = "failed"
     THEN [s EXCEPT !.bufPos = 0, !.nerr = "comm"]
     ELSE [s EXCEPT !.buffer = call.data, !.bufPos = 0,
                    !.streamState = call.word2,
                    !.nerr = IF call.rc = "ok" THEN @ ELSE "comm"]

(* With no bytes the call returns, ngetstr with NULL at the end.           *)
haveBlock ==
  /\ op.fn = "read"
  /\ Returned
  /\ LET s == afterRead
     IN \/ s.buffer # <<>> /\ continue(s, op.out, op.skipLineEnd)
        \/ /\ s.buffer = <<>>
           /\ IF TextSource(op.h) /\ op.out = <<>> /\ s.streamState # STATE_OK
              THEN /\ str' = [str EXCEPT ![op.h] = s]
                   /\ op' = NoOp
                   /\ UNCHANGED passed
              ELSE return(s, op.out)
  /\ call' = NoCall
  /\ UNCHANGED <<opened, lineEndMode, objOf>>
  /\ localStep

endRead ==
  /\ op.fn = "read"
  /\ call = NoCall
  /\ \/ Len(op.out) = limit(op.h)
     \/ BufferRead(op.h) /\ str[op.h].streamState # STATE_OK
  /\ return(str[op.h], op.out)
  /\ UNCHANGED <<opened, lineEndMode, call, objOf>>
  /\ localStep

(* Writing: nwrite and nputstr.                                            *)

Newline ==
  CASE lineEndMode = 1 -> <<LF>>
    [] lineEndMode = 2 -> <<CR>>
    [] lineEndMode = 3 -> <<CR, LF>>
    [] OTHER           -> <<LF, CR>>

clientStep ==
  /\ UNCHANGED <<opened, lineEndMode, objOf>>
  /\ localStep

(* What the program writes next, so that no two bytes are the same.        *)
Bytes(h, n) == [i \in 1 .. n |-> Len(passed[h]) + i]

(* With an error pending the call returns at once.                         *)
startWrite(h, n, appendNewline) ==
  /\ Idle
  /\ Sink(h)
  /\ str[h].nerr = "none"
  /\ str[h].streamState = STATE_OK
  /\ LET data == Bytes(h, n) \o (IF appendNewline THEN Newline ELSE <<>>)
     IN /\ Len(passed[h]) + Len(data) <= MaxWritten
        /\ op' = [fn |-> "write", h |-> h, rest |-> data]
  /\ UNCHANGED <<str, call, passed>>
  /\ clientStep

(* Slip: the full buffer takes one byte more.                              *)
putByte_late ==
  /\ op.fn = "write"
  /\ call = NoCall
  /\ op.rest # <<>>
  /\ str[op.h].streamState = STATE_OK
  /\ Len(str[op.h].buffer) <= STREAM_BUFFER_LEN
  /\ str' = [str EXCEPT ![op.h].buffer = Append(@, Head(op.rest))]
  /\ op' = [op EXCEPT !.rest = Tail(@)]
  /\ passed' = [passed EXCEPT ![op.h] = Append(@, Head(op.rest))]
  /\ UNCHANGED call
  /\ clientStep

putByte ==
  /\ op.fn = "write"
  /\ call = NoCall
  /\ op.rest # <<>>
  /\ str[op.h].streamState = STATE_OK
  /\ Len(str[op.h].buffer) < STREAM_BUFFER_LEN
  /\ str' = [str EXCEPT ![op.h].buffer = Append(@, Head(op.rest))]
  /\ op' = [op EXCEPT !.rest = Tail(@)]
  /\ passed' = [passed EXCEPT ![op.h] = Append(@, Head(op.rest))]
  /\ UNCHANGED call
  /\ clientStep

nflush(h) ==
  /\ Idle
  /\ Sink(h)
  /\ str[h].nerr = "none"
  /\ str[h].streamState = STATE_OK
  /\ op' = [fn |-> "flush", h |-> h]
  /\ UNCHANGED <<str, call, passed>>
  /\ clientStep

nflush_inner ==
  /\ \/ op.fn = "write" /\ Len(str[op.h].buffer) = STREAM_BUFFER_LEN
     \/ op.fn \in {"flush", "close"} /\ Sink(op.h) /\ str[op.h].buffer # <<>>
  /\ invoke("BULKSINK_WRITE", str[op.h].streamId, str[op.h].buffer)
  /\ UNCHANGED <<str, op, passed>>
  /\ clientStep

(* The buffer is empty now, whatever became of its contents.               *)
flushed ==
  /\ op.fn \in {"write", "flush", "close"}
  /\ Returned
  /\ str' = [str EXCEPT
       ![op.h].buffer = <<>>,
       ![op.h].streamState = IF call.rc = "failed" THEN @ ELSE call.word2,
       ![op.h].nerr = IF call.rc = "ok" THEN @ ELSE "comm"]
  /\ call' = NoCall
  /\ UNCHANGED <<op, passed>>
  /\ clientStep

endWrite ==
  /\ call = NoCall
  /\ \/ /\ op.fn = "write"
        /\ Len(str[op.h].buffer) < STREAM_BUFFER_LEN
        /\ op.rest = <<>> \/ str[op.h].streamState # STATE_OK
     \/ op.fn = "flush" /\ str[op.h].buffer = <<>>
  /\ op' = NoOp
  /\ UNCHANGED <<str, call, passed>>
  /\ clientStep

nclose(h) ==
  /\ Idle
  /\ str[h].open
  /\ str[h].streamState # STATE_CLOSED
  /\ op' = [fn |-> "close", h |-> h]
  /\ UNCHANGED <<str, call, passed>>
  /\ clientStep

(* Slip: the stream is closed before the buffer is written.                *)
sendClose_early ==
  /\ op.fn = "close"
  /\ invoke(IF Source(op.h) THEN "BULKSRC_CLOSE" ELSE "BULKSINK_CLOSE",
            str[op.h].streamId, <<>>)
  /\ op' = [op EXCEPT !.fn = "closing"]
  /\ UNCHANGED <<str, passed>>
  /\ clientStep

sendClose ==
  /\ op.fn = "close"
  /\ Source(op.h) \/ str[op.h].buffer = <<>>
  /\ invoke(IF Source(op.h) THEN "BULKSRC_CLOSE" ELSE "BULKSINK_CLOSE",
            str[op.h].streamId, <<>>)
  /\ op' = [op EXCEPT !.fn = "closing"]
  /\ UNCHANGED <<str, passed>>
  /\ clientStep

closed ==
  /\ op.fn = "closing"
  /\ Returned
  /\ str' = [str EXCEPT ![op.h] = NoStream]
  /\ op' = NoOp
  /\ call' = NoCall
  /\ UNCHANGED passed
  /\ clientStep

(* A function that reads is called for a sink.  The other way round only   *)
(* nerror would tell, up to the next read.                                 *)
misuse(h) ==
  /\ Idle
  /\ Sink(h)
  /\ str' = [str EXCEPT ![h].nerr = "misuse"]
  /\ UNCHANGED <<op, call, passed>>
  /\ clientStep

neof(h) ==
  /\ Source(h)
  /\ BufferRead(h)
  /\ str[h].streamState \in {STATE_SOURCE_ENDED, STATE_CLOSED}

-----------------------------------------------------------------------------
Begin ==
  \/ openStream
  \/ \E h \in 1 .. opened :
       \/ startRead(h)
       \/ \E n \in 1 .. MaxWritten : startWrite(h, n, FALSE)
       \/ \E n \in 0 .. MaxWritten : program[h].isText /\ startWrite(h, n, TRUE)
       \/ nflush(h)
       \/ nclose(h)
       \/ misuse(h)

Proceed ==
  \/ ncfbid2s
  \/ takeByte
  \/ needBlock
  \/ haveBlock
  \/ endRead
  \/ putByte
  \/ nflush_inner
  \/ flushed
  \/ endWrite
  \/ sendClose
  \/ closed

StreamsNext == Begin \/ Proceed \/ Serve \/ refuse \/ reconnect

StreamsSpec == StreamsInit /\ [][StreamsNext]_streamVars

-----------------------------------------------------------------------------
(* Stream ids lead to stream objects, buffers are not larger than a block, *)
(* positions are within the buffer and the file.                           *)
StreamsTypeOK ==
  /\ opened \in 0 .. Len(program)
  /\ op.fn \in {"none", "open", "read", "write", "flush", "close", "closing"}
  /\ op # NoOp => op.h \in 1 .. opened
  /\ lineEndMode \in {-1} \cup Platforms
  /\ call.state \in {"none", "sent", "answered"}
  /\ \A i \in DOMAIN bulkSources : i % 2 = 0 /\ bulkSources[i] \in DOMAIN objs
  /\ \A i \in DOMAIN bulkSinks : i % 2 = 1 /\ bulkSinks[i] \in DOMAIN objs
  /\ \A i \in DOMAIN objs : objs[i].pos \in 0 .. Len(objs[i].content)
  /\ \A h \in Handles : str[h].open =>
       /\ objOf[h] \in DOMAIN objs
       /\ Len(str[h].buffer) <= STREAM_BUFFER_LEN
       /\ str[h].bufPos \in 0 .. Len(str[h].buffer)

Busy(fns, h) == op.fn \in fns /\ op.h = h
Content(h) == objs[objOf[h]].content

(* What is on its way from the file to the caller of a function.           *)
Unread(h) == SubSeq(str[h].buffer, str[h].bufPos + 1, Len(str[h].buffer))
Underway(h) ==
  (IF Busy({"read"}, h) THEN op.out ELSE <<>>) \o Unread(h)
    \o (IF Busy({"read"}, h) /\ Returned THEN call.data ELSE <<>>)

(* nread on a stream none of whose requests has failed: what its calls     *)
(* have returned, what is in the buffer and what is on the way is the file *)
(* up to where the outside proxy has read it.  Nothing is lost, doubled or *)
(* taken from another stream, however the file comes in blocks.            *)
ReadInOrder ==
  \A h \in Handles \ failed :
    str[h].open /\ str[h].isSourceStream /\ ~TextSource(h) =>
      passed[h] \o Underway(h) = SubSeq(Content(h), 1, objs[objOf[h]].pos)

(* nwrite, nputstr, nflush and nclose likewise: the file and the bytes in  *)
(* the buffer are what was written; after nclose it is all in the file.    *)
WrittenInOrder ==
  \A h \in Handles \ failed :
    objOf[h] # 0 /\ ~program[h].isSource =>
      passed[h] = IF str[h].open /\ ~(Busy({"write", "flush", "close"}, h) /\ Returned)
                  THEN Content(h) \o str[h].buffer
                  ELSE Content(h)

AllRead(h) == objs[objOf[h]].pos = Len(Content(h))

(* neof is true only when all of the file has been given to the caller.    *)
EofAtEnd ==
  \A h \in Handles \ failed :
    neof(h) /\ Idle =>
      /\ AllRead(h)
      /\ ~TextSource(h) => passed[h] = Content(h)

Table(h) == IF program[h].isSource THEN bulkSources ELSE bulkSinks

(* A stream id of the client leads to the stream it was given for as long  *)
(* as no request has failed, and the outside proxy keeps no stream that    *)
(* the client has closed.                                                  *)
IdsMatch ==
  /\ \A h \in Handles \ failed :
       str[h].open /\ ~(Busy({"closing"}, h) /\ Returned) =>
         /\ str[h].streamId \in DOMAIN Table(h)
         /\ Table(h)[str[h].streamId] = objOf[h]
  /\ failures = 0 =>
       \A t \in {bulkSources, bulkSinks} : \A i \in DOMAIN t :
         \/ \E h \in Handles : str[h].open /\ objOf[h] = t[i]
         \/ op.fn = "open" /\ Returned /\ t[i] = Len(objs)

(* nread: what a program reads is the beginning of the file, also if some  *)
(* of its calls have failed.                                               *)
ReadIsPrefix ==
  \A h \in Handles :
    objOf[h] # 0 /\ program[h].isSource /\ ~TextSource(h) =>
      passed[h] = SubSeq(Content(h), 1, Len(passed[h]))

-----------------------------------------------------------------------------
(* The reference for ngetstr: the lines of a text, without regard to the   *)
(* blocks it comes in.                                                     *)

(* One more character of a text.  The other of LF and CR is ignored.  With *)
(* its line end a line is cut after the LF or when the buffer is full;     *)
(* without, the line end behind a line that fills the buffer is no line of *)
(* its own.                                                                *)
AddToLines(s, end, acc, c) ==
  LET cur  == IF c # end THEN Append(acc.cur, c)
              ELSE IF s.keepNL THEN Append(acc.cur, LF) ELSE acc.cur
      full == Len(cur) = s.len - 1
  IN IF c \in {LF, CR} \ {end} THEN acc
     ELSE IF c = end /\ acc.skip THEN [lines |-> acc.lines, cur |-> acc.cur, skip |-> FALSE]
     ELSE IF c = end \/ full
     THEN [lines |-> Append(acc.lines, cur), cur |-> <<>>, skip |-> c # end /\ ~s.keepNL]
     ELSE [lines |-> acc.lines, cur |-> cur, skip |-> FALSE]

LinesOf(s, end, text, skip) ==
  LET acc[i \in 0 .. Len(text)] ==
        IF i = 0 THEN [lines |-> <<>>, cur |-> <<>>, skip |-> skip]
        ELSE AddToLines(s, end, acc[i - 1], text[i])
  IN acc[Len(text)]

AllLines(r) == IF r.cur = <<>> THEN r.lines ELSE Append(r.lines, r.cur)

(* What the calls have taken of the file, but for what is in the buffer.   *)
Taken(h) == SubSeq(Content(h), 1, objs[objOf[h]].pos - Len(Unread(h)))

(* ngetstr between two calls, on a stream none of whose requests has       *)
(* failed: the lines returned are those of the text taken so far, wherever *)
(* the blocks and the buffers end.  The first line end is skipped if       *)
(* lastLineWasBufferEnd, which is not initialised, happens to be true.     *)
TextInLines ==
  \A h \in Handles \ failed :
    /\ str[h].open /\ TextSource(h) /\ Idle
    /\ objs[objOf[h]].state # STATE_ERROR
    => \E skip \in BOOLEAN :
         passed[h] = AllLines(LinesOf(program[h], lineEnd, Taken(h), skip))

-----------------------------------------------------------------------------
(* The inductive invariant.                                                *)

(* What is read is in the file of a source, what is written is counted.    *)
Byte ==
  Nat \cup {LF, CR}
    \cup UNION {Range(s.content) : s \in {r \in UNION {Range(p) : p \in Programs} : r.isSource}}

States == {STATE_OK, STATE_CLOSED, STATE_SOURCE_ENDED, STATE_ERROR}

Structures ==
  [open : {TRUE}, streamId : Nat, isSourceStream : BOOLEAN, lastLineWasBufferEnd : BOOLEAN,
   streamState : States, nerr : {"none", "comm", "misuse"}, buffer : Seq(Byte), bufPos : Nat]

Ops ==
  {NoOp}
    \cup [fn : {"open", "flush", "close", "closing"}, h : Handles]
    \cup [fn : {"read"}, h : Handles, out : Seq(Byte), skipLineEnd : BOOLEAN]
    \cup [fn : {"write"}, h : Handles, rest : Seq(Byte)]

Commands ==
  {"OPEN_SOURCE", "OPEN_SINK", "BULKSRC_READ", "BULKSRC_CLOSE", "BULKSINK_WRITE", "BULKSINK_CLOSE"}

Calls ==
  {NoCall, NoAnswer}
    \cup [state : {"sent"}, cmd : Commands, id : Nat, data : Seq(Byte)]
    \cup [state : {"answered"}, rc : {"new", "ok", "invalid"}, word2 : Int, data : Seq(Byte)]

Objects == [content : Seq(Byte), pos : Nat, state : States]

ValuesOK ==
  /\ program \in Programs
  /\ str \in [Handles -> {NoStream} \cup Structures]
  /\ opened \in 0 .. Len(program)
  /\ op \in Ops
  /\ lineEndMode \in {-1} \cup Platforms
  /\ call \in Calls
  /\ objs \in Seq(Objects)
  /\ dispatcher \in DOMAIN FirstIds
  /\ failures \in Nat
  /\ failed \subseteq 1 .. opened
  /\ objOf \in [Handles -> {0} \cup DOMAIN objs]
  /\ passed \in [Handles -> Seq(Byte) \cup Seq(Seq(Byte))]

(* A handle that is not given out yet, and one that is.                    *)
HandleOK(h) ==
  IF h > opened
  THEN ~str[h].open /\ objOf[h] = 0 /\ passed[h] = <<>>
  ELSE /\ IF TextSource(h) THEN passed[h] \in Seq(Seq(Byte)) ELSE passed[h] \in Seq(Byte)
       /\ str[h].open =>
            /\ str[h].isSourceStream = program[h].isSource
            /\ objOf[h] # 0
            /\ str[h].bufPos <= Len(str[h].buffer) /\ Len(str[h].buffer) <= STREAM_BUFFER_LEN
            /\ Sink(h) => str[h].bufPos = 0

ObjectOK(o) ==
  /\ o.pos <= Len(o.content)
  /\ o.state = STATE_SOURCE_ENDED => AtEnd(o)

(* Stream ids.                                                             *)

LastId(h) == IF program[h].isSource THEN lastBulkSourceId ELSE lastBulkSinkId

(* A table holds ids that this dispatcher has given out.                   *)
EntriesOK(table, last, parity) ==
  /\ last \in Nat /\ last % 2 = parity
  /\ \A i \in DOMAIN table :
       /\ i \in Nat /\ i % 2 = parity /\ i <= last
       /\ table[i] \in DOMAIN objs /\ objs[table[i]].state # STATE_CLOSED
  /\ \A i, j \in DOMAIN table : table[i] = table[j] => i = j

TablesOK ==
  /\ EntriesOK(bulkSources, lastBulkSourceId, 0)
  /\ EntriesOK(bulkSinks, lastBulkSinkId, 1)
  /\ \A i \in DOMAIN bulkSources, j \in DOMAIN bulkSinks : bulkSources[i] # bulkSinks[j]

(* What the dispatcher takes the id of a handle for: its stream, or one    *)
(* that no handle relies on.                                               *)
IdOK(h) ==
  str[h].open =>
    /\ h \notin failed \/ failures = 0 =>
         \/ str[h].streamId \in DOMAIN Table(h) /\ Table(h)[str[h].streamId] = objOf[h]
         \/ Busy({"closing"}, h) /\ Returned
    /\ str[h].streamId \in DOMAIN Table(h) =>
         \A k \in Handles \ failed : objOf[k] = Table(h)[str[h].streamId] => k = h

(* An entry of a table has a handle.                                       *)
Owned(o) ==
  \/ \E h \in Handles : str[h].open /\ objOf[h] = o
  \/ op.fn = "open" /\ Returned /\ o = Len(objs)

IdsOK ==
  /\ \A h \in Handles : IdOK(h)
  /\ \A g, h \in Handles : objOf[g] = objOf[h] => g = h \/ objOf[g] = 0
  /\ failures = 0 => /\ \A i \in DOMAIN bulkSources : Owned(bulkSources[i])
                     /\ \A i \in DOMAIN bulkSinks : Owned(bulkSinks[i])

(* What the function that is being executed has asked for, and its answer. *)

Request(cmd, id) == call.state = "sent" => call.cmd = cmd /\ call.id = id

Opened == /\ call.word2 = LastId(op.h)
          /\ call.word2 \in DOMAIN Table(op.h)
          /\ Table(op.h)[call.word2] = Len(objs)
          /\ objs # <<>>
          /\ objs[Len(objs)].pos = 0 /\ objs[Len(objs)].state = STATE_OK
          /\ ~program[op.h].isSource => objs[Len(objs)].content = <<>>
          /\ \A h \in Handles : objOf[h] # Len(objs)
          /\ op.h \notin failed =>
               \A h \in Handles : str[h].open => str[h].streamId # call.word2

OpenOK ==
  op.fn = "open" =>
    /\ op.h = opened /\ ~str[op.h].open /\ objOf[op.h] = 0 /\ passed[op.h] = <<>>
    /\ call # NoCall
    /\ Request(IF program[op.h].isSource THEN "OPEN_SOURCE" ELSE "OPEN_SINK", 0)
    /\ Returned => call.rc = "failed" \/ (call.rc = "new" /\ Opened)

ReadingOK ==
  op.fn = "read" =>
    /\ Source(op.h)
    /\ call # NoCall => BufferRead(op.h) /\ str[op.h].streamState = STATE_OK
    /\ Request("BULKSRC_READ", str[op.h].streamId)
    /\ Returned /\ call.rc # "failed" =>
         /\ call.rc \in {"ok", "invalid"} /\ Len(call.data) <= STREAM_BUFFER_LEN
         /\ call.word2 \in States
         /\ op.h \notin failed =>
              call.rc = "ok" /\ (call.word2 \in {STATE_SOURCE_ENDED, STATE_CLOSED} => AllRead(op.h))

WritingOK ==
  op.fn \in {"write", "flush", "close"} =>
    /\ IF op.fn = "close" THEN str[op.h].open ELSE Sink(op.h)
    /\ call # NoCall => Sink(op.h)
    /\ Request("BULKSINK_WRITE", str[op.h].streamId)
    /\ call.state = "sent" => call.data = str[op.h].buffer
    /\ Returned /\ call.rc # "failed" => call.word2 \in States

ClosingOK ==
  op.fn = "closing" =>
    /\ str[op.h].open /\ call # NoCall
    /\ Request(IF Source(op.h) THEN "BULKSRC_CLOSE" ELSE "BULKSINK_CLOSE", str[op.h].streamId)
    /\ Sink(op.h) => str[op.h].buffer = <<>>
    /\ failures = 0 /\ Returned =>
         /\ \A i \in DOMAIN bulkSources : bulkSources[i] # objOf[op.h]
         /\ \A i \in DOMAIN bulkSinks : bulkSinks[i] # objOf[op.h]

CallOK ==
  /\ op = NoOp => call = NoCall
  /\ op # NoOp => op.h \in 1 .. opened
  /\ Returned => call.rc \in {"new", "ok", "invalid", "failed"}
  /\ Returned /\ call.rc = "failed" => op.h \in failed /\ failures # 0
  /\ OpenOK /\ ReadingOK /\ WritingOK /\ ClosingOK

(* The bytes of a stream, on their way to and from the caller.             *)
ReadOK(h) ==
  h \notin failed /\ Source(h) =>
    /\ str[h].streamState \in {STATE_SOURCE_ENDED, STATE_CLOSED} => AllRead(h)
    /\ ~TextSource(h) => passed[h] \o Underway(h) = SubSeq(Content(h), 1, objs[objOf[h]].pos)

WriteOK(h) ==
  h \notin failed /\ objOf[h] # 0 /\ ~program[h].isSource =>
    passed[h] = IF str[h].open /\ ~(Busy({"write", "flush", "close"}, h) /\ Returned)
                THEN Content(h) \o str[h].buffer
                ELSE Content(h)

StreamsInv ==
  /\ ValuesOK
  /\ \A h \in Handles : HandleOK(h)
  /\ \A i \in DOMAIN objs : ObjectOK(objs[i])
  /\ TablesOK /\ IdsOK /\ CallOK
  /\ \A h \in Handles : ReadOK(h) /\ WriteOK(h)

-----------------------------------------------------------------------------
(* The inductive invariant of a text, with the one above.                  *)

(* What the proxy has read of the file and no call has taken.              *)
Coming(h)  == IF Busy({"read"}, h) /\ Returned THEN call.data ELSE Unread(h)
Reached(h) == objs[objOf[h]].pos - Len(Coming(h))
Cut(h, skip) == LinesOf(program[h], lineEnd, SubSeq(Content(h), 1, Reached(h)), skip)

(* The blocks are the file; at its end there is no block.                  *)
BlocksOK(h) ==
  LET o == objs[objOf[h]]
  IN /\ Len(Coming(h)) <= o.pos
     /\ \A i \in 1 .. Len(Coming(h)) : Coming(h)[i] = Content(h)[Reached(h) + i]
     /\ str[h].streamState \in {STATE_OK, STATE_SOURCE_ENDED}
     /\ str[h].streamState = STATE_SOURCE_ENDED => str[h].buffer = <<>>
     /\ Busy({"read"}, h) =>
          /\ str[h].streamState = STATE_OK
          /\ Returned => call.word2 = o.state /\ (call.data = <<>> <=> o.state # STATE_OK)

(* The lines of what is taken are those returned and the one being read.   *)
(* A call that meets the end returns what it has.                          *)
LinesOK(h, r) ==
  IF Busy({"read"}, h)
  THEN IF Len(op.out) = limit(h)
       THEN r = [lines |-> Append(passed[h], op.out), cur |-> <<>>, skip |-> ~program[h].keepNL]
       ELSE /\ Len(op.out) < limit(h)
            /\ r = [lines |-> passed[h], cur |-> op.out, skip |-> op.skipLineEnd]
  ELSE \/ r = [lines |-> passed[h], cur |-> <<>>, skip |-> str[h].lastLineWasBufferEnd]
       \/ BufferRead(h) /\ str[h].streamState = STATE_SOURCE_ENDED /\ passed[h] = AllLines(r)

TextOK(h) ==
  h \notin failed /\ str[h].open /\ TextSource(h) =>
    /\ lineEndMode \in 0 .. 3
    /\ objs[objOf[h]].state \in {STATE_OK, STATE_SOURCE_ENDED} =>
         BlocksOK(h) /\ \E skip \in BOOLEAN : LinesOK(h, Cut(h, skip))

TextInv == \A h \in Handles : TextOK(h)
=============================================================================
