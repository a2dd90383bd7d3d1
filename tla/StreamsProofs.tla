---------------------------- MODULE StreamsProofs ---------------------------
(***************************************************************************)
(* What holds of the bulk streams for every block size, every number of    *)
(* streams, bytes, failed requests and lost connections, every file, and   *)
(* whatever ids the dispatchers of a client start from: two of them may    *)
(* give out the same one.                                                  *)
(* StreamsInv is the inductive invariant.  Handles other than the one the  *)
(* client is working with are left alone by its steps, so most of the      *)
(* lemmas are about one handle; they come in the order of the actions.     *)
(* TextInv, with it, is the invariant of the lines of a text.  What the    *)
(* reference makes of a text is a recursive function: the lemmas on it say *)
(* what it is of no character and of one more.                             *)
(***************************************************************************)
EXTENDS Streams, SequenceTheorems, WellFoundedInduction, TLAPS

-----------------------------------------------------------------------------
(* The values of the variables.                                            *)

(* The streams a program opens.                                            *)
LEMMA ProgramTypes ==
  ASSUME NEW p \in Programs, NEW h \in 1 .. Len(p)
  PROVE  /\ Len(p) \in Nat /\ Len(p) <= MaxStreams /\ h \in Handles
         /\ p[h].isSource \in BOOLEAN /\ p[h].isText \in BOOLEAN
         /\ p[h].isSource => p[h].content \in Seq(Byte)
<1>1. /\ p \in Seq(Range(p)) /\ Len(p) <= MaxStreams
      /\ \A s \in Range(p) : /\ {s.isSource, s.isText} \subseteq BOOLEAN
                             /\ s.isSource => s.content \in Seq(Range(s.content))
  BY StreamPrograms
<1>2. Len(p) \in Nat /\ p[h] \in Range(p)
  BY <1>1
<1>3. MaxStreams \in Nat
  BY StreamBounds
<1>4. h \in Handles
  BY <1>1, <1>2, <1>3 DEF Handles
<1>5. ASSUME p[h].isSource
      PROVE  p[h].content \in Seq(Byte)
  <2>1. p[h].content \in Seq(Range(p[h].content))
    BY <1>1, <1>2, <1>5
  <2>2. p[h] \in {r \in UNION {Range(q) : q \in Programs} : r.isSource}
    BY <1>2, <1>5
  <2>3. Range(p[h].content) \subseteq Byte
    BY <2>2, Zenon DEF Byte
  <2> QED
    BY <2>1, <2>3, SeqMonotonic
<1> QED
  BY <1>1, <1>2, <1>4, <1>5

(* The structure behind a handle.                                          *)
LEMMA StrTypes ==
  ASSUME ValuesOK, NEW h \in Handles
  PROVE  /\ str[h] \in {NoStream} \cup Structures /\ str[h].open \in BOOLEAN
         /\ ~str[h].open => str[h] = NoStream
         /\ str[h].open =>
              /\ str[h] \in Structures
              /\ str[h].streamId \in Nat /\ str[h].isSourceStream \in BOOLEAN
              /\ str[h].lastLineWasBufferEnd \in BOOLEAN
              /\ str[h].streamState \in States /\ str[h].nerr \in {"none", "comm", "misuse"}
              /\ str[h].buffer \in Seq(Byte) /\ str[h].bufPos \in Nat
<1>1. str[h] \in {NoStream} \cup Structures
  BY DEF ValuesOK
<1>2. CASE str[h] = NoStream
  BY <1>1, <1>2 DEF NoStream
<1>3. CASE str[h] \in Structures
  BY <1>1, <1>3 DEF Structures
<1> QED
  BY <1>1, <1>2, <1>3

(* The function that is being executed.                                    *)
LEMMA OpTypes ==
  ASSUME op \in Ops
  PROVE  /\ op.fn \in {"none", "open", "flush", "close", "closing", "read", "write"}
         /\ op.fn = "none" <=> op = NoOp
         /\ op.fn # "none" => op.h \in Handles
         /\ op.fn \in {"open", "flush", "close", "closing"} =>
              op \in [fn : {"open", "flush", "close", "closing"}, h : Handles]
         /\ op.fn = "read" =>
              /\ op \in [fn : {"read"}, h : Handles, out : Seq(Byte), skipLineEnd : BOOLEAN]
              /\ op.out \in Seq(Byte) /\ op.skipLineEnd \in BOOLEAN
         /\ op.fn = "write" =>
              op \in [fn : {"write"}, h : Handles, rest : Seq(Byte)] /\ op.rest \in Seq(Byte)
<1>1. CASE op = NoOp
  BY <1>1 DEF NoOp
<1>2. CASE op \in [fn : {"open", "flush", "close", "closing"}, h : Handles]
  BY <1>2 DEF NoOp
<1>3. CASE op \in [fn : {"read"}, h : Handles, out : Seq(Byte), skipLineEnd : BOOLEAN]
  BY <1>3 DEF NoOp
<1>4. CASE op \in [fn : {"write"}, h : Handles, rest : Seq(Byte)]
  BY <1>4 DEF NoOp
<1> QED
  BY <1>1, <1>2, <1>3, <1>4 DEF Ops

(* The request under way.                                                  *)
LEMMA CallTypes ==
  ASSUME call \in Calls
  PROVE  /\ call.state \in {"none", "sent", "answered"}
         /\ call.state = "none" <=> call = NoCall
         /\ call.state = "sent" => call.cmd \in Commands /\ call.id \in Nat /\ call.data \in Seq(Byte)
         /\ call.state = "answered" =>
              /\ call.rc \in {"new", "ok", "invalid", "failed"}
              /\ call.rc # "failed" => call.word2 \in Int /\ call.data \in Seq(Byte)
<1>1. CASE call \in {NoCall, NoAnswer}
  BY <1>1 DEF NoCall, NoAnswer
<1>2. CASE call \in [state : {"sent"}, cmd : Commands, id : Nat, data : Seq(Byte)]
  BY <1>2 DEF NoCall
<1>3. CASE call \in [state : {"answered"}, rc : {"new", "ok", "invalid"}, word2 : Int, data : Seq(Byte)]
  BY <1>3 DEF NoCall
<1> QED
  BY <1>1, <1>2, <1>3 DEF Calls

(* A stream object.                                                        *)
LEMMA ObjectTypes ==
  ASSUME ValuesOK, NEW o \in DOMAIN objs
  PROVE  /\ objs[o] \in Objects /\ objs[o].content \in Seq(Byte)
         /\ objs[o].pos \in Nat /\ objs[o].state \in States /\ o \in 1 .. Len(objs)
<1>1. objs \in Seq(Objects)
  BY DEF ValuesOK
<1>2. objs[o] \in Objects /\ o \in 1 .. Len(objs)
  BY <1>1
<1> QED
  BY <1>2 DEF Objects

(* The handles given out.                                                  *)
LEMMA OpenedTypes ==
  ASSUME ValuesOK
  PROVE  /\ opened \in Nat /\ Len(program) \in Nat /\ opened <= Len(program)
         /\ \A h \in 1 .. opened :
              /\ h \in Handles /\ h \in 1 .. Len(program)
              /\ program[h].isSource \in BOOLEAN /\ program[h].isText \in BOOLEAN
<1>1. program \in Programs /\ opened \in 0 .. Len(program)
  BY DEF ValuesOK
<1>2. program \in Seq(Range(program))
  BY <1>1, StreamPrograms
<1>3. opened \in Nat /\ Len(program) \in Nat /\ opened <= Len(program)
  BY <1>1, <1>2
<1>4. \A h \in 1 .. opened : h \in 1 .. Len(program)
  BY <1>3
<1> QED
  BY <1>1, <1>3, <1>4, ProgramTypes

-----------------------------------------------------------------------------
(* A step that is about one handle.                                        *)

Turn(g) == /\ op.fn = "none" \/ op.h = g
           /\ op'.fn = "none" \/ op'.h = g

Others(g) ==
  /\ Turn(g)
  /\ UNCHANGED program
  /\ \A h \in Handles : h # g =>
       /\ str'[h] = str[h] /\ objOf'[h] = objOf[h] /\ passed'[h] = passed[h]
       /\ h \notin failed /\ objOf[h] # 0 => objs'[objOf[h]] = objs[objOf[h]]
       /\ h > opened' <=> h > opened
       /\ h \in failed => h \in failed'

(* The others keep what holds of them.                                     *)
LEMMA OtherHandles ==
  ASSUME NEW g, Others(g), NEW h \in Handles, h # g, ValuesOK
  PROVE  /\ HandleOK(h) => HandleOK(h)'
         /\ HandleOK(h) /\ ReadOK(h) => ReadOK(h)'
         /\ WriteOK(h) => WriteOK(h)'
<1>1. /\ str'[h] = str[h] /\ objOf'[h] = objOf[h] /\ passed'[h] = passed[h]
      /\ h \notin failed /\ objOf[h] # 0 => objs'[objOf[h]] = objs[objOf[h]]
      /\ h > opened' <=> h > opened
      /\ h \in failed => h \in failed'
      /\ program' = program
  BY DEF Others
<1>2. \A fns : "none" \notin fns => ~Busy(fns, h) /\ ~(Busy(fns, h)')
  BY DEF Others, Turn, Busy
<1>3. HandleOK(h) => HandleOK(h)'
  BY <1>1 DEF HandleOK, TextSource, Sink
<1>4. ASSUME HandleOK(h), ReadOK(h)
      PROVE  ReadOK(h)'
  <2> SUFFICES ASSUME h \notin failed', Source(h)'
               PROVE  /\ str'[h].streamState \in {STATE_SOURCE_ENDED, STATE_CLOSED} => AllRead(h)'
                      /\ ~TextSource(h)' => passed'[h] \o Underway(h)' = SubSeq(Content(h)', 1, objs'[objOf'[h]].pos)
    BY DEF ReadOK
  <2>1. h \notin failed /\ Source(h)
    BY <1>1 DEF Source
  <2>2. objOf[h] # 0
    <3>1. str[h].open
      BY <2>1 DEF Source
    <3> QED
      BY <3>1, <1>4 DEF HandleOK
  <2>3. objs'[objOf'[h]] = objs[objOf[h]]
    BY <1>1, <2>1, <2>2
  <2>4. Content(h)' = Content(h) /\ (AllRead(h)' <=> AllRead(h)) /\ (TextSource(h)' <=> TextSource(h))
    BY <1>1, <2>3 DEF Content, AllRead, TextSource
  <2>5. ~Busy({"read"}, h) /\ ~(Busy({"read"}, h)')
    BY <1>2
  <2>6. Underway(h)' = Underway(h)
    BY <1>1, <2>5 DEF Underway, Unread
  <2> QED
    BY <1>1, <1>4, <2>1, <2>3, <2>4, <2>6 DEF ReadOK
<1>5. ASSUME WriteOK(h)
      PROVE  WriteOK(h)'
  <2> SUFFICES ASSUME h \notin failed', objOf'[h] # 0, ~program'[h].isSource
               PROVE  passed'[h] = IF str'[h].open /\ ~(Busy({"write", "flush", "close"}, h)' /\ Returned')
                                   THEN Content(h)' \o str'[h].buffer
                                   ELSE Content(h)'
    BY DEF WriteOK
  <2>1. h \notin failed /\ objOf[h] # 0 /\ ~program[h].isSource
    BY <1>1
  <2>2. Content(h)' = Content(h)
    BY <1>1, <2>1 DEF Content
  <2>3. ~Busy({"write", "flush", "close"}, h) /\ ~(Busy({"write", "flush", "close"}, h)')
    BY <1>2
  <2> QED
    BY <1>1, <1>5, <2>1, <2>2, <2>3 DEF WriteOK
<1> QED
  BY <1>3, <1>4, <1>5

(* What is left to show of such a step.                                    *)
ObjectsOK == \A i \in DOMAIN objs : ObjectOK(objs[i])

(* What is left of the invariant: the handle of the function that is       *)
(* executed, and the parts that are about all handles.                     *)
LEMMA OneHandle ==
  ASSUME StreamsInv, NEW g \in Handles, Others(g),
         ValuesOK', HandleOK(g)', ReadOK(g)', WriteOK(g)', ObjectsOK', TablesOK', IdsOK', CallOK'
  PROVE  StreamsInv'
<1>1. ValuesOK /\ \A h \in Handles : HandleOK(h) /\ ReadOK(h) /\ WriteOK(h)
  BY DEF StreamsInv
<1>2. Handles' = Handles
  BY DEF Handles
<1>3. \A h \in Handles : HandleOK(h)' /\ ReadOK(h)' /\ WriteOK(h)'
  BY <1>1, OtherHandles
<1> QED
  BY <1>2, <1>3 DEF StreamsInv, ObjectsOK

(* The client does something for a stream that it neither opens nor        *)
(* forgets: the dispatcher is not involved.                                *)
LEMMA LocalIds ==
  ASSUME TablesOK, IdsOK, localStep, UNCHANGED <<opened, objOf>>,
         \A h \in Handles : /\ str'[h].open <=> str[h].open
                            /\ str[h].open => str'[h].streamId = str[h].streamId,
         op.fn \notin {"open", "closing"}, op'.fn # "open", ~(op'.fn = "closing" /\ Returned')
  PROVE  TablesOK' /\ IdsOK'
<1>0. UNCHANGED <<program, bulkSources, bulkSinks, lastBulkSourceId, lastBulkSinkId, objs, dispatcher,
                  failures, failed>>
  BY DEF localStep, remoteVars, managerVars
<1>1. TablesOK'
  <2>1. \A table, last, parity : EntriesOK(table, last, parity) => EntriesOK(table, last, parity)'
    BY <1>0 DEF EntriesOK
  <2> QED
    BY <1>0, <2>1 DEF TablesOK
<1>2. ASSUME NEW h \in Handles
      PROVE  IdOK(h)'
  <2>1. IdOK(h)
    BY DEF IdsOK
  <2>2. Table(h)' = Table(h) /\ Handles' = Handles
    BY <1>0 DEF Table, Handles
  <2>3. ~(Busy({"closing"}, h) /\ Returned)
    BY DEF Busy
  <2> QED
    BY <1>0, <2>1, <2>2, <2>3 DEF IdOK
<1>3. \A o : Owned(o) => Owned(o)'
  BY DEF Owned
<1>4. Handles' = Handles
  BY DEF Handles
<1> QED
  BY <1>0, <1>1, <1>2, <1>3, <1>4 DEF IdsOK

Sets(g, s) == str' = [str EXCEPT ![g] = s]
Passes(g, q) == passed' = [passed EXCEPT ![g] = q]

(* What such a step sets.                                                  *)
LEMMA SetsOne ==
  ASSUME ValuesOK, NEW g \in Handles, NEW s, Sets(g, s), NEW q, Passes(g, q)
  PROVE  /\ str'[g] = s /\ passed'[g] = q
         /\ \A h \in Handles : h # g => str'[h] = str[h] /\ passed'[h] = passed[h]
         /\ s \in {NoStream} \cup Structures => str' \in [Handles -> {NoStream} \cup Structures]
         /\ q \in Seq(Byte) \cup Seq(Seq(Byte)) => passed' \in [Handles -> Seq(Byte) \cup Seq(Seq(Byte))]
<1>1. str \in [Handles -> {NoStream} \cup Structures] /\ passed \in [Handles -> Seq(Byte) \cup Seq(Seq(Byte))]
  BY DEF ValuesOK
<1>2. str'[g] = s /\ passed'[g] = q
  BY <1>1 DEF Sets, Passes
<1>3. \A h \in Handles : h # g => str'[h] = str[h] /\ passed'[h] = passed[h]
  BY <1>1 DEF Sets, Passes
<1>4. s \in {NoStream} \cup Structures => str' \in [Handles -> {NoStream} \cup Structures]
  BY <1>1, Zenon DEF Sets
<1>5. q \in Seq(Byte) \cup Seq(Seq(Byte)) => passed' \in [Handles -> Seq(Byte) \cup Seq(Seq(Byte))]
  BY <1>1, Zenon DEF Passes
<1> QED
  BY <1>2, <1>3, <1>4, <1>5

(* A step of the client on the stream of a function: it leaves the ids     *)
(* and the dispatcher as they are.                                         *)
LEMMA LocalStep ==
  ASSUME StreamsInv, localStep, UNCHANGED <<opened, lineEndMode, objOf>>,
         NEW g \in 1 .. opened, str[g].open, Turn(g),
         NEW s \in Structures, Sets(g, s),
         s.streamId = str[g].streamId, s.isSourceStream = str[g].isSourceStream,
         s.bufPos <= Len(s.buffer), Len(s.buffer) <= STREAM_BUFFER_LEN, ~s.isSourceStream => s.bufPos = 0,
         NEW q, Passes(g, q), IF TextSource(g) THEN q \in Seq(Seq(Byte)) ELSE q \in Seq(Byte),
         op' \in Ops, call' \in Calls,
         op.fn \notin {"open", "closing"}, op'.fn # "open", ~(op'.fn = "closing" /\ Returned'),
         CallOK', ReadOK(g)', WriteOK(g)'
  PROVE  StreamsInv'
<1>0. /\ ValuesOK /\ TablesOK /\ IdsOK /\ ObjectsOK
      /\ \A h \in Handles : HandleOK(h)
  BY DEF StreamsInv, ObjectsOK
<1>1. g \in Handles /\ opened \in Nat /\ ~(g > opened)
  BY <1>0, OpenedTypes
<1>2. UNCHANGED <<program, objs, dispatcher, failures, failed>>
  BY DEF localStep, remoteVars
<1>3. /\ str'[g] = s /\ passed'[g] = q
      /\ \A h \in Handles : h # g => str'[h] = str[h] /\ passed'[h] = passed[h]
      /\ str' \in [Handles -> {NoStream} \cup Structures]
      /\ passed' \in [Handles -> Seq(Byte) \cup Seq(Seq(Byte))]
  BY <1>0, <1>1, SetsOne
<1>4. s.open
  BY DEF Structures
<1>5. ValuesOK'
  <2>1. Handles' = Handles
    BY DEF Handles
  <2> QED
    BY <1>0, <1>2, <1>3, <2>1 DEF ValuesOK
<1>6. Others(g)
  BY <1>2, <1>3 DEF Others
<1>7. HandleOK(g)'
  <2>1. str[g].isSourceStream = program[g].isSource /\ objOf[g] # 0
    BY <1>0, <1>1 DEF HandleOK
  <2>2. TextSource(g)' <=> TextSource(g)
    BY <1>2 DEF TextSource
  <2>3. str'[g] = s /\ objOf'[g] # 0 /\ s.isSourceStream = program'[g].isSource /\ ~(g > opened')
    BY <1>1, <1>2, <1>3, <2>1
  <2>4. IF TextSource(g)' THEN passed'[g] \in Seq(Seq(Byte)) ELSE passed'[g] \in Seq(Byte)
    BY <1>3, <2>2
  <2> QED
    BY <2>3, <2>4 DEF HandleOK, Sink
<1>8. TablesOK' /\ IdsOK'
  <2>1. \A h \in Handles : /\ str'[h].open <=> str[h].open
                           /\ str[h].open => str'[h].streamId = str[h].streamId
    BY <1>1, <1>3, <1>4
  <2> QED
    BY <1>0, <2>1, LocalIds
<1>9. ObjectsOK'
  BY <1>0, <1>2 DEF ObjectsOK
<1> QED
  BY <1>1, <1>5, <1>6, <1>7, <1>8, <1>9, OneHandle

(* A source is not written, a sink is not read.                            *)
LEMMA OfOneKind ==
  ASSUME StreamsInv, NEW g \in 1 .. opened, str[g].open
  PROVE  /\ g \in Handles /\ str[g].isSourceStream = program[g].isSource
         /\ str[g].isSourceStream \in BOOLEAN /\ objOf[g] \in DOMAIN objs
         /\ str[g] \in Structures
         /\ str[g].bufPos <= Len(str[g].buffer) /\ Len(str[g].buffer) <= STREAM_BUFFER_LEN
         /\ ~str[g].isSourceStream => str[g].bufPos = 0
         /\ IF TextSource(g) THEN passed[g] \in Seq(Seq(Byte)) ELSE passed[g] \in Seq(Byte)
<1>0. ValuesOK /\ \A h \in Handles : HandleOK(h)
  BY DEF StreamsInv
<1>1. g \in Handles /\ opened \in Nat /\ ~(g > opened)
  BY <1>0, OpenedTypes
<1>2. str[g] \in Structures /\ str[g].isSourceStream \in BOOLEAN
  BY <1>0, <1>1, StrTypes
<1>3. objOf[g] \in {0} \cup DOMAIN objs
  BY <1>0, <1>1 DEF ValuesOK
<1>4. HandleOK(g)
  BY <1>0, <1>1
<1> QED
  BY <1>1, <1>2, <1>3, <1>4 DEF HandleOK, Sink

(* Nothing is written to a source ...                                      *)
LEMMA SourceWrites ==
  ASSUME NEW g, program[g].isSource, UNCHANGED program
  PROVE  WriteOK(g)'
BY DEF WriteOK

(* ... and nothing read from a sink.                                       *)
LEMMA SinkReads ==
  ASSUME NEW g, ~str'[g].isSourceStream
  PROVE  ReadOK(g)'
BY DEF ReadOK, Source

(* The bytes that a call has taken, and those of the answer.               *)
OutOf(h)   == IF Busy({"read"}, h) THEN op.out ELSE <<>>
Arrived(h) == IF Busy({"read"}, h) /\ Returned THEN call.data ELSE <<>>

(* What is on the way, in its three parts.                                 *)
LEMMA UnderwayIs ==
  ASSUME NEW h
  PROVE  /\ Underway(h) = OutOf(h) \o Unread(h) \o Arrived(h)
         /\ Underway(h)' = OutOf(h)' \o Unread(h)' \o Arrived(h)'
BY DEF Underway, OutOf, Arrived

(* No byte is moved.                                                       *)
LEMMA SameReads ==
  ASSUME NEW g, ReadOK(g), UNCHANGED <<program, objs, objOf, failed>>,
         str'[g].open = str[g].open, str'[g].isSourceStream = str[g].isSourceStream,
         str'[g].buffer = str[g].buffer, str'[g].bufPos = str[g].bufPos,
         str'[g].streamState = str[g].streamState, passed'[g] = passed[g],
         OutOf(g)' = OutOf(g), Arrived(g)' = Arrived(g)
  PROVE  ReadOK(g)'
<1>1. Unread(g)' = Unread(g)
  BY DEF Unread
<1>2. Underway(g)' = Underway(g)
  BY <1>1, UnderwayIs
<1>3. Content(g)' = Content(g) /\ (AllRead(g)' <=> AllRead(g))
  BY DEF Content, AllRead
<1> QED
  BY <1>2, <1>3 DEF ReadOK, Source, TextSource

(* No byte is written.                                                     *)
LEMMA SameWrites ==
  ASSUME NEW g, WriteOK(g), UNCHANGED <<program, objs, objOf, failed>>,
         str'[g].open = str[g].open, str'[g].buffer = str[g].buffer, passed'[g] = passed[g],
         ~Returned, ~Returned'
  PROVE  WriteOK(g)'
BY DEF WriteOK, Content

-----------------------------------------------------------------------------
(* A call begins.                                                          *)

(* No function is being executed: there is no request.                     *)
LEMMA IdleCall ==
  ASSUME StreamsInv, Idle
  PROVE  /\ call = NoCall /\ ~Returned /\ call.state = "none" /\ op = NoOp /\ op.fn = "none"
         /\ ValuesOK /\ CallOK /\ call \in Calls
BY DEF StreamsInv, ValuesOK, CallOK, Idle, NoCall, NoOp, Returned

(* nread and ngetstr begin.                                                *)
LEMMA StartReadInv ==
  ASSUME StreamsInv, NEW h \in 1 .. opened, startRead(h)
  PROVE  StreamsInv'
<1> DEFINE s == [str[h] EXCEPT !.nerr = "none", !.lastLineWasBufferEnd = FALSE]
<1>0. /\ call = NoCall /\ ~Returned /\ op = NoOp /\ op.fn = "none" /\ call \in Calls
      /\ ValuesOK /\ \A k \in Handles : ReadOK(k)
  BY IdleCall DEF startRead, StreamsInv
<1>1. str[h].open /\ str[h].isSourceStream
  BY DEF startRead, Source
<1>2. /\ h \in Handles /\ str[h] \in Structures /\ program[h].isSource
      /\ str[h].bufPos <= Len(str[h].buffer) /\ Len(str[h].buffer) <= STREAM_BUFFER_LEN
      /\ IF TextSource(h) THEN passed[h] \in Seq(Seq(Byte)) ELSE passed[h] \in Seq(Byte)
  BY <1>1, OfOneKind
<1>3. /\ s \in Structures /\ s.streamId = str[h].streamId /\ s.isSourceStream = str[h].isSourceStream
      /\ s.bufPos = str[h].bufPos /\ s.buffer = str[h].buffer /\ s.streamState = str[h].streamState
      /\ s.open = str[h].open
  BY <1>2 DEF Structures
<1>4. Sets(h, s) /\ Passes(h, passed[h])
  <2>1. str \in [Handles -> {NoStream} \cup Structures] /\ passed \in [Handles -> Seq(Byte) \cup Seq(Seq(Byte))]
    BY <1>0 DEF ValuesOK
  <2> QED
    BY <1>2, <2>1 DEF startRead, Sets, Passes
<1>5. UNCHANGED <<opened, lineEndMode, objOf, call>> /\ localStep
  BY DEF startRead
<1>6. UNCHANGED <<program, objs, failed>>
  BY <1>5 DEF localStep, remoteVars
<1>7. /\ op' = [fn |-> "read", h |-> h, out |-> <<>>, skipLineEnd |-> str[h].lastLineWasBufferEnd]
      /\ op'.fn = "read" /\ op'.h = h /\ op'.out = <<>>
  BY DEF startRead
<1>8. op' \in Ops
  <2>1. str[h].lastLineWasBufferEnd \in BOOLEAN
    BY <1>2 DEF Structures
  <2>2. op' \in [fn : {"read"}, h : Handles, out : Seq(Byte), skipLineEnd : BOOLEAN]
    BY <1>2, <1>7, <2>1
  <2> QED
    BY <2>2, Zenon DEF Ops
<1> HIDE DEF s
<1>9. str'[h] = s /\ passed'[h] = passed[h]
  BY <1>0, <1>2, <1>4, SetsOne
<1>10. CallOK'
  <2>1. OpenOK' /\ WritingOK' /\ ClosingOK'
    BY <1>7 DEF OpenOK, WritingOK, ClosingOK
  <2>2. Source(h)' /\ call' = NoCall /\ ~Returned' /\ call'.state = "none"
    BY <1>0, <1>1, <1>3, <1>5, <1>9 DEF Source, Returned, NoCall
  <2>3. ReadingOK'
    BY <1>7, <2>2 DEF ReadingOK, Request
  <2>4. op'.h \in 1 .. opened' /\ op' # NoOp
    BY <1>5, <1>7 DEF NoOp
  <2> QED
    BY <2>1, <2>2, <2>3, <2>4 DEF CallOK
<1>11. OutOf(h)' = OutOf(h) /\ Arrived(h)' = Arrived(h)
  BY <1>0, <1>5, <1>7 DEF OutOf, Arrived, Busy, Returned
<1>12. ReadOK(h)'
  BY <1>0, <1>2, <1>3, <1>5, <1>6, <1>9, <1>11, SameReads
<1>13. WriteOK(h)'
  BY <1>2, <1>6, SourceWrites
<1>14. Turn(h)
  BY <1>0, <1>7 DEF Turn
<1> QED
  BY <1>0, <1>1, <1>2, <1>3, <1>4, <1>5, <1>7, <1>8, <1>10, <1>12, <1>13, <1>14, LocalStep

(* nwrite, nputstr, nflush and nclose begin.                               *)
LEMMA BeginInv ==
  ASSUME StreamsInv, Idle, clientStep, UNCHANGED <<str, call, passed>>,
         NEW h \in 1 .. opened, str[h].open,
         op' \in Ops, op'.fn \in {"write", "flush", "close"}, op'.h = h, op'.fn = "close" \/ Sink(h)
  PROVE  StreamsInv'
<1>0. /\ call = NoCall /\ ~Returned /\ op = NoOp /\ op.fn = "none" /\ call \in Calls /\ call.state = "none"
      /\ ValuesOK /\ \A k \in Handles : ReadOK(k) /\ WriteOK(k)
  BY IdleCall DEF StreamsInv
<1>1. /\ h \in Handles /\ str[h] \in Structures
      /\ str[h].bufPos <= Len(str[h].buffer) /\ Len(str[h].buffer) <= STREAM_BUFFER_LEN
      /\ ~str[h].isSourceStream => str[h].bufPos = 0
      /\ IF TextSource(h) THEN passed[h] \in Seq(Seq(Byte)) ELSE passed[h] \in Seq(Byte)
  BY OfOneKind
<1>2. Sets(h, str[h]) /\ Passes(h, passed[h])
  <2>1. str \in [Handles -> {NoStream} \cup Structures] /\ passed \in [Handles -> Seq(Byte) \cup Seq(Seq(Byte))]
    BY <1>0 DEF ValuesOK
  <2> QED
    BY <1>1, <2>1, Zenon DEF Sets, Passes
<1>3. UNCHANGED <<opened, lineEndMode, objOf, program, objs, failed>> /\ localStep
  BY DEF clientStep, localStep, remoteVars
<1>4. CallOK'
  <2>1. OpenOK' /\ ReadingOK' /\ ClosingOK'
    BY DEF OpenOK, ReadingOK, ClosingOK
  <2>2. call' = NoCall /\ ~Returned' /\ call'.state = "none"
    BY <1>0 DEF Returned
  <2>3. WritingOK'
    BY <2>2 DEF WritingOK, Request, Sink
  <2>4. op'.h \in 1 .. opened' /\ op' # NoOp
    BY <1>3 DEF NoOp
  <2> QED
    BY <2>1, <2>2, <2>3, <2>4 DEF CallOK
<1>5. OutOf(h)' = OutOf(h) /\ Arrived(h)' = Arrived(h)
  BY <1>0 DEF OutOf, Arrived, Busy, Returned
<1>6. ReadOK(h)'
  BY <1>0, <1>1, <1>3, <1>5, SameReads
<1>7. ~Returned'
  BY <1>0 DEF Returned
<1>8. WriteOK(h)'
  BY <1>0, <1>1, <1>3, <1>7, SameWrites
<1>9. Turn(h)
  BY <1>0 DEF Turn
<1>10. call' \in Calls /\ op'.fn # "open" /\ ~(op'.fn = "closing" /\ Returned')
  BY <1>0
<1> QED
  BY <1>0, <1>1, <1>2, <1>3, <1>4, <1>6, <1>8, <1>9, <1>10, LocalStep

(* nwrite and nputstr begin.                                               *)
LEMMA StartWriteInv ==
  ASSUME StreamsInv, NEW h \in 1 .. opened, NEW n \in 0 .. MaxWritten, NEW appendNewline \in BOOLEAN,
         startWrite(h, n, appendNewline)
  PROVE  StreamsInv'
<1> DEFINE data == Bytes(h, n) \o (IF appendNewline THEN Newline ELSE <<>>)
<1>1. Idle /\ Sink(h) /\ op' = [fn |-> "write", h |-> h, rest |-> data]
  BY DEF startWrite
<1>2. str[h].open /\ ~str[h].isSourceStream
  BY <1>1 DEF Sink
<1>3. h \in Handles /\ passed[h] \in Seq(Byte)
  BY <1>2, OfOneKind DEF TextSource
<1>4. data \in Seq(Byte)
  <2>1. Bytes(h, n) \in Seq(Byte)
    <3>1. Len(passed[h]) \in Nat /\ n \in Nat
      BY <1>3, StreamBounds
    <3>2. \A i \in 1 .. n : Len(passed[h]) + i \in Nat
      BY <3>1
    <3>3. Nat \subseteq Byte
      BY DEF Byte
    <3> QED
      BY <3>1, <3>2, <3>3 DEF Bytes
  <2>2. Newline \in Seq(Byte)
    <3>1. LF \in Byte /\ CR \in Byte
      BY Zenon DEF Byte
    <3>2. /\ <<LF>> \in Seq(Byte) /\ <<CR>> \in Seq(Byte)
          /\ <<CR, LF>> \in Seq(Byte) /\ <<LF, CR>> \in Seq(Byte)
      BY <3>1
    <3> QED
      BY <3>2 DEF Newline
  <2>3. (IF appendNewline THEN Newline ELSE <<>>) \in Seq(Byte)
    BY <2>2
  <2> QED
    BY <2>1, <2>3, ConcatProperties, Zenon
<1> HIDE DEF data
<1>5. op' \in Ops /\ op'.fn = "write" /\ op'.h = h
  <2>1. op' \in [fn : {"write"}, h : Handles, rest : Seq(Byte)]
    BY <1>1, <1>3, <1>4
  <2> QED
    BY <1>1, <2>1 DEF Ops
<1> QED
  BY <1>1, <1>2, <1>5, BeginInv DEF startWrite

(* nflush and nclose begin.                                                *)
LEMMA FlushCloseInv ==
  ASSUME StreamsInv, NEW h \in 1 .. opened, nflush(h) \/ nclose(h)
  PROVE  StreamsInv'
<1>1. Idle /\ str[h].open /\ clientStep /\ UNCHANGED <<str, call, passed>>
  BY DEF nflush, nclose, Sink
<1>2. (op' = [fn |-> "flush", h |-> h] /\ Sink(h)) \/ op' = [fn |-> "close", h |-> h]
  BY DEF nflush, nclose
<1>3. op' \in Ops /\ op'.fn \in {"flush", "close"} /\ op'.h = h /\ (op'.fn = "close" \/ Sink(h))
  <2>1. h \in Handles
    BY OpenedTypes DEF StreamsInv
  <2>2. op' \in [fn : {"open", "flush", "close", "closing"}, h : Handles]
    BY <1>2, <2>1
  <2> QED
    BY <1>2, <2>2 DEF Ops
<1> QED
  BY <1>1, <1>3, BeginInv

(* A function that reads is called for a sink: nerror is set, and nothing  *)
(* else.                                                                   *)
LEMMA MisuseInv ==
  ASSUME StreamsInv, NEW h \in 1 .. opened, misuse(h)
  PROVE  StreamsInv'
<1> DEFINE s == [str[h] EXCEPT !.nerr = "misuse"]
<1>0. /\ call = NoCall /\ ~Returned /\ op = NoOp /\ op.fn = "none" /\ call \in Calls /\ call.state = "none"
      /\ ValuesOK /\ CallOK /\ \A k \in Handles : WriteOK(k)
  BY IdleCall DEF misuse, StreamsInv
<1>1. str[h].open /\ ~str[h].isSourceStream
  BY DEF misuse, Sink
<1>2. /\ h \in Handles /\ str[h] \in Structures
      /\ str[h].bufPos <= Len(str[h].buffer) /\ Len(str[h].buffer) <= STREAM_BUFFER_LEN
      /\ ~str[h].isSourceStream => str[h].bufPos = 0
      /\ IF TextSource(h) THEN passed[h] \in Seq(Seq(Byte)) ELSE passed[h] \in Seq(Byte)
  BY <1>1, OfOneKind
<1>3. /\ s \in Structures /\ s.streamId = str[h].streamId /\ s.isSourceStream = str[h].isSourceStream
      /\ s.bufPos = str[h].bufPos /\ s.buffer = str[h].buffer /\ s.open = str[h].open
  BY <1>2 DEF Structures
<1>4. Sets(h, s) /\ Passes(h, passed[h])
  <2>1. str \in [Handles -> {NoStream} \cup Structures] /\ passed \in [Handles -> Seq(Byte) \cup Seq(Seq(Byte))]
    BY <1>0 DEF ValuesOK
  <2> QED
    BY <1>2, <2>1 DEF misuse, Sets, Passes
<1>5. UNCHANGED <<op, call, opened, lineEndMode, objOf, program, objs, failed>> /\ localStep
  BY DEF misuse, clientStep, localStep, remoteVars
<1> HIDE DEF s
<1>6. str'[h] = s /\ passed'[h] = passed[h]
  BY <1>0, <1>2, <1>4, SetsOne
<1>7. CallOK'
  <2>1. op' = NoOp /\ op'.fn = "none" /\ call' = NoCall /\ call'.state = "none" /\ ~Returned'
    BY <1>0, <1>5 DEF Returned
  <2>2. OpenOK' /\ ReadingOK' /\ WritingOK' /\ ClosingOK'
    BY <2>1 DEF OpenOK, ReadingOK, WritingOK, ClosingOK
  <2> QED
    BY <2>1, <2>2 DEF CallOK
<1>8. ReadOK(h)'
  BY <1>1, <1>3, <1>6, SinkReads
<1>9. ~Returned'
  BY <1>0, <1>5 DEF Returned
<1>10. WriteOK(h)'
  BY <1>0, <1>2, <1>3, <1>5, <1>6, <1>9, SameWrites
<1>11. Turn(h) /\ op' \in Ops /\ call' \in Calls /\ op'.fn = "none"
  BY <1>0, <1>5 DEF Turn, ValuesOK
<1> QED
  BY <1>0, <1>1, <1>2, <1>3, <1>4, <1>5, <1>7, <1>8, <1>10, <1>11, LocalStep

-----------------------------------------------------------------------------
(* A function goes on.                                                     *)

(* The stream it is for.                                                   *)
LEMMA AtWork ==
  ASSUME StreamsInv, NEW h, h = op.h, op.fn \notin {"none", "open"}
  PROVE  /\ h \in 1 .. opened /\ h \in Handles /\ str[h].open
         /\ str[h] \in Structures /\ str[h].isSourceStream \in BOOLEAN
         /\ str[h].isSourceStream = program[h].isSource
         /\ str[h].bufPos <= Len(str[h].buffer) /\ Len(str[h].buffer) <= STREAM_BUFFER_LEN
         /\ ~str[h].isSourceStream => str[h].bufPos = 0
         /\ IF TextSource(h) THEN passed[h] \in Seq(Seq(Byte)) ELSE passed[h] \in Seq(Byte)
         /\ objOf[h] \in DOMAIN objs
         /\ op.fn = "read" => str[h].isSourceStream
         /\ op.fn \in {"write", "flush"} => ~str[h].isSourceStream
<1>1. ValuesOK /\ CallOK /\ op \in Ops
  BY DEF StreamsInv, ValuesOK
<1>2. op # NoOp
  BY <1>1 DEF NoOp
<1>3. h \in 1 .. opened
  BY <1>1, <1>2 DEF CallOK
<1>4. op.fn \in {"read", "write", "flush", "close", "closing"}
  BY <1>1, OpTypes
<1>5. /\ str[h].open
      /\ op.fn = "read" => str[h].isSourceStream
      /\ op.fn \in {"write", "flush"} => ~str[h].isSourceStream
  BY <1>1, <1>4 DEF CallOK, ReadingOK, WritingOK, ClosingOK, Source, Sink
<1> QED
  BY <1>3, <1>5, OfOneKind

(* Structures and bytes that stay the same, as a step of one handle.       *)
LEMMA SameFunctions ==
  ASSUME ValuesOK, NEW h \in Handles
  PROVE  /\ UNCHANGED str => Sets(h, str[h])
         /\ UNCHANGED passed => Passes(h, passed[h])
<1>1. str \in [Handles -> {NoStream} \cup Structures] /\ passed \in [Handles -> Seq(Byte) \cup Seq(Seq(Byte))]
  BY DEF ValuesOK
<1> QED
  BY <1>1, Zenon DEF Sets, Passes

(* A request is a call.                                                    *)
LEMMA InvokeCall ==
  ASSUME NEW cmd \in Commands, NEW id \in Nat, NEW data \in Seq(Byte), invoke(cmd, id, data)
  PROVE  /\ call = NoCall /\ ~Returned /\ ~Returned' /\ call' \in Calls /\ call' # NoCall
         /\ call'.state = "sent" /\ call'.cmd = cmd /\ call'.id = id /\ call'.data = data
         /\ call.state = "none"
BY DEF invoke, Calls, Returned, NoCall

(* A read finds its buffer empty and asks for a block.                     *)
LEMMA NeedBlockInv ==
  ASSUME StreamsInv, needBlock
  PROVE  StreamsInv'
<1> SUFFICES ASSUME NEW h, h = op.h
             PROVE  StreamsInv'
  OBVIOUS
<1>0. ValuesOK /\ CallOK /\ (\A k \in Handles : ReadOK(k)) /\ op.fn = "read" /\ op \in Ops
  BY DEF needBlock, StreamsInv, ValuesOK
<1>1. /\ h \in 1 .. opened /\ h \in Handles /\ str[h].open
      /\ str[h] \in Structures /\ str[h].isSourceStream /\ program[h].isSource
      /\ str[h].bufPos <= Len(str[h].buffer) /\ Len(str[h].buffer) <= STREAM_BUFFER_LEN
      /\ IF TextSource(h) THEN passed[h] \in Seq(Seq(Byte)) ELSE passed[h] \in Seq(Byte)
  BY <1>0, AtWork
<1>2. /\ UNCHANGED <<str, op, passed, opened, lineEndMode, objOf, program, objs, failed>> /\ localStep
      /\ BufferRead(h) /\ str[h].streamState = STATE_OK
      /\ invoke("BULKSRC_READ", str[h].streamId, <<>>)
  BY DEF needBlock, clientVars, localStep, remoteVars
<1>3. str[h].streamId \in Nat /\ <<>> \in Seq(Byte) /\ "BULKSRC_READ" \in Commands
  BY <1>0, <1>1, StrTypes, EmptySeq DEF Commands
<1>4. /\ call = NoCall /\ ~Returned /\ ~Returned' /\ call' \in Calls /\ call' # NoCall
      /\ call'.state = "sent" /\ call'.cmd = "BULKSRC_READ" /\ call'.id = str[h].streamId
  BY <1>2, <1>3, InvokeCall
<1>5. op' = op /\ op'.fn = "read" /\ op'.h = h
  BY <1>0, <1>2
<1>6. CallOK'
  <2>1. OpenOK' /\ WritingOK' /\ ClosingOK'
    BY <1>5 DEF OpenOK, WritingOK, ClosingOK
  <2>2. ReadingOK'
    BY <1>1, <1>2, <1>4, <1>5 DEF ReadingOK, Request, Source, BufferRead
  <2>3. op' # NoOp /\ op'.h \in 1 .. opened'
    BY <1>1, <1>2, <1>5 DEF NoOp
  <2> QED
    BY <1>4, <2>1, <2>2, <2>3 DEF CallOK
<1>7. OutOf(h)' = OutOf(h) /\ Arrived(h)' = Arrived(h)
  BY <1>4, <1>5 DEF OutOf, Arrived, Busy
<1>8. ReadOK(h)'
  BY <1>0, <1>1, <1>2, <1>7, SameReads
<1>9. WriteOK(h)'
  BY <1>1, <1>2, SourceWrites
<1>10. Sets(h, str[h]) /\ Passes(h, passed[h])
  BY <1>0, <1>1, <1>2, SameFunctions
<1>11. Turn(h)
  BY <1>5 DEF Turn
<1> QED
  BY <1>0, <1>1, <1>2, <1>4, <1>5, <1>6, <1>8, <1>9, <1>10, <1>11, LocalStep

(* Reading: the bytes given to the caller, taken by the call and left in   *)
(* the buffer are those read from the file.                                *)
Rest(s) == SubSeq(s.buffer, s.bufPos + 1, Len(s.buffer))
Complete(h, q, out, s) == q \o (out \o Rest(s) \o <<>>) = SubSeq(Content(h), 1, objs[objOf[h]].pos)

(* A read goes on or returns.                                              *)
LEMMA ReadStep ==
  ASSUME StreamsInv, localStep, UNCHANGED <<opened, lineEndMode, objOf>>,
         NEW h, h = op.h, op.fn = "read", call' = NoCall,
         NEW s \in Structures, Sets(h, s),
         s.streamId = str[h].streamId, s.isSourceStream = str[h].isSourceStream,
         s.bufPos <= Len(s.buffer), Len(s.buffer) <= STREAM_BUFFER_LEN,
         NEW q, Passes(h, q), IF TextSource(h) THEN q \in Seq(Seq(Byte)) ELSE q \in Seq(Byte),
         op' \in Ops, op' = NoOp \/ (op'.fn = "read" /\ op'.h = h),
         NEW out, out = IF op' = NoOp THEN <<>> ELSE op'.out,
         h \notin failed => /\ s.streamState \in {STATE_SOURCE_ENDED, STATE_CLOSED} => AllRead(h)
                            /\ ~TextSource(h) => Complete(h, q, out, s)
  PROVE  StreamsInv'
<1>0. ValuesOK /\ op \in Ops
  BY DEF StreamsInv, ValuesOK
<1>1. /\ h \in 1 .. opened /\ h \in Handles /\ str[h].open
      /\ str[h] \in Structures /\ str[h].isSourceStream /\ program[h].isSource
  BY <1>0, AtWork
<1>2. UNCHANGED <<program, objs, failed>>
  BY DEF localStep, remoteVars
<1>3. str'[h] = s /\ passed'[h] = q /\ s.open
  <2>1. s.open
    BY DEF Structures
  <2> QED
    BY <1>0, <1>1, <2>1, SetsOne
<1>4. ~Returned' /\ call' \in Calls /\ call'.state = "none"
  BY DEF Returned, NoCall, Calls
<1>5. /\ op'.fn \in {"none", "read"}
      /\ op'.fn = "none" <=> op' = NoOp
      /\ op'.fn = "read" => op'.h = h
  BY DEF NoOp
<1>6. CallOK'
  <2>1. OpenOK' /\ WritingOK' /\ ClosingOK'
    BY <1>5 DEF OpenOK, WritingOK, ClosingOK
  <2>2. ReadingOK'
    BY <1>1, <1>3, <1>4, <1>5 DEF ReadingOK, Request, Source
  <2>3. op' # NoOp => op'.h \in 1 .. opened'
    BY <1>1, <1>5
  <2> QED
    BY <1>4, <2>1, <2>2, <2>3 DEF CallOK
<1>7. OutOf(h)' = out /\ Arrived(h)' = <<>> /\ Unread(h)' = Rest(s)
  <2>1. OutOf(h)' = out
    BY <1>5 DEF OutOf, Busy
  <2> QED
    BY <1>3, <1>4, <2>1 DEF Arrived, Unread, Rest
<1>8. Underway(h)' = out \o Rest(s) \o <<>>
  BY <1>7, UnderwayIs
<1>9. ReadOK(h)'
  <2>1. /\ Content(h)' = Content(h) /\ (AllRead(h)' <=> AllRead(h)) /\ (TextSource(h)' <=> TextSource(h))
        /\ objs'[objOf'[h]].pos = objs[objOf[h]].pos
    BY <1>2 DEF Content, AllRead, TextSource
  <2> QED
    BY <1>2, <1>3, <1>8, <2>1 DEF ReadOK, Complete
<1>10. WriteOK(h)'
  BY <1>1, <1>2, SourceWrites
<1>11. Turn(h) /\ op'.fn # "open" /\ op'.fn # "closing"
  BY <1>5 DEF Turn
<1> QED
  BY <1>0, <1>1, <1>3, <1>4, <1>6, <1>9, <1>10, <1>11, LocalStep

(* The invariant as it is before such a step.                              *)
LEMMA BeforeRead ==
  ASSUME StreamsInv, NEW h, h = op.h, op.fn = "read", h \notin failed
  PROVE  /\ str[h].streamState \in {STATE_SOURCE_ENDED, STATE_CLOSED} => AllRead(h)
         /\ ~TextSource(h) /\ ~Returned => Complete(h, passed[h], op.out, str[h])
         /\ ~TextSource(h) /\ Returned =>
              passed[h] \o (op.out \o Rest(str[h]) \o call.data) = SubSeq(Content(h), 1, objs[objOf[h]].pos)
<1>0. \A k \in Handles : ReadOK(k)
  BY DEF StreamsInv
<1>1. h \in Handles /\ str[h].open /\ str[h].isSourceStream
  BY AtWork
<1>2. ReadOK(h) /\ Source(h)
  BY <1>0, <1>1 DEF Source
<1>3. /\ str[h].streamState \in {STATE_SOURCE_ENDED, STATE_CLOSED} => AllRead(h)
      /\ ~TextSource(h) => passed[h] \o Underway(h) = SubSeq(Content(h), 1, objs[objOf[h]].pos)
  BY <1>2 DEF ReadOK
<1>4. Underway(h) = OutOf(h) \o Unread(h) \o Arrived(h)
  BY UnderwayIs
<1>5. OutOf(h) = op.out /\ Unread(h) = Rest(str[h]) /\ Arrived(h) = IF Returned THEN call.data ELSE <<>>
  BY DEF OutOf, Unread, Rest, Arrived, Busy
<1> QED
  BY <1>3, <1>4, <1>5 DEF Complete

(* Byte strings can be put together in any order.                          *)
Joins(x, y, z) == (x \o y) \o z = x \o (y \o z)

(* Concatenation is associative.                                           *)
LEMMA Joined ==
  ASSUME NEW x \in Seq(Byte), NEW y \in Seq(Byte), NEW z \in Seq(Byte)
  PROVE  Joins(x, y, z)
BY ConcatAssociative DEF Joins

(* The caller gets what the call has taken.                                *)
LEMMA Handed ==
  ASSUME NEW h, NEW q \in Seq(Byte), NEW out \in Seq(Byte), NEW s, Rest(s) \in Seq(Byte),
         Complete(h, q, out, s)
  PROVE  Complete(h, q \o out, <<>>, s)
<1> DEFINE r == Rest(s)
<1>1. r \in Seq(Byte)
  OBVIOUS
<1> HIDE DEF r
<1>2. out \o r \in Seq(Byte) /\ q \o out \in Seq(Byte) /\ <<>> \in Seq(Byte)
  BY <1>1, ConcatProperties, EmptySeq
<1>3. (out \o r) \o <<>> = out \o r /\ <<>> \o r = r /\ r \o <<>> = r
  BY <1>1, <1>2, ConcatEmptySeq, Zenon
<1>4. (q \o out) \o r = q \o (out \o r)
  <2>1. Joins(q, out, r)
    BY <1>1, Joined
  <2> QED
    BY <2>1, Zenon DEF Joins
<1>5. (q \o out) \o (<<>> \o r \o <<>>) = q \o (out \o r \o <<>>)
  BY <1>3, <1>4, Zenon
<1> QED
  BY <1>5, Zenon DEF Complete, r

(* One byte more of the buffer is taken.                                   *)
LEMMA OneTaken ==
  ASSUME NEW h, NEW q \in Seq(Byte), NEW out \in Seq(Byte),
         NEW b \in Seq(Byte), NEW p \in Nat, p < Len(b),
         NEW s, s.buffer = b, s.bufPos = p, NEW t, t.buffer = b, t.bufPos = p + 1,
         Complete(h, q, out, s)
  PROVE  Complete(h, q, Append(out, b[p + 1]), t)
<1> DEFINE c == b[p + 1]
           r == SubSeq(b, p + 2, Len(b))
<1>1. c \in Byte /\ Len(b) \in Nat /\ p + 1 \in 1 .. Len(b)
  OBVIOUS
<1>2. r \in Seq(Byte)
  BY <1>1
<1>3. Rest(s) = <<c>> \o r
  <2>1. Len(b) \in p + 1 .. Len(b)
    BY <1>1
  <2>2. SubSeq(b, p + 1, Len(b)) = <<b[p + 1]>> \o SubSeq(b, (p + 1) + 1, Len(b))
    BY <1>1, <2>1, SubSeqRecursiveFirst
  <2>3. (p + 1) + 1 = p + 2
    OBVIOUS
  <2> QED
    BY <2>2, <2>3 DEF Rest
<1>4. Rest(t) = r
  <2>1. (p + 1) + 1 = p + 2
    OBVIOUS
  <2> QED
    BY <2>1, Zenon DEF Rest
<1> HIDE DEF c, r
<1>5. Append(out, c) = out \o <<c>> /\ <<c>> \in Seq(Byte)
  BY <1>1, AppendIsConcat
<1>6. (out \o <<c>>) \o r = out \o (<<c>> \o r)
  <2>1. Joins(out, <<c>>, r)
    BY <1>2, <1>5, Joined
  <2> QED
    BY <2>1, Zenon DEF Joins
<1>7. q \o (Append(out, c) \o Rest(t) \o <<>>) = q \o (out \o Rest(s) \o <<>>)
  BY <1>3, <1>4, <1>5, <1>6, Zenon
<1> QED
  BY <1>7, Zenon DEF Complete, c

(* The two ways a read can go.                                             *)
LEMMA ContinueInv ==
  ASSUME StreamsInv, localStep, UNCHANGED <<opened, lineEndMode, objOf>>,
         NEW h, h = op.h, op.fn = "read", call' = NoCall,
         NEW s \in Structures, NEW out \in Seq(Byte), NEW skip \in BOOLEAN, continue(s, out, skip),
         s.streamId = str[h].streamId, s.isSourceStream = str[h].isSourceStream,
         s.bufPos <= Len(s.buffer), Len(s.buffer) <= STREAM_BUFFER_LEN,
         h \notin failed => /\ s.streamState \in {STATE_SOURCE_ENDED, STATE_CLOSED} => AllRead(h)
                            /\ ~TextSource(h) => Complete(h, passed[h], out, s)
  PROVE  StreamsInv'
<1>0. ValuesOK /\ op \in Ops
  BY DEF StreamsInv, ValuesOK
<1>1. h \in Handles /\ IF TextSource(h) THEN passed[h] \in Seq(Seq(Byte)) ELSE passed[h] \in Seq(Byte)
  BY AtWork
<1>2. Sets(h, s) /\ Passes(h, passed[h])
  <2>1. Sets(h, s)
    BY DEF continue, Sets
  <2>2. Passes(h, passed[h])
    BY <1>0, <1>1, SameFunctions DEF continue
  <2> QED
    BY <2>1, <2>2
<1>3. op' = [op EXCEPT !.out = out, !.skipLineEnd = skip]
  BY DEF continue
<1>4. /\ op' \in [fn : {"read"}, h : Handles, out : Seq(Byte), skipLineEnd : BOOLEAN]
      /\ op'.fn = "read" /\ op'.h = h /\ op'.out = out
  <2>1. op \in [fn : {"read"}, h : Handles, out : Seq(Byte), skipLineEnd : BOOLEAN]
    BY <1>0, OpTypes
  <2> QED
    BY <1>3, <2>1
<1>5. op' \in Ops /\ op' # NoOp
  BY <1>4 DEF Ops, NoOp
<1> QED
  BY <1>1, <1>2, <1>4, <1>5, ReadStep

(* A read returns what it has taken.                                       *)
LEMMA ReturnInv ==
  ASSUME StreamsInv, localStep, UNCHANGED <<opened, lineEndMode, objOf>>,
         NEW h, h = op.h, op.fn = "read", call' = NoCall,
         NEW s \in Structures, NEW out \in Seq(Byte), return(s, out),
         s.streamId = str[h].streamId, s.isSourceStream = str[h].isSourceStream,
         s.bufPos <= Len(s.buffer), Len(s.buffer) <= STREAM_BUFFER_LEN,
         h \notin failed => /\ s.streamState \in {STATE_SOURCE_ENDED, STATE_CLOSED} => AllRead(h)
                            /\ ~TextSource(h) => Complete(h, passed[h], out, s)
  PROVE  StreamsInv'
<1> DEFINE cut == TextSource(h) /\ ~keepNL /\ Len(out) = limit(h)
           t   == [s EXCEPT !.lastLineWasBufferEnd = cut]
           q   == IF TextSource(h) THEN Append(passed[h], out) ELSE passed[h] \o out
<1>0. ValuesOK /\ op \in Ops
  BY DEF StreamsInv, ValuesOK
<1>1. h \in Handles /\ IF TextSource(h) THEN passed[h] \in Seq(Seq(Byte)) ELSE passed[h] \in Seq(Byte)
  BY AtWork
<1>2. op' = NoOp /\ op' \in Ops
  BY DEF return, Ops
<1>3. cut \in BOOLEAN
  OBVIOUS
<1>4. Sets(h, t)
  BY DEF return, Sets
<1>5. Passes(h, q)
  <2>1. passed \in [Handles -> Seq(Byte) \cup Seq(Seq(Byte))]
    BY <1>0 DEF ValuesOK
  <2> QED
    BY <1>1, <2>1 DEF return, Passes
<1> HIDE DEF cut
<1>6. /\ t \in Structures /\ t.streamId = s.streamId /\ t.isSourceStream = s.isSourceStream
      /\ t.bufPos = s.bufPos /\ t.buffer = s.buffer /\ t.streamState = s.streamState
      /\ s.buffer \in Seq(Byte) /\ s.bufPos \in Nat
  BY <1>3 DEF Structures
<1> HIDE DEF t
<1>7. IF TextSource(h) THEN q \in Seq(Seq(Byte)) ELSE q \in Seq(Byte)
  <2>1. CASE TextSource(h)
    BY <1>1, <2>1, AppendProperties
  <2>2. CASE ~TextSource(h)
    BY <1>1, <2>2, ConcatProperties
  <2> QED
    BY <2>1, <2>2
<1>8. ASSUME h \notin failed, ~TextSource(h)
      PROVE  Complete(h, q, <<>>, t)
  <2>1. Rest(t) = Rest(s) /\ Rest(s) \in Seq(Byte)
    <3>1. Rest(t) = Rest(s)
      BY <1>6 DEF Rest
    <3>2. SubSeq(s.buffer, s.bufPos + 1, Len(s.buffer)) \in Seq(Byte)
      BY <1>6
    <3> QED
      BY <3>1, <3>2 DEF Rest
  <2>2. Complete(h, passed[h], out, s) /\ passed[h] \in Seq(Byte)
    BY <1>1, <1>8
  <2>3. Complete(h, passed[h] \o out, <<>>, s)
    BY <2>1, <2>2, Handed
  <2> QED
    BY <1>8, <2>1, <2>3, Zenon DEF Complete
<1> HIDE DEF q
<1> QED
  BY <1>1, <1>2, <1>4, <1>5, <1>6, <1>7, <1>8, ReadStep

(* The position in the buffer moves.                                       *)
LEMMA MovedStructure ==
  ASSUME NEW r \in Structures, NEW n \in Nat, NEW s, s = [r EXCEPT !.bufPos = n]
  PROVE  /\ s \in Structures /\ s.streamId = r.streamId /\ s.isSourceStream = r.isSourceStream
         /\ s.bufPos = n /\ s.buffer = r.buffer /\ s.streamState = r.streamState
BY DEF Structures

(* A read takes a byte from the buffer: the byte leaves the buffer and     *)
(* goes to the caller, or is a line end that belongs to no line.           *)
LEMMA TakeByteInv ==
  ASSUME StreamsInv, takeByte
  PROVE  StreamsInv'
<1> SUFFICES ASSUME NEW h, h = op.h
             PROVE  StreamsInv'
  OBVIOUS
<1> DEFINE s == [str[h] EXCEPT !.bufPos = @ + 1]
           c == s.buffer[s.bufPos]
<1>0. /\ ValuesOK /\ CallOK /\ op.fn = "read" /\ op \in Ops /\ call' = NoCall
      /\ UNCHANGED <<opened, lineEndMode, objOf>> /\ localStep /\ ~Returned
  BY DEF takeByte, StreamsInv, ValuesOK, Returned, NoCall
<1>1. /\ h \in Handles /\ str[h] \in Structures
      /\ str[h].bufPos <= Len(str[h].buffer) /\ Len(str[h].buffer) <= STREAM_BUFFER_LEN
      /\ IF TextSource(h) THEN passed[h] \in Seq(Seq(Byte)) ELSE passed[h] \in Seq(Byte)
  BY <1>0, AtWork
<1>2. op.out \in Seq(Byte) /\ op.skipLineEnd \in BOOLEAN
  BY <1>0, OpTypes
<1>3. str[h].buffer \in Seq(Byte) /\ str[h].bufPos \in Nat
  BY <1>1 DEF Structures
<1>4. str[h].bufPos < Len(str[h].buffer)
  <2>1. Len(str[h].buffer) \in Nat
    BY <1>3
  <2> QED
    BY <1>3, <2>1 DEF takeByte, BufferRead
<1>5. /\ s \in Structures /\ s.streamId = str[h].streamId /\ s.isSourceStream = str[h].isSourceStream
      /\ s.bufPos = str[h].bufPos + 1 /\ s.buffer = str[h].buffer /\ s.streamState = str[h].streamState
  <2>1. str[h].bufPos + 1 \in Nat
    BY <1>3
  <2> QED
    BY <1>1, <2>1, MovedStructure
<1>6. s.bufPos <= Len(s.buffer) /\ Len(s.buffer) <= STREAM_BUFFER_LEN
  <2>1. Len(str[h].buffer) \in Nat
    BY <1>3
  <2> QED
    BY <1>1, <1>3, <1>4, <1>5, <2>1
<1>7. c \in Byte /\ c = str[h].buffer[str[h].bufPos + 1]
  <2>1. str[h].bufPos + 1 \in 1 .. Len(str[h].buffer)
    BY <1>3, <1>4
  <2> QED
    BY <1>3, <1>5, <2>1
<1>8. \/ ~TextSource(h) /\ continue(s, Append(op.out, c), FALSE)
      \/ TextSource(h) /\ continue(s, op.out, FALSE)
      \/ TextSource(h) /\ return(s, IF keepNL THEN Append(op.out, LF) ELSE op.out)
      \/ TextSource(h) /\ continue(s, op.out, op.skipLineEnd)
      \/ TextSource(h) /\ continue(s, Append(op.out, c), FALSE)
  BY DEF takeByte
<1>9. h \notin failed => (s.streamState \in {STATE_SOURCE_ENDED, STATE_CLOSED} => AllRead(h))
  BY <1>0, <1>5, BeforeRead
<1>10. Append(op.out, c) \in Seq(Byte) /\ (IF keepNL THEN Append(op.out, LF) ELSE op.out) \in Seq(Byte)
  <2>1. LF \in Byte
    BY DEF Byte
  <2> QED
    BY <1>2, <1>7, <2>1, AppendProperties
<1>11. h \notin failed /\ ~TextSource(h) => Complete(h, passed[h], Append(op.out, c), s)
  <2> SUFFICES ASSUME h \notin failed, ~TextSource(h)
               PROVE  Complete(h, passed[h], Append(op.out, c), s)
    OBVIOUS
  <2>1. Complete(h, passed[h], op.out, str[h]) /\ passed[h] \in Seq(Byte)
    BY <1>0, <1>1, BeforeRead
  <2> HIDE DEF s, c
  <2>2. Complete(h, passed[h], Append(op.out, str[h].buffer[str[h].bufPos + 1]), s)
    BY <1>2, <1>3, <1>4, <1>5, <2>1, OneTaken
  <2> QED
    BY <1>7, <2>2
<1> HIDE DEF s, c
<1>12. CASE ~TextSource(h) /\ continue(s, Append(op.out, c), FALSE)
  BY <1>0, <1>5, <1>6, <1>9, <1>10, <1>11, <1>12, ContinueInv
<1>13. CASE TextSource(h) /\ continue(s, op.out, FALSE)
  BY <1>0, <1>2, <1>5, <1>6, <1>9, <1>13, ContinueInv
<1>14. CASE TextSource(h) /\ return(s, IF keepNL THEN Append(op.out, LF) ELSE op.out)
  <2> DEFINE out == IF keepNL THEN Append(op.out, LF) ELSE op.out
  <2>1. out \in Seq(Byte) /\ return(s, out)
    BY <1>10, <1>14
  <2> HIDE DEF out
  <2> QED
    BY <1>0, <1>5, <1>6, <1>9, <1>14, <2>1, ReturnInv
<1>15. CASE TextSource(h) /\ continue(s, op.out, op.skipLineEnd)
  BY <1>0, <1>2, <1>5, <1>6, <1>9, <1>15, ContinueInv
<1>16. CASE TextSource(h) /\ continue(s, Append(op.out, c), FALSE)
  BY <1>0, <1>5, <1>6, <1>9, <1>10, <1>16, ContinueInv
<1> QED
  BY <1>8, <1>12, <1>13, <1>14, <1>15, <1>16

(* A new block takes the place of one that is used up.                     *)
LEMMA NextBlock ==
  ASSUME NEW h, NEW q, NEW out \in Seq(Byte), NEW data \in Seq(Byte),
         NEW r \in Structures, r.bufPos >= Len(r.buffer),
         NEW s, s.buffer = data, s.bufPos = 0,
         q \o (out \o Rest(r) \o data) = SubSeq(Content(h), 1, objs[objOf[h]].pos)
  PROVE  Complete(h, q, out, s)
<1>1. r.buffer \in Seq(Byte) /\ r.bufPos \in Nat
  BY DEF Structures
<1>2. Rest(r) = <<>>
  <2>1. Len(r.buffer) \in Nat /\ r.bufPos + 1 > Len(r.buffer)
    BY <1>1
  <2>2. SubSeq(r.buffer, r.bufPos + 1, Len(r.buffer)) = <<>>
    BY <1>1, <2>1, SubSeqEmpty
  <2> QED
    BY <2>2 DEF Rest
<1>3. Rest(s) = data
  <2>1. 0 + 1 = 1 /\ SubSeq(data, 1, Len(data)) = data
    BY SubSeqFull
  <2> QED
    BY <2>1, Zenon DEF Rest
<1>4. out \o <<>> = out /\ (out \o data) \o <<>> = out \o data
  <2>1. out \o data \in Seq(Byte)
    BY ConcatProperties
  <2> QED
    BY <2>1, ConcatEmptySeq
<1> QED
  BY <1>2, <1>3, <1>4, Zenon DEF Complete

(* A structure whose buffer is filled, or is what it was.                  *)
Refill(r, b, st, e) == [r EXCEPT !.buffer = b, !.bufPos = 0, !.streamState = st, !.nerr = e]

(* It is a structure of the same stream ...                                *)
LEMMA Refilled ==
  \A r \in Structures, b \in Seq(Byte), st \in States, e \in {"none", "comm", "misuse"} :
    LET s == Refill(r, b, st, e)
    IN /\ s \in Structures /\ s.streamId = r.streamId /\ s.isSourceStream = r.isSourceStream
       /\ s.bufPos = 0 /\ s.buffer = b /\ s.streamState = st
<1> TAKE r \in Structures, b \in Seq(Byte), st \in States, e \in {"none", "comm", "misuse"}
<1>1. 0 \in Nat
  OBVIOUS
<1> DEFINE s == Refill(r, b, st, e)
<1>2. /\ s \in Structures /\ s.streamId = r.streamId /\ s.isSourceStream = r.isSourceStream
      /\ s.bufPos = 0 /\ s.buffer = b /\ s.streamState = st
  BY <1>1 DEF Structures, Refill
<1> QED
  BY <1>2

(* ... and so is one whose request has failed.                             *)
LEMMA NotRefilled ==
  ASSUME NEW r \in Structures, NEW s, s = [r EXCEPT !.bufPos = 0, !.nerr = "comm"]
  PROVE  /\ s \in Structures /\ s.streamId = r.streamId /\ s.isSourceStream = r.isSourceStream
         /\ s.bufPos = 0 /\ s.buffer = r.buffer
<1>1. 0 \in Nat
  OBVIOUS
<1> QED
  BY <1>1 DEF Structures

(* The structure after a request for a block.                              *)
LEMMA AfterRead ==
  ASSUME StreamsInv, NEW h, h = op.h, op.fn = "read", Returned, NEW s, s = afterRead
  PROVE  /\ s \in Structures /\ s.streamId = str[h].streamId /\ s.isSourceStream = str[h].isSourceStream
         /\ s.bufPos <= Len(s.buffer) /\ Len(s.buffer) <= STREAM_BUFFER_LEN
         /\ h \notin failed => /\ s.streamState \in {STATE_SOURCE_ENDED, STATE_CLOSED} => AllRead(h)
                               /\ ~TextSource(h) => Complete(h, passed[h], op.out, s)
<1>0. ValuesOK /\ CallOK /\ ReadingOK /\ op \in Ops /\ call \in Calls
  BY DEF StreamsInv, ValuesOK, CallOK
<1>1. /\ h \in Handles /\ str[h] \in Structures
      /\ str[h].bufPos <= Len(str[h].buffer) /\ Len(str[h].buffer) <= STREAM_BUFFER_LEN
      /\ IF TextSource(h) THEN passed[h] \in Seq(Seq(Byte)) ELSE passed[h] \in Seq(Byte)
  BY <1>0, AtWork
<1>2. str[h].buffer \in Seq(Byte) /\ str[h].bufPos \in Nat
  BY <1>1 DEF Structures
<1>3. call.rc \in {"new", "ok", "invalid", "failed"} /\ call # NoCall
  BY <1>0 DEF CallOK, Returned, NoCall
<1>4. CASE call.rc = "failed"
  <2>1. s = [str[h] EXCEPT !.bufPos = 0, !.nerr = "comm"]
    BY <1>4 DEF afterRead
  <2>2. /\ s \in Structures /\ s.streamId = str[h].streamId /\ s.isSourceStream = str[h].isSourceStream
        /\ s.bufPos = 0 /\ s.buffer = str[h].buffer
    BY <1>1, <2>1, NotRefilled
  <2>3. h \in failed
    BY <1>0, <1>4 DEF CallOK
  <2>4. 0 <= Len(str[h].buffer)
    BY <1>2
  <2> QED
    BY <1>1, <2>2, <2>3, <2>4
<1>5. CASE call.rc # "failed"
  <2>1. /\ s = [str[h] EXCEPT !.buffer = call.data, !.bufPos = 0, !.streamState = call.word2,
                              !.nerr = IF call.rc = "ok" THEN @ ELSE "comm"]
    BY <1>5 DEF afterRead
  <2>2. /\ Len(call.data) <= STREAM_BUFFER_LEN /\ call.word2 \in States
        /\ h \notin failed => (call.word2 \in {STATE_SOURCE_ENDED, STATE_CLOSED} => AllRead(h))
        /\ BufferRead(h)
    BY <1>0, <1>3, <1>5 DEF ReadingOK
  <2>3. call.data \in Seq(Byte) /\ op.out \in Seq(Byte)
    BY <1>0, <1>5, CallTypes, OpTypes DEF Returned
  <2>4. /\ s \in Structures /\ s.streamId = str[h].streamId /\ s.isSourceStream = str[h].isSourceStream
        /\ s.bufPos = 0 /\ s.buffer = call.data /\ s.streamState = call.word2
    <3> DEFINE e == IF call.rc = "ok" THEN str[h].nerr ELSE "comm"
    <3>1. e \in {"none", "comm", "misuse"}
      BY <1>1 DEF Structures
    <3>2. s = Refill(str[h], call.data, call.word2, e)
      BY <2>1, Zenon DEF Refill
    <3>3. str[h] \in Structures /\ call.data \in Seq(Byte) /\ call.word2 \in States
      BY <1>1, <2>2, <2>3
    <3> HIDE DEF e
    <3> QED
      BY <3>1, <3>2, <3>3, Refilled
  <2>5. 0 <= Len(call.data)
    BY <2>3
  <2>6. ASSUME h \notin failed, ~TextSource(h)
        PROVE  Complete(h, passed[h], op.out, s)
    <3>1. passed[h] \o (op.out \o Rest(str[h]) \o call.data) = SubSeq(Content(h), 1, objs[objOf[h]].pos)
      BY <2>6, BeforeRead
    <3>2. str[h].bufPos >= Len(str[h].buffer)
      BY <2>2 DEF BufferRead
    <3> QED
      BY <1>1, <2>3, <2>4, <3>1, <3>2, NextBlock
  <2> QED
    BY <2>2, <2>4, <2>5, <2>6
<1> QED
  BY <1>4, <1>5

(* A read has its answer and goes on or returns.                           *)
LEMMA HaveBlockInv ==
  ASSUME StreamsInv, haveBlock
  PROVE  StreamsInv'
<1> SUFFICES ASSUME NEW h, h = op.h, NEW s, s = afterRead
             PROVE  StreamsInv'
  OBVIOUS
<1>0. /\ ValuesOK /\ op.fn = "read" /\ op \in Ops /\ call' = NoCall /\ Returned
      /\ UNCHANGED <<opened, lineEndMode, objOf>> /\ localStep
  BY DEF haveBlock, StreamsInv, ValuesOK
<1>1. h \in Handles /\ IF TextSource(h) THEN passed[h] \in Seq(Seq(Byte)) ELSE passed[h] \in Seq(Byte)
  BY <1>0, AtWork
<1>2. op.out \in Seq(Byte) /\ op.skipLineEnd \in BOOLEAN
  BY <1>0, OpTypes
<1>3. /\ s \in Structures /\ s.streamId = str[h].streamId /\ s.isSourceStream = str[h].isSourceStream
      /\ s.bufPos <= Len(s.buffer) /\ Len(s.buffer) <= STREAM_BUFFER_LEN
      /\ h \notin failed => /\ s.streamState \in {STATE_SOURCE_ENDED, STATE_CLOSED} => AllRead(h)
                            /\ ~TextSource(h) => Complete(h, passed[h], op.out, s)
  BY <1>0, AfterRead
<1>4. \/ continue(s, op.out, op.skipLineEnd)
      \/ return(s, op.out)
      \/ TextSource(h) /\ str' = [str EXCEPT ![h] = s] /\ op' = NoOp /\ UNCHANGED passed
  BY DEF haveBlock
<1>5. CASE continue(s, op.out, op.skipLineEnd)
  BY <1>0, <1>2, <1>3, <1>5, ContinueInv
<1>6. CASE return(s, op.out)
  BY <1>0, <1>2, <1>3, <1>6, ReturnInv
<1>7. CASE TextSource(h) /\ str' = [str EXCEPT ![h] = s] /\ op' = NoOp /\ UNCHANGED passed
  <2>1. Sets(h, s) /\ Passes(h, passed[h])
    BY <1>0, <1>1, <1>7, SameFunctions DEF Sets
  <2>2. op' = NoOp /\ op' \in Ops
    BY <1>7 DEF Ops
  <2> QED
    BY <1>0, <1>1, <1>3, <1>7, <2>1, <2>2, ReadStep
<1> QED
  BY <1>4, <1>5, <1>6, <1>7

(* A read returns at the end of the stream, or with its buffer full.       *)
LEMMA EndReadInv ==
  ASSUME StreamsInv, endRead
  PROVE  StreamsInv'
<1> SUFFICES ASSUME NEW h, h = op.h
             PROVE  StreamsInv'
  OBVIOUS
<1>0. /\ ValuesOK /\ op.fn = "read" /\ op \in Ops /\ call' = NoCall /\ ~Returned
      /\ UNCHANGED <<opened, lineEndMode, objOf>> /\ localStep /\ return(str[h], op.out)
  BY DEF endRead, StreamsInv, ValuesOK, Returned, NoCall
<1>1. /\ str[h] \in Structures
      /\ str[h].bufPos <= Len(str[h].buffer) /\ Len(str[h].buffer) <= STREAM_BUFFER_LEN
  BY <1>0, AtWork
<1>2. op.out \in Seq(Byte)
  BY <1>0, OpTypes
<1>3. h \notin failed => /\ str[h].streamState \in {STATE_SOURCE_ENDED, STATE_CLOSED} => AllRead(h)
                         /\ ~TextSource(h) => Complete(h, passed[h], op.out, str[h])
  BY <1>0, BeforeRead
<1> QED
  BY <1>0, <1>1, <1>2, <1>3, ReturnInv

(* Writing and closing.                                                    *)

(* A function that writes, flushes or closes goes on for its stream.       *)
LEMMA WriteStep ==
  ASSUME StreamsInv, clientStep,
         NEW h, h = op.h, op.fn \in {"write", "flush", "close"},
         NEW s \in Structures, Sets(h, s),
         s.streamId = str[h].streamId, s.isSourceStream = str[h].isSourceStream,
         s.bufPos = str[h].bufPos, s.bufPos <= Len(s.buffer), Len(s.buffer) <= STREAM_BUFFER_LEN,
         NEW q, Passes(h, q), IF TextSource(h) THEN q \in Seq(Seq(Byte)) ELSE q \in Seq(Byte),
         op' \in Ops, op' = NoOp \/ (op'.h = h /\ op'.fn \in {"write", "flush", "close", "closing"}),
         call' \in Calls, ~(op'.fn = "closing" /\ Returned'),
         CallOK', ReadOK(h)', WriteOK(h)'
  PROVE  StreamsInv'
<1>1. /\ h \in 1 .. opened /\ str[h].open
      /\ ~str[h].isSourceStream => str[h].bufPos = 0
  BY AtWork
<1>2. UNCHANGED <<opened, lineEndMode, objOf>> /\ localStep
  BY DEF clientStep
<1>3. Turn(h) /\ op'.fn # "open"
  BY DEF Turn, NoOp
<1>4. ~s.isSourceStream => s.bufPos = 0
  BY <1>1
<1> QED
  BY <1>1, <1>2, <1>3, <1>4, LocalStep

(* Of the parts of CallOK only one is about such a function.               *)
LEMMA WritingCall ==
  ASSUME op' \in Ops, op'.fn \in {"write", "flush", "close"}, WritingOK', op'.h \in 1 .. opened',
         Returned' => /\ call'.rc \in {"new", "ok", "invalid", "failed"}
                      /\ call'.rc = "failed" => op'.h \in failed' /\ failures' # 0
  PROVE  CallOK'
<1>1. OpenOK' /\ ReadingOK' /\ ClosingOK'
  BY DEF OpenOK, ReadingOK, ClosingOK
<1>2. op' # NoOp
  BY DEF NoOp
<1> QED
  BY <1>1, <1>2 DEF CallOK

(* A function has returned.                                                *)
LEMMA NoCallLeft ==
  ASSUME op' = NoOp, call' = NoCall
  PROVE  CallOK' /\ ~Returned' /\ op' \in Ops /\ call' \in Calls /\ op'.fn = "none"
<1>1. op'.fn = "none" /\ call'.state = "none"
  BY DEF NoOp, NoCall
<1>2. OpenOK' /\ ReadingOK' /\ WritingOK' /\ ClosingOK'
  BY <1>1 DEF OpenOK, ReadingOK, WritingOK, ClosingOK
<1>3. ~Returned'
  BY <1>1 DEF Returned
<1> QED
  BY <1>1, <1>2, <1>3 DEF CallOK, Ops, Calls

(* The function that is at work on a sink.                                 *)
LEMMA AtSink ==
  ASSUME StreamsInv, NEW h, h = op.h, op.fn \in {"write", "flush", "close"}, ~str[h].isSourceStream
  PROVE  /\ h \in 1 .. opened /\ h \in Handles /\ str[h].open /\ str[h] \in Structures
         /\ ~program[h].isSource /\ passed[h] \in Seq(Byte)
         /\ str[h].buffer \in Seq(Byte) /\ str[h].bufPos = 0 /\ Len(str[h].buffer) <= STREAM_BUFFER_LEN
         /\ objOf[h] # 0 /\ Content(h) \in Seq(Byte)
         /\ h \notin failed =>
              passed[h] = IF Returned THEN Content(h) ELSE Content(h) \o str[h].buffer
<1>0. ValuesOK /\ WritingOK /\ \A k \in Handles : WriteOK(k)
  BY DEF StreamsInv, CallOK
<1>1. /\ h \in 1 .. opened /\ h \in Handles /\ str[h].open /\ str[h] \in Structures
      /\ ~program[h].isSource /\ str[h].bufPos = 0 /\ Len(str[h].buffer) <= STREAM_BUFFER_LEN
      /\ IF TextSource(h) THEN passed[h] \in Seq(Seq(Byte)) ELSE passed[h] \in Seq(Byte)
      /\ objOf[h] \in DOMAIN objs
  BY AtWork
<1>2. ~TextSource(h)
  BY <1>1 DEF TextSource
<1>3. str[h].buffer \in Seq(Byte)
  BY <1>1 DEF Structures
<1>4. objOf[h] # 0 /\ Content(h) \in Seq(Byte)
  BY <1>0, <1>1, ObjectTypes DEF Content
<1>5. WriteOK(h)
  BY <1>0, <1>1
<1>6. Busy({"write", "flush", "close"}, h)
  BY DEF Busy
<1> QED
  BY <1>1, <1>2, <1>3, <1>4, <1>5, <1>6 DEF WriteOK

(* nwrite, nputstr or nflush returns.                                      *)
LEMMA EndWriteInv ==
  ASSUME StreamsInv, endWrite
  PROVE  StreamsInv'
<1> SUFFICES ASSUME NEW h, h = op.h
             PROVE  StreamsInv'
  OBVIOUS
<1>0. /\ ValuesOK /\ op.fn \in {"write", "flush"} /\ call = NoCall /\ ~Returned /\ op' = NoOp
      /\ UNCHANGED <<str, call, passed>> /\ clientStep /\ WriteOK(h)
  <2>1. /\ op.fn \in {"write", "flush"} /\ call = NoCall /\ op' = NoOp
        /\ UNCHANGED <<str, call, passed>> /\ clientStep
    BY DEF endWrite
  <2>2. h \in Handles
    BY <2>1, AtWork
  <2> QED
    BY <2>1, <2>2 DEF StreamsInv, Returned, NoCall
<1>1. /\ h \in 1 .. opened /\ h \in Handles /\ str[h].open /\ str[h] \in Structures
      /\ str[h].bufPos <= Len(str[h].buffer) /\ Len(str[h].buffer) <= STREAM_BUFFER_LEN
      /\ IF TextSource(h) THEN passed[h] \in Seq(Seq(Byte)) ELSE passed[h] \in Seq(Byte)
      /\ ~str[h].isSourceStream
  BY <1>0, AtWork
<1>2. UNCHANGED <<program, objs, objOf, failed>>
  BY <1>0 DEF clientStep, localStep, remoteVars
<1>3. call' = NoCall
  BY <1>0
<1>4. CallOK' /\ ~Returned' /\ op' \in Ops /\ call' \in Calls /\ op'.fn = "none"
  BY <1>0, <1>3, NoCallLeft
<1>5. Sets(h, str[h]) /\ Passes(h, passed[h])
  BY <1>0, <1>1, SameFunctions
<1>6. ReadOK(h)'
  BY <1>0, <1>1, SinkReads
<1>7. WriteOK(h)'
  BY <1>0, <1>2, <1>4, SameWrites
<1> QED
  BY <1>0, <1>1, <1>4, <1>5, <1>6, <1>7, WriteStep

(* A full buffer, or one that is flushed, is sent.                         *)
LEMMA NflushInnerInv ==
  ASSUME StreamsInv, nflush_inner
  PROVE  StreamsInv'
<1> SUFFICES ASSUME NEW h, h = op.h
             PROVE  StreamsInv'
  OBVIOUS
<1>0. /\ op.fn \in {"write", "flush", "close"} /\ (op.fn = "write" \/ Sink(h))
      /\ UNCHANGED <<str, op, passed>> /\ clientStep
      /\ invoke("BULKSINK_WRITE", str[h].streamId, str[h].buffer)
  BY DEF nflush_inner
<1>1. ~str[h].isSourceStream
  BY <1>0, AtWork DEF Sink
<1>2. /\ h \in 1 .. opened /\ h \in Handles /\ str[h].open /\ str[h] \in Structures
      /\ ~program[h].isSource /\ passed[h] \in Seq(Byte)
      /\ str[h].buffer \in Seq(Byte) /\ str[h].bufPos = 0 /\ Len(str[h].buffer) <= STREAM_BUFFER_LEN
  BY <1>0, <1>1, AtSink
<1>3. ValuesOK /\ WriteOK(h) /\ op \in Ops
  BY <1>2 DEF StreamsInv, ValuesOK
<1>4. str[h].streamId \in Nat /\ "BULKSINK_WRITE" \in Commands
  BY <1>2 DEF Structures, Commands
<1>5. /\ call = NoCall /\ ~Returned /\ ~Returned' /\ call' \in Calls /\ call' # NoCall
      /\ call'.state = "sent" /\ call'.cmd = "BULKSINK_WRITE" /\ call'.id = str[h].streamId
      /\ call'.data = str[h].buffer
  BY <1>0, <1>2, <1>4, InvokeCall
<1>6. UNCHANGED <<opened, program, objs, objOf, failed>>
  BY <1>0 DEF clientStep, localStep, remoteVars
<1>7. op' \in Ops /\ op'.fn \in {"write", "flush", "close"} /\ op'.h = h /\ op'.h \in 1 .. opened'
  BY <1>0, <1>2, <1>3, <1>6
<1>8. WritingOK'
  BY <1>0, <1>1, <1>2, <1>5, <1>7 DEF WritingOK, Request, Sink
<1>9. CallOK'
  BY <1>5, <1>7, <1>8, WritingCall
<1>10. Sets(h, str[h]) /\ Passes(h, passed[h])
  BY <1>0, <1>2, <1>3, SameFunctions
<1>11. ReadOK(h)'
  BY <1>0, <1>1, SinkReads
<1>12. WriteOK(h)'
  BY <1>0, <1>3, <1>5, <1>6, SameWrites
<1>13. ~TextSource(h) /\ str[h].bufPos <= Len(str[h].buffer)
  BY <1>2 DEF TextSource
<1> QED
  BY <1>0, <1>2, <1>5, <1>7, <1>9, <1>10, <1>11, <1>12, <1>13, WriteStep

(* What a function leaves in the buffer of a sink.                         *)
Buffered(r, b) == [r EXCEPT !.buffer = b]

(* It is a structure of the same stream.                                   *)
LEMMA BufferedStructure ==
  \A r \in Structures, b \in Seq(Byte) :
    LET s == Buffered(r, b)
    IN /\ s \in Structures /\ s.streamId = r.streamId /\ s.isSourceStream = r.isSourceStream
       /\ s.bufPos = r.bufPos /\ s.buffer = b /\ s.streamState = r.streamState /\ s.open = r.open
<1> TAKE r \in Structures, b \in Seq(Byte)
<1> DEFINE s == Buffered(r, b)
<1>1. /\ s \in Structures /\ s.streamId = r.streamId /\ s.isSourceStream = r.isSourceStream
      /\ s.bufPos = r.bufPos /\ s.buffer = b /\ s.streamState = r.streamState /\ s.open = r.open
  BY DEF Structures, Buffered
<1> QED
  BY <1>1

(* A byte more at the end of a buffer is a byte more at the end of all.    *)
LEMMA ConcatAppend ==
  ASSUME NEW f \in Seq(Byte), NEW b \in Seq(Byte), NEW c \in Byte
  PROVE  Append(f \o b, c) = f \o Append(b, c)
<1>1. f \o b \in Seq(Byte) /\ <<c>> \in Seq(Byte)
  BY ConcatProperties
<1>2. Append(f \o b, c) = (f \o b) \o <<c>>
  BY <1>1, AppendIsConcat
<1>3. Append(b, c) = b \o <<c>>
  BY AppendIsConcat
<1>4. (f \o b) \o <<c>> = f \o (b \o <<c>>)
  BY <1>1, ConcatAssociative
<1> QED
  BY <1>2, <1>3, <1>4, Zenon

(* A byte is put into the buffer: the bytes written are still those in     *)
(* the file and those in the buffer.                                       *)
LEMMA PutByteInv ==
  ASSUME StreamsInv, putByte
  PROVE  StreamsInv'
<1> SUFFICES ASSUME NEW h, h = op.h
             PROVE  StreamsInv'
  OBVIOUS
<1> DEFINE c == Head(op.rest)
           b == Append(str[h].buffer, c)
           s == Buffered(str[h], b)
           q == Append(passed[h], c)
<1>0. /\ op.fn = "write" /\ call = NoCall /\ op.rest # <<>> /\ Len(str[h].buffer) < STREAM_BUFFER_LEN
      /\ UNCHANGED call /\ clientStep
  BY DEF putByte
<1>1. ~str[h].isSourceStream /\ objOf[h] \in DOMAIN objs
  BY <1>0, AtWork
<1>2. /\ h \in 1 .. opened /\ h \in Handles /\ str[h].open /\ str[h] \in Structures
      /\ ~program[h].isSource /\ passed[h] \in Seq(Byte)
      /\ str[h].buffer \in Seq(Byte) /\ str[h].bufPos = 0
      /\ objOf[h] # 0 /\ Content(h) \in Seq(Byte)
      /\ h \notin failed => passed[h] = IF Returned THEN Content(h) ELSE Content(h) \o str[h].buffer
  BY <1>0, <1>1, AtSink
<1>3. ValuesOK /\ op \in Ops
  BY DEF StreamsInv, ValuesOK
<1>4. op \in [fn : {"write"}, h : Handles, rest : Seq(Byte)] /\ op.rest \in Seq(Byte)
  BY <1>0, <1>3, OpTypes
<1>5. c \in Byte /\ Tail(op.rest) \in Seq(Byte)
  BY <1>0, <1>4
<1>6. b \in Seq(Byte) /\ Len(b) = Len(str[h].buffer) + 1 /\ q \in Seq(Byte)
  BY <1>2, <1>5
<1>7. 0 <= Len(b) /\ Len(b) <= STREAM_BUFFER_LEN
  <2>1. STREAM_BUFFER_LEN \in Nat
    BY StreamBounds
  <2>2. Len(str[h].buffer) \in Nat
    BY <1>2
  <2> QED
    BY <1>0, <1>6, <2>1, <2>2
<1>8. op' = [op EXCEPT !.rest = Tail(op.rest)]
  BY DEF putByte
<1>9. op' \in [fn : {"write"}, h : Handles, rest : Seq(Byte)] /\ op'.fn = "write" /\ op'.h = h
  BY <1>4, <1>5, <1>8
<1>10. Sets(h, s) /\ Passes(h, q)
  <2>1. str \in [Handles -> {NoStream} \cup Structures] /\ passed \in [Handles -> Seq(Byte) \cup Seq(Seq(Byte))]
    BY <1>3 DEF ValuesOK
  <2>2. str' = [str EXCEPT ![h].buffer = Append(@, c)] /\ passed' = [passed EXCEPT ![h] = Append(@, c)]
    BY DEF putByte
  <2> HIDE DEF c
  <2> QED
    BY <1>2, <2>1, <2>2 DEF Sets, Passes, Buffered
<1> HIDE DEF c, b, s, q
<1>11. /\ s \in Structures /\ s.streamId = str[h].streamId /\ s.isSourceStream = str[h].isSourceStream
       /\ s.bufPos = str[h].bufPos /\ s.buffer = b /\ s.open = str[h].open
  <2>1. s = Buffered(str[h], b)
    BY DEF s
  <2>2. str[h] \in Structures /\ b \in Seq(Byte)
    BY <1>2, <1>6
  <2> QED
    BY <2>1, <2>2, BufferedStructure
<1>12. str'[h] = s /\ passed'[h] = q
  BY <1>2, <1>3, <1>10, SetsOne
<1>13. UNCHANGED <<opened, program, objs, objOf, failed>>
  BY <1>0 DEF clientStep, localStep, remoteVars
<1>14. op' \in Ops /\ op'.h \in 1 .. opened'
  BY <1>2, <1>9, <1>13 DEF Ops
<1>15. call' = NoCall /\ ~Returned /\ ~Returned' /\ call'.state = "none" /\ call' \in Calls
  BY <1>0 DEF Returned, NoCall, Calls
<1>16. CallOK'
  <2>1. WritingOK'
    BY <1>1, <1>2, <1>9, <1>11, <1>12, <1>15 DEF WritingOK, Request, Sink
  <2> QED
    BY <1>9, <1>14, <1>15, <2>1, WritingCall
<1>17. ReadOK(h)'
  BY <1>1, <1>11, <1>12, SinkReads
<1>18. WriteOK(h)'
  <2>1. h \notin failed => q = Content(h) \o b
    <3>1. Append(Content(h) \o str[h].buffer, c) = Content(h) \o Append(str[h].buffer, c)
      BY <1>2, <1>5, ConcatAppend
    <3> QED
      BY <1>2, <1>15, <3>1 DEF q, b
  <2>2. Content(h)' = Content(h)
    BY <1>13 DEF Content
  <2> QED
    BY <1>2, <1>11, <1>12, <1>13, <1>15, <2>1, <2>2 DEF WriteOK
<1>19. ~TextSource(h) /\ s.bufPos <= Len(s.buffer) /\ Len(s.buffer) <= STREAM_BUFFER_LEN
  BY <1>2, <1>7, <1>11 DEF TextSource
<1> QED
  BY <1>0, <1>2, <1>6, <1>9, <1>10, <1>11, <1>14, <1>15, <1>16, <1>17, <1>18, <1>19, WriteStep

(* nclose has flushed its buffer and asks for the stream to be closed.     *)
LEMMA SendCloseInv ==
  ASSUME StreamsInv, sendClose
  PROVE  StreamsInv'
<1> SUFFICES ASSUME NEW h, h = op.h
             PROVE  StreamsInv'
  OBVIOUS
<1> DEFINE cmd == IF Source(h) THEN "BULKSRC_CLOSE" ELSE "BULKSINK_CLOSE"
<1>0. /\ op.fn = "close" /\ (Source(h) \/ str[h].buffer = <<>>)
      /\ invoke(cmd, str[h].streamId, <<>>)
      /\ op' = [op EXCEPT !.fn = "closing"] /\ UNCHANGED <<str, passed>> /\ clientStep
  BY DEF sendClose
<1>1. /\ h \in 1 .. opened /\ h \in Handles /\ str[h].open /\ str[h] \in Structures
      /\ str[h].isSourceStream \in BOOLEAN
      /\ str[h].bufPos <= Len(str[h].buffer) /\ Len(str[h].buffer) <= STREAM_BUFFER_LEN
      /\ IF TextSource(h) THEN passed[h] \in Seq(Seq(Byte)) ELSE passed[h] \in Seq(Byte)
  BY <1>0, AtWork
<1>2. ValuesOK /\ op \in Ops /\ ReadOK(h) /\ WriteOK(h)
  BY <1>1 DEF StreamsInv, ValuesOK
<1>3. str[h].streamId \in Nat /\ cmd \in Commands /\ <<>> \in Seq(Byte)
  BY <1>1, EmptySeq DEF Structures, Commands
<1> HIDE DEF cmd
<1>4. /\ call = NoCall /\ ~Returned /\ ~Returned' /\ call' \in Calls /\ call' # NoCall
      /\ call'.state = "sent" /\ call'.cmd = cmd /\ call'.id = str[h].streamId
  BY <1>0, <1>3, InvokeCall
<1>5. UNCHANGED <<opened, program, objs, objOf, failed>>
  BY <1>0 DEF clientStep, localStep, remoteVars
<1>6. op' \in Ops /\ op'.fn = "closing" /\ op'.h = h /\ op' # NoOp
  <2>1. op \in [fn : {"open", "flush", "close", "closing"}, h : Handles]
    BY <1>0, <1>2, OpTypes
  <2>2. op' \in [fn : {"open", "flush", "close", "closing"}, h : Handles] /\ op'.fn = "closing" /\ op'.h = h
    BY <1>0, <2>1
  <2> QED
    BY <2>2 DEF Ops, NoOp
<1>7. CallOK'
  <2>1. OpenOK' /\ ReadingOK' /\ WritingOK'
    BY <1>6 DEF OpenOK, ReadingOK, WritingOK
  <2>2. Source(h)' <=> Source(h)
    BY <1>0 DEF Source
  <2>3. ClosingOK'
    BY <1>0, <1>1, <1>4, <1>6, <2>2 DEF ClosingOK, Request, Sink, Source, cmd
  <2> QED
    BY <1>1, <1>4, <1>5, <1>6, <2>1, <2>3 DEF CallOK
<1>8. OutOf(h)' = OutOf(h) /\ Arrived(h)' = Arrived(h)
  BY <1>0, <1>6 DEF OutOf, Arrived, Busy
<1>9. ReadOK(h)'
  BY <1>0, <1>2, <1>5, <1>8, SameReads
<1>10. WriteOK(h)'
  BY <1>0, <1>2, <1>4, <1>5, SameWrites
<1>11. Sets(h, str[h]) /\ Passes(h, passed[h])
  BY <1>0, <1>1, <1>2, SameFunctions
<1> QED
  BY <1>0, <1>1, <1>4, <1>6, <1>7, <1>9, <1>10, <1>11, WriteStep

(* The structure after a block was sent.                                   *)
Emptied(r, st, e) == [r EXCEPT !.buffer = <<>>, !.streamState = st, !.nerr = e]

(* It is a structure of the same stream.                                   *)
LEMMA EmptiedStructure ==
  \A r \in Structures, st \in States, e \in {"none", "comm", "misuse"} :
    LET s == Emptied(r, st, e)
    IN /\ s \in Structures /\ s.streamId = r.streamId /\ s.isSourceStream = r.isSourceStream
       /\ s.bufPos = r.bufPos /\ s.buffer = <<>> /\ s.open = r.open
<1> TAKE r \in Structures, st \in States, e \in {"none", "comm", "misuse"}
<1>1. <<>> \in Seq(Byte)
  OBVIOUS
<1> DEFINE s == Emptied(r, st, e)
<1>2. /\ s \in Structures /\ s.streamId = r.streamId /\ s.isSourceStream = r.isSourceStream
      /\ s.bufPos = r.bufPos /\ s.buffer = <<>> /\ s.open = r.open
  BY <1>1 DEF Structures, Emptied
<1> QED
  BY <1>2

(* The block has been sent: what was in the buffer is in the file now, or  *)
(* the stream has failed.                                                  *)
LEMMA FlushedInv ==
  ASSUME StreamsInv, flushed
  PROVE  StreamsInv'
<1> SUFFICES ASSUME NEW h, h = op.h
             PROVE  StreamsInv'
  OBVIOUS
<1> DEFINE st == IF call.rc = "failed" THEN str[h].streamState ELSE call.word2
           e  == IF call.rc = "ok" THEN str[h].nerr ELSE "comm"
           s  == Emptied(str[h], st, e)
<1>0. /\ op.fn \in {"write", "flush", "close"} /\ Returned /\ call' = NoCall
      /\ UNCHANGED <<op, passed>> /\ clientStep
  BY DEF flushed
<1>1. ValuesOK /\ op \in Ops /\ WritingOK
  BY DEF StreamsInv, ValuesOK, CallOK
<1>2. ~str[h].isSourceStream
  BY <1>0, <1>1 DEF WritingOK, Sink, Returned, NoCall
<1>3. /\ h \in 1 .. opened /\ h \in Handles /\ str[h].open /\ str[h] \in Structures
      /\ ~program[h].isSource /\ passed[h] \in Seq(Byte)
      /\ str[h].buffer \in Seq(Byte) /\ str[h].bufPos = 0
      /\ objOf[h] # 0 /\ Content(h) \in Seq(Byte)
      /\ h \notin failed => passed[h] = IF Returned THEN Content(h) ELSE Content(h) \o str[h].buffer
  BY <1>0, <1>2, AtSink
<1>4. st \in States /\ e \in {"none", "comm", "misuse"}
  <2>1. call.rc # "failed" => call.word2 \in States
    BY <1>0, <1>1 DEF WritingOK
  <2>2. str[h].streamState \in States /\ str[h].nerr \in {"none", "comm", "misuse"}
    BY <1>3 DEF Structures
  <2> QED
    BY <2>1, <2>2
<1>5. Sets(h, s) /\ Passes(h, passed[h])
  <2>1. str \in [Handles -> {NoStream} \cup Structures]
    BY <1>1 DEF ValuesOK
  <2>2. str' = [str EXCEPT
          ![h].buffer = <<>>,
          ![h].streamState = IF call.rc = "failed" THEN @ ELSE call.word2,
          ![h].nerr = IF call.rc = "ok" THEN @ ELSE "comm"]
    BY DEF flushed
  <2>3. Sets(h, s)
    BY <1>3, <2>1, <2>2 DEF Sets, Emptied
  <2> QED
    BY <1>0, <1>1, <1>3, <2>3, SameFunctions
<1> HIDE DEF st, e, s
<1>6. /\ s \in Structures /\ s.streamId = str[h].streamId /\ s.isSourceStream = str[h].isSourceStream
      /\ s.bufPos = str[h].bufPos /\ s.buffer = <<>> /\ s.open = str[h].open
  BY <1>3, <1>4, EmptiedStructure DEF s
<1>7. str'[h] = s /\ passed'[h] = passed[h]
  BY <1>1, <1>3, <1>5, SetsOne
<1>8. UNCHANGED <<opened, program, objs, objOf, failed>>
  BY <1>0 DEF clientStep, localStep, remoteVars
<1>9. op' \in Ops /\ op'.fn \in {"write", "flush", "close"} /\ op'.h = h /\ op'.h \in 1 .. opened'
  BY <1>0, <1>1, <1>3, <1>8
<1>10. ~Returned' /\ call'.state = "none" /\ call' \in Calls
  BY <1>0 DEF Returned, NoCall, Calls
<1>11. CallOK'
  <2>1. Sink(h)'
    BY <1>2, <1>3, <1>6, <1>7 DEF Sink
  <2>2. WritingOK'
    BY <1>0, <1>3, <1>6, <1>7, <1>9, <1>10, <2>1 DEF WritingOK, Request
  <2> QED
    BY <1>9, <1>10, <2>2, WritingCall
<1>12. ReadOK(h)'
  BY <1>2, <1>6, <1>7, SinkReads
<1>13. WriteOK(h)'
  <2>1. Content(h)' = Content(h) /\ Content(h) \o <<>> = Content(h)
    BY <1>3, <1>8, ConcatEmptySeq DEF Content
  <2> QED
    BY <1>0, <1>3, <1>6, <1>7, <1>8, <1>10, <2>1 DEF WriteOK
<1>14. ~TextSource(h) /\ s.bufPos <= Len(s.buffer) /\ Len(s.buffer) <= STREAM_BUFFER_LEN
  <2>1. Len(s.buffer) = 0 /\ 0 <= STREAM_BUFFER_LEN
    BY <1>6, StreamBounds
  <2> QED
    BY <1>3, <1>6, <2>1 DEF TextSource
<1> QED
  BY <1>0, <1>3, <1>5, <1>6, <1>9, <1>10, <1>11, <1>12, <1>13, <1>14, WriteStep

-----------------------------------------------------------------------------
(* Opening and closing: handles come and go.                               *)

SameTables ==
  UNCHANGED <<program, bulkSources, bulkSinks, lastBulkSourceId, lastBulkSinkId, objs, dispatcher,
              failures, failed>>

(* The tables are what they were, and so are the ids.                      *)
LEMMA TablesKept ==
  ASSUME TablesOK, SameTables
  PROVE  TablesOK'
<1>1. \A table, last, parity : EntriesOK(table, last, parity) => EntriesOK(table, last, parity)'
  BY DEF EntriesOK, SameTables
<1> QED
  BY <1>1 DEF TablesOK, SameTables

(* A handle whose structure stays the same keeps its id, and its place in  *)
(* the table.  No other handle gets the stream of that place.              *)
LEMMA IdKept ==
  ASSUME NEW h \in Handles, IdOK(h), SameTables, str'[h] = str[h], objOf'[h] = objOf[h],
         ~(Busy({"closing"}, h) /\ Returned),
         \A k \in Handles \ failed :
           objOf'[k] = objOf[k] \/ (str[h].open => objOf'[k] # Table(h)[str[h].streamId])
  PROVE  IdOK(h)'
<1>1. UNCHANGED <<program, bulkSources, bulkSinks, failures, failed>>
  BY DEF SameTables
<1>2. Table(h)' = Table(h) /\ Handles' = Handles
  BY <1>1 DEF Table, Handles
<1> QED
  BY <1>1, <1>2 DEF IdOK

(* A handle that is not yet given out.                                     *)
LEMMA NewHandle ==
  ASSUME StreamsInv, opened < Len(program), NEW h, h = opened + 1
  PROVE  /\ h \in Handles /\ h \in 1 .. Len(program) /\ opened \in Nat /\ Len(program) \in Nat
         /\ ~str[h].open /\ objOf[h] = 0 /\ passed[h] = <<>>
         /\ program[h].isSource \in BOOLEAN
         /\ program[h].isSource => program[h].content \in Seq(Byte)
<1>0. ValuesOK /\ \A k \in Handles : HandleOK(k)
  BY DEF StreamsInv
<1>1. opened \in Nat /\ Len(program) \in Nat /\ program \in Programs
  BY <1>0, OpenedTypes DEF ValuesOK
<1>2. h \in 1 .. Len(program) /\ h > opened
  BY <1>1
<1>3. /\ h \in Handles /\ program[h].isSource \in BOOLEAN
      /\ program[h].isSource => program[h].content \in Seq(Byte)
  BY <1>1, <1>2, ProgramTypes
<1>4. HandleOK(h)
  BY <1>0, <1>3
<1> QED
  BY <1>1, <1>2, <1>3, <1>4 DEF HandleOK

(* The next stream of the program is asked for.                            *)
LEMMA OpenStreamInv ==
  ASSUME StreamsInv, openStream
  PROVE  StreamsInv'
<1> SUFFICES ASSUME NEW h, h = opened + 1
             PROVE  StreamsInv'
  OBVIOUS
<1> DEFINE cmd  == IF program[h].isSource THEN "OPEN_SOURCE" ELSE "OPEN_SINK"
           data == IF program[h].isSource THEN program[h].content ELSE <<>>
<1>0. /\ Idle /\ opened < Len(program) /\ opened' = h /\ op' = [fn |-> "open", h |-> h]
      /\ invoke(cmd, 0, data)
      /\ UNCHANGED <<str, lineEndMode, passed, objOf>> /\ localStep
  BY DEF openStream
<1>1. /\ h \in Handles /\ h \in 1 .. Len(program) /\ opened \in Nat /\ Len(program) \in Nat
      /\ ~str[h].open /\ objOf[h] = 0 /\ passed[h] = <<>>
      /\ program[h].isSource \in BOOLEAN
      /\ program[h].isSource => program[h].content \in Seq(Byte)
  BY <1>0, NewHandle
<1>2. /\ op = NoOp /\ op.fn = "none" /\ ValuesOK /\ TablesOK /\ IdsOK /\ ObjectsOK
  BY <1>0, IdleCall DEF StreamsInv, ObjectsOK
<1>3. cmd \in Commands /\ data \in Seq(Byte) /\ 0 \in Nat
  BY <1>1 DEF Commands
<1> HIDE DEF cmd, data
<1>4. /\ call = NoCall /\ ~Returned /\ ~Returned' /\ call' \in Calls /\ call' # NoCall
      /\ call'.state = "sent" /\ call'.cmd = cmd /\ call'.id = 0
  BY <1>0, <1>3, InvokeCall
<1>5. SameTables /\ UNCHANGED <<program, objs, failed, failures, dispatcher>>
  BY <1>0 DEF localStep, remoteVars, managerVars, SameTables
<1>6. op' \in Ops /\ op'.fn = "open" /\ op'.h = h /\ op' # NoOp
  BY <1>0, <1>1 DEF Ops, NoOp
<1>7. ValuesOK'
  <2>1. Handles' = Handles /\ opened' \in 0 .. Len(program')
    BY <1>0, <1>1, <1>5 DEF Handles
  <2>2. failed \subseteq 1 .. opened'
    <3>1. failed \subseteq 1 .. opened
      BY <1>2 DEF ValuesOK
    <3>2. 1 .. opened \subseteq 1 .. opened'
      BY <1>0, <1>1
    <3> QED
      BY <3>1, <3>2
  <2> QED
    BY <1>0, <1>2, <1>4, <1>5, <1>6, <2>1, <2>2 DEF ValuesOK
<1>8. Others(h)
  <2>1. Turn(h)
    BY <1>2, <1>6 DEF Turn
  <2>2. \A k \in Handles : k # h => (k > opened' <=> k > opened)
    <3>1. opened \in Nat /\ opened' = opened + 1
      BY <1>0, <1>1
    <3>2. ASSUME NEW k \in Nat, k # opened + 1
          PROVE  k > opened' <=> k > opened
      BY <3>1, <3>2
    <3>3. \A k \in Handles : k \in Nat
      BY StreamBounds DEF Handles
    <3> QED
      BY <3>2, <3>3
  <2> QED
    BY <1>0, <1>5, <2>1, <2>2 DEF Others
<1>9. HandleOK(h)'
  <2>1. ~(h > opened') /\ ~str'[h].open
    BY <1>0, <1>1
  <2>2. passed'[h] \in Seq(Seq(Byte)) /\ passed'[h] \in Seq(Byte)
    BY <1>0, <1>1
  <2> QED
    BY <2>1, <2>2 DEF HandleOK
<1>10. ReadOK(h)' /\ WriteOK(h)'
  BY <1>0, <1>1 DEF ReadOK, WriteOK, Source
<1>11. TablesOK'
  BY <1>2, <1>5, TablesKept
<1>12. IdsOK'
  <2>1. ASSUME NEW k \in Handles
        PROVE  IdOK(k)'
    <3>1. IdOK(k) /\ ~(Busy({"closing"}, k) /\ Returned)
      BY <1>2, <1>4 DEF IdsOK
    <3> QED
      BY <1>0, <1>5, <3>1, IdKept
  <2>2. \A o : Owned(o) => Owned(o)'
    BY <1>0, <1>2 DEF Owned
  <2>3. Handles' = Handles
    BY DEF Handles
  <2> QED
    BY <1>0, <1>2, <1>5, <2>1, <2>2, <2>3 DEF IdsOK, SameTables
<1>13. CallOK'
  <2>1. ReadingOK' /\ WritingOK' /\ ClosingOK'
    BY <1>6 DEF ReadingOK, WritingOK, ClosingOK
  <2>2. OpenOK'
    BY <1>0, <1>1, <1>4, <1>5, <1>6 DEF OpenOK, Request, cmd
  <2>3. op'.h \in 1 .. opened'
    BY <1>0, <1>1, <1>6
  <2> QED
    BY <1>4, <1>6, <2>1, <2>2, <2>3 DEF CallOK
<1>14. ObjectsOK'
  BY <1>2, <1>5 DEF ObjectsOK
<1> QED
  BY <1>1, <1>7, <1>8, <1>9, <1>10, <1>11, <1>12, <1>13, <1>14, OneHandle

(* What is kept of the handles when a call returns.                        *)
LEMMA ClosedInv ==
  ASSUME StreamsInv, closed
  PROVE  StreamsInv'
<1> SUFFICES ASSUME NEW h, h = op.h
             PROVE  StreamsInv'
  OBVIOUS
<1>0. /\ op.fn = "closing" /\ Returned /\ str' = [str EXCEPT ![h] = NoStream] /\ op' = NoOp /\ call' = NoCall
      /\ UNCHANGED <<passed, opened, lineEndMode, objOf>> /\ localStep
  BY DEF closed, clientStep
<1>1. /\ h \in 1 .. opened /\ h \in Handles /\ str[h].open /\ str[h] \in Structures
      /\ str[h].isSourceStream = program[h].isSource /\ str[h].isSourceStream \in BOOLEAN
      /\ IF TextSource(h) THEN passed[h] \in Seq(Seq(Byte)) ELSE passed[h] \in Seq(Byte)
      /\ objOf[h] \in DOMAIN objs
  BY <1>0, AtWork
<1>2. /\ ValuesOK /\ TablesOK /\ IdsOK /\ ObjectsOK /\ ClosingOK /\ WriteOK(h)
  BY <1>1 DEF StreamsInv, ObjectsOK, CallOK
<1>3. CallOK' /\ ~Returned' /\ op' \in Ops /\ call' \in Calls /\ op'.fn = "none"
  BY <1>0, NoCallLeft
<1>4. SameTables /\ UNCHANGED <<program, objs, failed, failures, dispatcher>>
  BY <1>0 DEF localStep, remoteVars, managerVars, SameTables
<1>5. /\ str'[h] = NoStream /\ ~str'[h].open
      /\ \A k \in Handles : k # h => str'[k] = str[k]
      /\ str' \in [Handles -> {NoStream} \cup Structures]
  <2>1. Sets(h, NoStream) /\ Passes(h, passed[h])
    BY <1>0, <1>1, <1>2, SameFunctions DEF Sets
  <2>2. /\ str'[h] = NoStream
        /\ \A k \in Handles : k # h => str'[k] = str[k]
        /\ str' \in [Handles -> {NoStream} \cup Structures]
    BY <1>1, <1>2, <2>1, SetsOne
  <2> QED
    BY <2>2 DEF NoStream
<1>6. ValuesOK'
  <2>1. Handles' = Handles
    BY DEF Handles
  <2> QED
    BY <1>0, <1>2, <1>3, <1>4, <1>5, <2>1 DEF ValuesOK
<1>7. Others(h)
  <2>1. Turn(h)
    BY <1>3 DEF Turn
  <2> QED
    BY <1>0, <1>4, <1>5, <2>1 DEF Others
<1>8. HandleOK(h)'
  <2>1. ~(h > opened')
    BY <1>0, <1>1, <1>2, OpenedTypes
  <2>2. TextSource(h)' <=> TextSource(h)
    BY <1>4 DEF TextSource
  <2> QED
    BY <1>0, <1>1, <1>5, <2>1, <2>2 DEF HandleOK
<1>9. ReadOK(h)'
  BY <1>5 DEF ReadOK, Source
<1>10. WriteOK(h)'
  <2> SUFFICES ASSUME h \notin failed', objOf'[h] # 0, ~program'[h].isSource
               PROVE  passed'[h] = Content(h)'
    BY <1>5 DEF WriteOK
  <2>1. h \notin failed /\ objOf[h] # 0 /\ ~program[h].isSource
    BY <1>0, <1>4
  <2>2. str[h].buffer = <<>>
    BY <1>0, <1>1, <1>2, <2>1 DEF ClosingOK, Sink
  <2>3. ~Busy({"write", "flush", "close"}, h)
    BY <1>0 DEF Busy
  <2>4. passed[h] = Content(h) \o <<>>
    BY <1>1, <1>2, <2>1, <2>2, <2>3 DEF WriteOK
  <2>5. Content(h) \o <<>> = Content(h)
    <3>1. Content(h) \in Seq(Byte)
      BY <1>1, <1>2, ObjectTypes DEF Content
    <3> QED
      BY <3>1, ConcatEmptySeq
  <2>6. Content(h)' = Content(h)
    BY <1>0, <1>4 DEF Content
  <2> QED
    BY <1>0, <2>4, <2>5, <2>6
<1>11. TablesOK'
  BY <1>2, <1>4, TablesKept
<1>12. IdsOK'
  <2>1. ASSUME NEW k \in Handles
        PROVE  IdOK(k)'
    <3>1. CASE k = h
      BY <1>5, <3>1 DEF IdOK
    <3>2. CASE k # h
      <4>1. IdOK(k) /\ ~(Busy({"closing"}, k) /\ Returned)
        BY <1>2, <3>2 DEF IdsOK, Busy
      <4> QED
        BY <1>0, <1>4, <1>5, <3>2, <4>1, IdKept
    <3> QED
      BY <3>1, <3>2
  <2>2. \A o : Owned(o) /\ o # objOf[h] => Owned(o)'
    BY <1>0, <1>1, <1>5 DEF Owned
  <2>3. Handles' = Handles
    BY DEF Handles
  <2>4. failures = 0 => /\ \A i \in DOMAIN bulkSources : bulkSources[i] # objOf[h]
                        /\ \A i \in DOMAIN bulkSinks : bulkSinks[i] # objOf[h]
    BY <1>0, <1>2 DEF ClosingOK
  <2>5. failures' = 0 => /\ \A i \in DOMAIN bulkSources' : Owned(bulkSources[i])'
                         /\ \A i \in DOMAIN bulkSinks' : Owned(bulkSinks[i])'
    BY <1>2, <1>4, <2>2, <2>4 DEF IdsOK, SameTables
  <2>6. \A f, g \in Handles : objOf'[f] = objOf'[g] => f = g \/ objOf'[f] = 0
    BY <1>0, <1>2 DEF IdsOK
  <2> QED
    BY <2>1, <2>3, <2>5, <2>6 DEF IdsOK
<1>13. ObjectsOK'
  BY <1>2, <1>4 DEF ObjectsOK
<1> QED
  BY <1>1, <1>3, <1>6, <1>7, <1>8, <1>9, <1>10, <1>11, <1>12, <1>13, OneHandle

(* The stream of a handle that is being opened.                            *)
LEMMA AtOpen ==
  ASSUME StreamsInv, op.fn = "open", NEW h, h = op.h
  PROVE  /\ h \in 1 .. opened /\ h \in Handles /\ h = opened /\ opened \in Nat
         /\ ~str[h].open /\ objOf[h] = 0 /\ passed[h] = <<>>
         /\ program[h].isSource \in BOOLEAN /\ program[h].isText \in BOOLEAN
<1>1. ValuesOK /\ CallOK
  BY DEF StreamsInv
<1>2. op # NoOp
  BY DEF NoOp
<1>3. h \in 1 .. opened
  BY <1>1, <1>2 DEF CallOK
<1>4. h = opened /\ ~str[h].open /\ objOf[h] = 0 /\ passed[h] = <<>>
  BY <1>1 DEF CallOK, OpenOK
<1> QED
  BY <1>1, <1>3, <1>4, OpenedTypes

(* No stream was opened.                                                   *)
LEMMA NotOpenedInv ==
  ASSUME StreamsInv, ncfbid2s, call.rc # "new", UNCHANGED <<str, lineEndMode, objOf>>
  PROVE  StreamsInv'
<1> SUFFICES ASSUME NEW h, h = op.h
             PROVE  StreamsInv'
  OBVIOUS
<1>0. /\ op.fn = "open" /\ Returned /\ op' = NoOp /\ call' = NoCall
      /\ UNCHANGED <<opened, passed>> /\ localStep
  BY DEF ncfbid2s
<1>1. /\ h \in 1 .. opened /\ h \in Handles /\ ~str[h].open /\ objOf[h] = 0
  BY <1>0, AtOpen
<1>2. ValuesOK /\ TablesOK /\ IdsOK /\ ObjectsOK /\ CallOK /\ HandleOK(h)
  BY <1>1 DEF StreamsInv, ObjectsOK
<1>3. CallOK' /\ ~Returned' /\ op' \in Ops /\ call' \in Calls /\ op'.fn = "none"
  BY <1>0, NoCallLeft
<1>4. SameTables /\ UNCHANGED <<program, objs, failed, failures, dispatcher>>
  BY <1>0 DEF localStep, remoteVars, managerVars, SameTables
<1>5. failures # 0
  BY <1>0, <1>2 DEF CallOK, OpenOK
<1>6. ValuesOK'
  <2>1. Handles' = Handles
    BY DEF Handles
  <2> QED
    BY <1>0, <1>2, <1>3, <1>4, <2>1 DEF ValuesOK
<1>7. Others(h)
  <2>1. Turn(h)
    BY <1>3 DEF Turn
  <2> QED
    BY <1>0, <1>4, <2>1 DEF Others
<1>8. HandleOK(h)' /\ ReadOK(h)' /\ WriteOK(h)'
  BY <1>0, <1>1, <1>2, <1>4 DEF HandleOK, TextSource, Sink, ReadOK, Source, WriteOK
<1>9. TablesOK'
  BY <1>2, <1>4, TablesKept
<1>10. IdsOK'
  <2>1. ASSUME NEW k \in Handles
        PROVE  IdOK(k)'
    <3>1. IdOK(k) /\ ~(Busy({"closing"}, k) /\ Returned)
      BY <1>0, <1>2 DEF IdsOK, Busy
    <3> QED
      BY <1>0, <1>4, <3>1, IdKept
  <2>2. Handles' = Handles /\ failures' # 0
    BY <1>4, <1>5 DEF Handles
  <2>3. \A f, g \in Handles : objOf'[f] = objOf'[g] => f = g \/ objOf'[f] = 0
    BY <1>0, <1>2 DEF IdsOK
  <2> QED
    BY <2>1, <2>2, <2>3 DEF IdsOK
<1>11. ObjectsOK'
  BY <1>2, <1>4 DEF ObjectsOK
<1> QED
  BY <1>1, <1>3, <1>6, <1>7, <1>8, <1>9, <1>10, <1>11, OneHandle

NewStream(id, isSource, garbage) ==
  [open |-> TRUE, streamId |-> id, isSourceStream |-> isSource, lastLineWasBufferEnd |-> garbage,
   streamState |-> STATE_OK, nerr |-> "none", buffer |-> <<>>, bufPos |-> 0]

(* The structure that ncfbid2s makes.                                      *)
LEMMA NewStructure ==
  \A id \in Nat, isSource \in BOOLEAN, garbage \in BOOLEAN :
    LET s == NewStream(id, isSource, garbage)
    IN /\ s \in Structures /\ s.streamId = id /\ s.isSourceStream = isSource /\ s.open
       /\ s.streamState = STATE_OK /\ s.buffer = <<>> /\ s.bufPos = 0
<1> TAKE id \in Nat, isSource \in BOOLEAN, garbage \in BOOLEAN
<1> DEFINE s == NewStream(id, isSource, garbage)
<1>1. /\ s.streamId = id /\ s.isSourceStream = isSource /\ s.open
      /\ s.streamState = STATE_OK /\ s.buffer = <<>> /\ s.bufPos = 0
  BY DEF NewStream
<1>2. 0 \in Nat /\ STATE_OK \in States /\ <<>> \in Seq(Byte)
  BY DEF States
<1>3. s \in Structures
  BY <1>2 DEF Structures, NewStream
<1> QED
  BY <1>1, <1>3

(* The stream is there, and gets its handle.                               *)
LEMMA NewStreamInv ==
  ASSUME StreamsInv, op.fn = "open", Returned, call.rc = "new",
         NEW h, h = op.h, NEW garbage \in BOOLEAN,
         Sets(h, NewStream(call.word2, program[h].isSource, garbage)),
         lineEndMode' \in {-1} \cup Platforms,
         objOf' = [objOf EXCEPT ![h] = Len(objs)],
         op' = NoOp, call' = NoCall, UNCHANGED <<opened, passed>>, localStep
  PROVE  StreamsInv'
<1> DEFINE s == NewStream(call.word2, program[h].isSource, garbage)
<1>1. /\ h \in 1 .. opened /\ h \in Handles /\ h = opened /\ opened \in Nat
      /\ ~str[h].open /\ objOf[h] = 0 /\ passed[h] = <<>> /\ program[h].isSource \in BOOLEAN
  BY AtOpen
<1>2. ValuesOK /\ TablesOK /\ IdsOK /\ ObjectsOK /\ CallOK /\ objs \in Seq(Objects)
  BY DEF StreamsInv, ObjectsOK, ValuesOK
<1>3. /\ call.word2 = LastId(h) /\ call.word2 \in DOMAIN Table(h) /\ Table(h)[call.word2] = Len(objs)
      /\ objs # <<>> /\ objs[Len(objs)].pos = 0 /\ objs[Len(objs)].state = STATE_OK
      /\ ~program[h].isSource => objs[Len(objs)].content = <<>>
      /\ \A k \in Handles : objOf[k] # Len(objs)
      /\ h \notin failed => \A k \in Handles : str[k].open => str[k].streamId # call.word2
  <2>1. Opened
    BY <1>2 DEF CallOK, OpenOK
  <2> QED
    BY <2>1 DEF Opened
<1>4. CallOK' /\ ~Returned' /\ op' \in Ops /\ call' \in Calls /\ op'.fn = "none"
  BY NoCallLeft
<1>5. SameTables /\ UNCHANGED <<program, objs, failed, failures, dispatcher>>
  BY DEF localStep, remoteVars, managerVars, SameTables
<1>6. LastId(h) \in Nat
  BY <1>2 DEF TablesOK, EntriesOK, LastId
<1>7. /\ s \in Structures /\ s.streamId = call.word2 /\ s.isSourceStream = program[h].isSource /\ s.open
      /\ s.streamState = STATE_OK /\ s.buffer = <<>> /\ s.bufPos = 0
  BY <1>1, <1>3, <1>6, NewStructure
<1>8. Sets(h, s) /\ Passes(h, passed[h])
  BY <1>1, <1>2, SameFunctions
<1> HIDE DEF s
<1>9. /\ str'[h] = s /\ passed'[h] = <<>>
      /\ \A k \in Handles : k # h => str'[k] = str[k]
      /\ str' \in [Handles -> {NoStream} \cup Structures]
  BY <1>1, <1>2, <1>7, <1>8, SetsOne
<1>10. Len(objs) \in DOMAIN objs /\ Len(objs) \in Nat /\ Len(objs) # 0
  BY <1>2, <1>3
<1>11. /\ objOf'[h] = Len(objs)
       /\ \A k \in Handles : k # h => objOf'[k] = objOf[k]
       /\ objOf' \in [Handles -> {0} \cup DOMAIN objs]
  <2>1. objOf \in [Handles -> {0} \cup DOMAIN objs]
    BY <1>2 DEF ValuesOK
  <2>2. objOf' \in [Handles -> {0} \cup DOMAIN objs]
    BY <1>1, <1>10, <2>1, Zenon
  <2>3. objOf'[h] = Len(objs) /\ \A k \in Handles : k # h => objOf'[k] = objOf[k]
    BY <1>1, <2>1, Zenon
  <2> QED
    BY <2>2, <2>3
<1>12. ValuesOK'
  <2>1. Handles' = Handles
    BY DEF Handles
  <2> QED
    BY <1>2, <1>4, <1>5, <1>9, <1>11, <2>1 DEF ValuesOK
<1>13. Others(h)
  <2>1. Turn(h)
    BY <1>4 DEF Turn
  <2> QED
    BY <1>5, <1>9, <1>11, <2>1 DEF Others
<1>14. HandleOK(h)'
  <2>1. ~(h > opened') /\ Len(str'[h].buffer) = 0 /\ 0 <= STREAM_BUFFER_LEN /\ 0 <= 0
    BY <1>1, <1>7, <1>9, StreamBounds
  <2>2. passed'[h] \in Seq(Seq(Byte)) /\ passed'[h] \in Seq(Byte)
    BY <1>9
  <2>3. str'[h].bufPos = 0 /\ objOf'[h] # 0 /\ str'[h].isSourceStream = program'[h].isSource
    BY <1>5, <1>7, <1>9, <1>10, <1>11
  <2> QED
    BY <2>1, <2>2, <2>3 DEF HandleOK
<1>15. Content(h)' = objs[Len(objs)].content /\ objs'[objOf'[h]].pos = 0
  BY <1>3, <1>5, <1>11 DEF Content
<1>16. ReadOK(h)'
  <2>1. str'[h].streamState \notin {STATE_SOURCE_ENDED, STATE_CLOSED}
    BY <1>7, <1>9 DEF STATE_OK, STATE_SOURCE_ENDED, STATE_CLOSED
  <2>2. OutOf(h)' = <<>> /\ Arrived(h)' = <<>>
    BY <1>4 DEF OutOf, Arrived, Busy
  <2>3. Unread(h)' = <<>>
    <3>1. SubSeq(<<>>, 1, 0) = <<>>
      BY SubSeqEmpty
    <3>2. Unread(h)' = SubSeq(<<>>, 0 + 1, Len(<<>>))
      BY <1>7, <1>9 DEF Unread
    <3>3. 0 + 1 = 1 /\ Len(<<>>) = 0
      OBVIOUS
    <3> QED
      BY <3>1, <3>2, <3>3
  <2>4. passed'[h] \o Underway(h)' = <<>>
    <3>1. Underway(h)' = <<>> \o <<>> \o <<>>
      BY <2>2, <2>3, UnderwayIs
    <3>2. <<>> \in Seq(Byte)
      OBVIOUS
    <3>3. <<>> \o <<>> = <<>>
      BY <3>2, ConcatEmptySeq
    <3> QED
      BY <1>9, <3>1, <3>3, Zenon
  <2>5. SubSeq(Content(h)', 1, 0) = <<>>
    BY SubSeqEmpty
  <2> QED
    BY <1>15, <2>1, <2>4, <2>5 DEF ReadOK
<1>17. WriteOK(h)'
  <2> SUFFICES ASSUME ~program[h].isSource
               PROVE  passed'[h] = Content(h)' \o str'[h].buffer
    BY <1>4, <1>5, <1>7, <1>9 DEF WriteOK
  <2>1. <<>> \o <<>> = <<>>
    OBVIOUS
  <2> QED
    BY <1>3, <1>7, <1>9, <1>15, <2>1
<1>18. TablesOK'
  BY <1>2, <1>5, TablesKept
<1>19. IdOK(h)'
  <2>1. Table(h)' = Table(h) /\ Handles' = Handles
    BY <1>5 DEF Table, SameTables, Handles
  <2>2. str'[h].streamId = call.word2
    BY <1>7, <1>9
  <2>3. str'[h].streamId \in DOMAIN Table(h)' /\ Table(h)'[str'[h].streamId] = objOf'[h]
    BY <1>3, <1>11, <2>1, <2>2
  <2>4. \A k \in Handles : objOf'[k] = objOf'[h] => k = h
    BY <1>3, <1>11
  <2> QED
    BY <2>1, <2>3, <2>4 DEF IdOK
<1>20. IdsOK'
  <2>1. ASSUME NEW k \in Handles
        PROVE  IdOK(k)'
    <3>1. CASE k = h
      BY <1>19, <3>1
    <3>2. CASE k # h
      <4>1. IdOK(k) /\ ~(Busy({"closing"}, k) /\ Returned)
        BY <1>2 DEF IdsOK, Busy
      <4>2. ASSUME NEW id \in DOMAIN Table(k), Table(k)[id] = Len(objs)
            PROVE  id = call.word2
        BY <1>2, <1>3, <4>2 DEF TablesOK, EntriesOK, Table
      <4>3. CASE str[k].open => str[k].streamId \in DOMAIN Table(k)
        <5>1. \A g \in Handles \ failed :
                objOf'[g] = objOf[g] \/ (str[k].open => objOf'[g] # Table(k)[str[k].streamId])
          BY <1>3, <1>11, <4>2, <4>3
        <5> QED
          BY <1>5, <1>9, <1>11, <3>2, <4>1, <5>1, IdKept
      <4>4. CASE str[k].open /\ str[k].streamId \notin DOMAIN Table(k)
        <5>1. Table(k)' = Table(k) /\ UNCHANGED <<failed, failures>>
          BY <1>5 DEF Table, SameTables
        <5> QED
          BY <1>9, <1>11, <3>2, <4>1, <4>4, <5>1 DEF IdOK
      <4> QED
        BY <4>3, <4>4
    <3> QED
      BY <3>1, <3>2
  <2>2. ASSUME NEW o, Owned(o)
        PROVE  Owned(o)'
    <3>1. CASE o = Len(objs)
      BY <1>1, <1>7, <1>9, <1>11, <3>1 DEF Owned
    <3>2. CASE o # Len(objs)
      <4>1. PICK k \in Handles : str[k].open /\ objOf[k] = o
        BY <2>2, <3>2 DEF Owned
      <4>2. k # h
        BY <1>1, <4>1
      <4> QED
        BY <1>9, <1>11, <4>1, <4>2 DEF Owned
    <3> QED
      BY <3>1, <3>2
  <2>3. Handles' = Handles
    BY DEF Handles
  <2>4. \A f, g \in Handles : objOf'[f] = objOf'[g] => f = g \/ objOf'[f] = 0
    BY <1>2, <1>3, <1>11 DEF IdsOK
  <2>5. failures' = 0 => /\ \A i \in DOMAIN bulkSources' : Owned(bulkSources[i])'
                         /\ \A i \in DOMAIN bulkSinks' : Owned(bulkSinks[i])'
    BY <1>2, <1>5, <2>2 DEF IdsOK, SameTables
  <2> QED
    BY <2>1, <2>3, <2>4, <2>5 DEF IdsOK
<1>21. ObjectsOK'
  BY <1>2, <1>5 DEF ObjectsOK
<1> QED
  BY <1>1, <1>4, <1>12, <1>13, <1>14, <1>16, <1>17, <1>18, <1>20, <1>21, OneHandle

(* ncfbid2s: the answer to the request for a stream.                       *)
LEMMA Ncfbid2sInv ==
  ASSUME StreamsInv, ncfbid2s
  PROVE  StreamsInv'
<1> SUFFICES ASSUME NEW h, h = op.h
             PROVE  StreamsInv'
  OBVIOUS
<1>1. CASE call.rc # "new"
  <2>1. UNCHANGED <<str, lineEndMode, objOf>>
    BY <1>1 DEF ncfbid2s
  <2> QED
    BY <1>1, <2>1, NotOpenedInv
<1>2. CASE call.rc = "new"
  <2>1. /\ op.fn = "open" /\ Returned /\ op' = NoOp /\ call' = NoCall
        /\ UNCHANGED <<opened, passed>> /\ localStep
        /\ objOf' = [objOf EXCEPT ![h] = Len(objs)]
        /\ lineEndMode' \in Platforms \/ lineEndMode' = lineEndMode
    BY <1>2 DEF ncfbid2s
  <2>2. lineEndMode' \in {-1} \cup Platforms
    BY <2>1 DEF StreamsInv, ValuesOK
  <2>3. PICK garbage \in BOOLEAN :
          str' = [str EXCEPT ![h] =
            [open |-> TRUE, streamId |-> call.word2,
             isSourceStream |-> program[h].isSource,
             lastLineWasBufferEnd |-> TextSource(h) /\ garbage,
             streamState |-> STATE_OK, nerr |-> "none",
             buffer |-> <<>>, bufPos |-> 0]]
    BY <1>2 DEF ncfbid2s
  <2> DEFINE g == TextSource(h) /\ garbage
  <2>4. g \in BOOLEAN
    OBVIOUS
  <2>5. Sets(h, NewStream(call.word2, program[h].isSource, g))
    BY <2>3, Zenon DEF Sets, NewStream
  <2> HIDE DEF g
  <2> QED
    BY <1>2, <2>1, <2>2, <2>4, <2>5, NewStreamInv
<1> QED
  BY <1>1, <1>2

-----------------------------------------------------------------------------
(* The outside proxy answers.                                              *)

(* Which function has sent the request, and for which stream.              *)
LEMMA AskedBy ==
  ASSUME StreamsInv, call.state = "sent", NEW h, h = op.h
  PROVE  /\ h \in 1 .. opened /\ h \in Handles /\ ~Returned /\ call # NoCall /\ op # NoOp
         /\ call.cmd = "OPEN_SOURCE" => op.fn = "open" /\ program[h].isSource
         /\ call.cmd = "OPEN_SINK" => op.fn = "open" /\ ~program[h].isSource
         /\ call.cmd = "BULKSRC_READ" => op.fn = "read" /\ call.id = str[h].streamId
         /\ call.cmd = "BULKSINK_WRITE" =>
              /\ op.fn \in {"write", "flush", "close"} /\ ~str[h].isSourceStream
              /\ call.id = str[h].streamId /\ call.data = str[h].buffer
         /\ call.cmd = "BULKSRC_CLOSE" =>
              op.fn = "closing" /\ str[h].isSourceStream /\ call.id = str[h].streamId
         /\ call.cmd = "BULKSINK_CLOSE" =>
              op.fn = "closing" /\ ~str[h].isSourceStream /\ call.id = str[h].streamId
<1>1. ValuesOK /\ CallOK /\ op \in Ops
  BY DEF StreamsInv, ValuesOK
<1>2. ~Returned /\ call # NoCall
  BY DEF Returned, NoCall
<1>3. op # NoOp /\ h \in 1 .. opened
  BY <1>1, <1>2 DEF CallOK
<1>4. op.fn \in {"open", "flush", "close", "closing", "read", "write"}
  BY <1>1, <1>3, OpTypes
<1>5. h \in Handles /\ program[h].isSource \in BOOLEAN
  BY <1>1, <1>3, OpenedTypes
<1>6. CASE op.fn = "open"
  BY <1>1, <1>2, <1>3, <1>5, <1>6 DEF CallOK, OpenOK, Request
<1>7. CASE op.fn = "read"
  BY <1>1, <1>2, <1>3, <1>5, <1>7 DEF CallOK, ReadingOK, Request
<1>8. CASE op.fn \in {"write", "flush", "close"}
  BY <1>1, <1>2, <1>3, <1>5, <1>8 DEF CallOK, WritingOK, Request, Sink
<1>9. CASE op.fn = "closing"
  <2>1. str[h].open /\ str[h].isSourceStream \in BOOLEAN
    BY <1>9, AtWork
  <2> QED
    BY <1>1, <1>2, <1>3, <1>5, <1>9, <2>1 DEF CallOK, ClosingOK, Request, Source
<1> QED
  BY <1>4, <1>6, <1>7, <1>8, <1>9

(* The client waits meanwhile.                                             *)
LEMMA RemoteStep ==
  ASSUME StreamsInv, UNCHANGED clientVars, NEW h \in 1 .. opened, h = op.h,
         call' \in Calls, objs' \in Seq(Objects), Len(objs) <= Len(objs'),
         \A k \in Handles \ failed : k # h /\ objOf[k] # 0 => objs'[objOf[k]] = objs[objOf[k]],
         dispatcher' \in DOMAIN FirstIds, failures' \in Nat,
         failed \subseteq failed', failed' \subseteq 1 .. opened,
         ReadOK(h)', WriteOK(h)', ObjectsOK', TablesOK', IdsOK', CallOK'
  PROVE  StreamsInv'
<1>0. ValuesOK /\ \A k \in Handles : HandleOK(k)
  BY DEF StreamsInv
<1>1. UNCHANGED <<program, str, opened, op, lineEndMode, passed, objOf>>
  BY DEF clientVars
<1>2. h \in Handles
  BY <1>0, OpenedTypes
<1>3. ValuesOK'
  <2>1. Handles' = Handles
    BY DEF Handles
  <2>2. objOf \in [Handles -> {0} \cup DOMAIN objs']
    <3>1. objs \in Seq(Objects) /\ objOf \in [Handles -> {0} \cup DOMAIN objs]
      BY <1>0 DEF ValuesOK
    <3>2. DOMAIN objs \subseteq DOMAIN objs'
      BY <3>1
    <3> QED
      BY <3>1, <3>2, Zenon
  <2> QED
    BY <1>0, <1>1, <2>1, <2>2 DEF ValuesOK
<1>4. HandleOK(h)'
  <2>1. HandleOK(h)
    BY <1>0, <1>2
  <2> QED
    BY <1>1, <2>1 DEF HandleOK, TextSource, Sink
<1>5. Others(h)
  BY <1>1 DEF Others, Turn
<1> QED
  BY <1>2, <1>3, <1>4, <1>5, OneHandle

(* The ids lead where they led.                                            *)
SameIds ==
  /\ UNCHANGED <<program, bulkSources, bulkSinks, lastBulkSourceId, lastBulkSinkId, dispatcher>>
  /\ failed \subseteq failed' /\ (failures' = 0 => failures = 0)

(* So the id of a handle leads where it led ...                            *)
LEMMA IdStays ==
  ASSUME NEW h \in Handles, IdOK(h), SameIds, str'[h] = str[h], objOf' = objOf, ~Returned
  PROVE  IdOK(h)'
<1>1. UNCHANGED <<program, bulkSources, bulkSinks, lastBulkSourceId, lastBulkSinkId, dispatcher>>
  BY DEF SameIds
<1>2. Table(h)' = Table(h) /\ Handles' = Handles
  BY <1>1 DEF Table, Handles
<1> QED
  BY <1>1, <1>2 DEF IdOK, SameIds

(* ... as do all ids.                                                      *)
LEMMA IdsStay ==
  ASSUME StreamsInv, UNCHANGED clientVars, call.state = "sent", SameIds, Len(objs') = Len(objs)
  PROVE  IdsOK'
<1>0. IdsOK /\ ~Returned
  BY DEF StreamsInv, Returned
<1>1. UNCHANGED <<str, op, objOf>> /\ Handles' = Handles
  BY DEF clientVars, Handles
<1>2. \A k \in Handles : IdOK(k)'
  BY <1>0, <1>1, IdStays DEF IdsOK
<1>3. \A o : Owned(o) => Owned(o)'
  BY <1>0, <1>1 DEF Owned
<1> QED
  BY <1>0, <1>1, <1>2, <1>3 DEF IdsOK, SameIds

(* No id is given out.                                                     *)
LEMMA TablesStay ==
  ASSUME StreamsInv, SameIds,
         DOMAIN objs' = DOMAIN objs,
         \A i \in DOMAIN objs : objs[i].state # STATE_CLOSED => objs'[i].state # STATE_CLOSED
  PROVE  TablesOK'
<1>1. UNCHANGED <<bulkSources, bulkSinks, lastBulkSourceId, lastBulkSinkId, dispatcher>>
  BY DEF SameIds
<1>2. \A table, last, parity : EntriesOK(table, last, parity) => EntriesOK(table, last, parity)'
  BY <1>1 DEF EntriesOK
<1> QED
  BY <1>1, <1>2 DEF StreamsInv, TablesOK

(* A request that is not answered.                                         *)
LEMMA FailedCall ==
  ASSUME StreamsInv, UNCHANGED clientVars, call' = IF call = NoCall THEN NoCall ELSE NoAnswer,
         failures' \in Nat \ {0}, op # NoOp => op.h \in failed'
  PROVE  CallOK' /\ call' \in Calls
<1>0. CallOK
  BY DEF StreamsInv
<1>1. UNCHANGED <<program, str, opened, op, lineEndMode, passed, objOf>>
  BY DEF clientVars
<1>2. /\ call' # NoCall <=> call # NoCall
      /\ call'.state # "sent"
      /\ Returned' => call'.rc = "failed" /\ call # NoCall
      /\ call' \in Calls
  BY DEF NoCall, NoAnswer, Returned, Calls
<1>4. OpenOK'
  BY <1>0, <1>1, <1>2 DEF CallOK, OpenOK, Request
<1>5. ReadingOK'
  <2>1. \A h : (Source(h)' <=> Source(h)) /\ (BufferRead(h)' <=> BufferRead(h))
    BY <1>1 DEF Source, BufferRead
  <2> QED
    BY <1>0, <1>1, <1>2, <2>1 DEF CallOK, ReadingOK, Request
<1>6. WritingOK'
  <2>1. \A h : Sink(h)' <=> Sink(h)
    BY <1>1 DEF Sink
  <2> QED
    BY <1>0, <1>1, <1>2, <2>1 DEF CallOK, WritingOK, Request
<1>7. ClosingOK'
  BY <1>0, <1>1, <1>2 DEF CallOK, ClosingOK, Request, Sink
<1> QED
  BY <1>0, <1>1, <1>2, <1>4, <1>5, <1>6, <1>7 DEF CallOK

(* A request is refused: it counts as failed, and nothing else has         *)
(* happened.                                                               *)
LEMMA RefuseInv ==
  ASSUME StreamsInv, refuse
  PROVE  StreamsInv'
<1> SUFFICES ASSUME NEW h, h = op.h
             PROVE  StreamsInv'
  OBVIOUS
<1>0. /\ call.state = "sent" /\ failures' = failures + 1 /\ call' = NoAnswer /\ failed' = failed \cup {h}
      /\ UNCHANGED clientVars
      /\ UNCHANGED <<bulkSources, bulkSinks, lastBulkSourceId, lastBulkSinkId, objs, dispatcher>>
  BY DEF refuse, remoteVars, managerVars
<1>1. h \in 1 .. opened /\ h \in Handles /\ call # NoCall /\ op # NoOp
  BY <1>0, AskedBy
<1>2. ValuesOK /\ ObjectsOK /\ failures \in Nat /\ failed \subseteq 1 .. opened /\ objs \in Seq(Objects)
      /\ dispatcher \in DOMAIN FirstIds
  BY DEF StreamsInv, ValuesOK, ObjectsOK
<1>3. failures' \in Nat \ {0}
  BY <1>0, <1>2
<1>4. CallOK' /\ call' \in Calls
  BY <1>0, <1>1, <1>3, FailedCall
<1>5. SameIds
  BY <1>0, <1>3 DEF SameIds, clientVars
<1>6. IdsOK' /\ TablesOK'
  BY <1>0, <1>4, <1>5, IdsStay, TablesStay
<1>7. ReadOK(h)' /\ WriteOK(h)'
  BY <1>0 DEF ReadOK, WriteOK
<1>8. ObjectsOK' /\ Len(objs) <= Len(objs')
  <2>1. Len(objs) \in Nat
    BY <1>2
  <2> QED
    BY <1>0, <1>2, <2>1 DEF ObjectsOK
<1> QED
  BY <1>0, <1>1, <1>2, <1>3, <1>4, <1>6, <1>7, <1>8, RemoteStep

(* The ids it starts from are even for sources and odd for sinks.          *)
LEMMA FirstIdsEven ==
  ASSUME NEW d \in DOMAIN FirstIds
  PROVE  /\ FirstIds[d] \in Nat /\ FirstIds[d] % 2 = 0
         /\ FirstIds[d] + 1 \in Nat /\ (FirstIds[d] + 1) % 2 = 1
<1>1. FirstIds \in Seq(Nat) /\ FirstIds[d] % 2 = 0
  BY StreamBounds
<1>2. FirstIds[d] \in Nat
  BY <1>1
<1> SUFFICES ASSUME NEW n \in Nat, n = FirstIds[d], n % 2 = 0
             PROVE  n + 1 \in Nat /\ (n + 1) % 2 = 1
  BY <1>1, <1>2
<1> QED
  OBVIOUS

(* A new dispatcher knows no stream.                                       *)
LEMMA ReconnectInv ==
  ASSUME StreamsInv, reconnect
  PROVE  StreamsInv'
<1>0. /\ dispatcher < Len(FirstIds) /\ failures' = failures + 1 /\ dispatcher' = dispatcher + 1
      /\ bulkSources' = <<>> /\ bulkSinks' = <<>>
      /\ lastBulkSourceId' = FirstIds[dispatcher'] /\ lastBulkSinkId' = FirstIds[dispatcher'] + 1
      /\ call' = IF call = NoCall THEN NoCall ELSE NoAnswer
      /\ failed' = 1 .. opened /\ UNCHANGED <<clientVars, objs>>
  BY DEF reconnect
<1>1. UNCHANGED <<program, str, opened, op, lineEndMode, passed, objOf>>
  BY <1>0 DEF clientVars
<1>2. /\ ValuesOK /\ ObjectsOK /\ IdsOK /\ failures \in Nat /\ opened \in Nat
      /\ \A h \in Handles : HandleOK(h)
      /\ op # NoOp => op.h \in 1 .. opened
  BY OpenedTypes DEF StreamsInv, ValuesOK, ObjectsOK, CallOK
<1>3. failures' \in Nat \ {0}
  BY <1>0, <1>2
<1>4. CallOK' /\ call' \in Calls
  BY <1>0, <1>2, <1>3, FailedCall
<1>5. /\ dispatcher \in Nat /\ dispatcher' \in DOMAIN FirstIds /\ FirstIds[dispatcher'] \in Nat
  <2>1. FirstIds \in Seq(Nat) /\ dispatcher \in DOMAIN FirstIds
    BY <1>2, StreamBounds DEF ValuesOK
  <2>2. dispatcher \in Nat /\ dispatcher' \in 1 .. Len(FirstIds)
    BY <1>0, <2>1
  <2> QED
    BY <2>1, <2>2
<1>6. Handles' = Handles
  BY DEF Handles
<1>7. ValuesOK'
  BY <1>0, <1>1, <1>2, <1>3, <1>4, <1>5, <1>6 DEF ValuesOK
<1>8. ASSUME NEW h \in Handles
      PROVE  HandleOK(h)' /\ ReadOK(h)' /\ WriteOK(h)' /\ (str[h].open => h \in failed')
  <2>1. HandleOK(h) /\ h \in Nat /\ h >= 1
    BY <1>2, StreamBounds DEF Handles
  <2>2. HandleOK(h)'
    BY <1>1, <2>1 DEF HandleOK, TextSource, Sink
  <2>3. CASE h > opened
    <3>1. ~str[h].open /\ objOf[h] = 0
      BY <2>1, <2>3 DEF HandleOK
    <3> QED
      BY <1>1, <2>2, <3>1 DEF ReadOK, WriteOK, Source
  <2>4. CASE ~(h > opened)
    <3>1. h \in failed'
      BY <1>0, <1>2, <2>1, <2>4
    <3> QED
      BY <2>2, <3>1 DEF ReadOK, WriteOK
  <2> QED
    BY <2>3, <2>4
<1>9. TablesOK'
  <2>1. DOMAIN bulkSources' = {} /\ DOMAIN bulkSinks' = {}
    BY <1>0
  <2>2. /\ FirstIds[dispatcher'] % 2 = 0 /\ (FirstIds[dispatcher'] + 1) % 2 = 1
        /\ FirstIds[dispatcher'] + 1 \in Nat
    BY <1>5, FirstIdsEven
  <2> QED
    BY <1>0, <1>5, <2>1, <2>2 DEF TablesOK, EntriesOK
<1>10. IdsOK'
  <2>1. ASSUME NEW h \in Handles
        PROVE  IdOK(h)'
    <3> SUFFICES ASSUME str[h].open
                 PROVE  IdOK(h)'
      BY <1>1 DEF IdOK
    <3>1. DOMAIN Table(h)' = {}
      BY <1>0 DEF Table
    <3>2. h \in failed' /\ failures' # 0
      BY <1>3, <1>8
    <3> QED
      BY <3>1, <3>2 DEF IdOK
  <2>2. \A f, g \in Handles : objOf'[f] = objOf'[g] => f = g \/ objOf'[f] = 0
    BY <1>1, <1>2 DEF IdsOK
  <2> QED
    BY <1>3, <1>6, <2>1, <2>2 DEF IdsOK
<1>11. ObjectsOK'
  BY <1>0, <1>2 DEF ObjectsOK
<1> QED
  BY <1>4, <1>6, <1>7, <1>8, <1>9, <1>10, <1>11 DEF StreamsInv, ObjectsOK

(* The id of a stream, as the dispatcher takes it.  The stream it leads to *)
(* is that of the handle or of one that counts as failed.                  *)
LEMMA Found ==
  ASSUME StreamsInv, call.state = "sent", NEW h \in Handles, str[h].open, h = op.h
  PROVE  /\ str[h].streamId \in DOMAIN Table(h) =>
              /\ h \notin failed \/ failures = 0 => Table(h)[str[h].streamId] = objOf[h]
              /\ \A k \in Handles \ failed : k # h => objOf[k] # Table(h)[str[h].streamId]
         /\ str[h].streamId \notin DOMAIN Table(h) => h \in failed /\ failures # 0
BY DEF StreamsInv, IdsOK, IdOK, Returned

(* An answer, with a return code.                                          *)
LEMMA Answered ==
  ASSUME NEW rc \in {"new", "ok", "invalid"}, NEW word2 \in Int, NEW data \in Seq(Byte),
         call' = Answer(rc, word2, data)
  PROVE  /\ call' \in Calls /\ call' # NoCall /\ Returned' /\ call'.state = "answered"
         /\ call'.rc = rc /\ call'.word2 = word2 /\ call'.data = data
<1>1. /\ call'.state = "answered" /\ call'.rc = rc /\ call'.word2 = word2 /\ call'.data = data
      /\ call' \in [state : {"answered"}, rc : {"new", "ok", "invalid"}, word2 : Int, data : Seq(Byte)]
  BY DEF Answer
<1> QED
  BY <1>1 DEF Calls, NoCall, Returned

(* The stream is not in its table: only after a lost connection.           *)
LEMMA InvalidStreamInv ==
  ASSUME StreamsInv, invalidStream
  PROVE  StreamsInv'
<1> SUFFICES ASSUME NEW h, h = op.h
             PROVE  StreamsInv'
  OBVIOUS
<1>0. /\ call.state = "sent" /\ call' = Answer("invalid", 0, <<>>) /\ UNCHANGED clientVars
      /\ UNCHANGED <<bulkSources, bulkSinks, lastBulkSourceId, lastBulkSinkId, objs, dispatcher, failures, failed>>
      /\ \/ call.cmd \in {"BULKSRC_READ", "BULKSRC_CLOSE"} /\ call.id \notin DOMAIN bulkSources
         \/ call.cmd \in {"BULKSINK_WRITE", "BULKSINK_CLOSE"} /\ call.id \notin DOMAIN bulkSinks
  BY DEF invalidStream, remoteStep, managerVars, ProtErr
<1>1. h \in 1 .. opened /\ h \in Handles /\ call # NoCall /\ op # NoOp /\ call.id = str[h].streamId
  BY <1>0, AskedBy
<1>2. op.fn \notin {"none", "open"}
  BY <1>0, AskedBy
<1>3. str[h].open /\ str[h].isSourceStream = program[h].isSource /\ (op.fn = "read" => str[h].isSourceStream)
  BY <1>2, AtWork
<1>4. h \in failed /\ failures # 0
  <2>1. str[h].streamId \notin DOMAIN Table(h)
    <3>1. CASE call.cmd \in {"BULKSRC_READ", "BULKSRC_CLOSE"} /\ call.id \notin DOMAIN bulkSources
      <4>1. program[h].isSource
        BY <1>0, <1>3, <3>1, AskedBy
      <4> QED
        BY <1>1, <3>1, <4>1 DEF Table
    <3>2. CASE call.cmd \in {"BULKSINK_WRITE", "BULKSINK_CLOSE"} /\ call.id \notin DOMAIN bulkSinks
      <4>1. ~program[h].isSource
        BY <1>0, <1>3, <3>2, AskedBy
      <4> QED
        BY <1>1, <3>2, <4>1 DEF Table
    <3> QED
      BY <1>0, <3>1, <3>2
  <2> QED
    BY <1>0, <1>1, <1>3, <2>1, Found
<1>5. /\ call' \in Calls /\ call' # NoCall /\ Returned' /\ call'.state = "answered"
      /\ call'.rc = "invalid" /\ call'.word2 = 0 /\ call'.data = <<>>
  <2>1. 0 \in Int /\ <<>> \in Seq(Byte)
    OBVIOUS
  <2> QED
    BY <1>0, <2>1, Answered
<1>6. /\ ValuesOK /\ CallOK /\ ObjectsOK /\ failures \in Nat /\ failed \subseteq 1 .. opened /\ objs \in Seq(Objects)
      /\ dispatcher \in DOMAIN FirstIds
  BY DEF StreamsInv, ValuesOK, ObjectsOK
<1>7. UNCHANGED <<program, str, opened, op, objOf>>
  BY <1>0 DEF clientVars
<1>8. CallOK'
  <2>1. 0 \in States /\ 0 <= STREAM_BUFFER_LEN /\ Len(<<>>) = 0
    BY StreamBounds DEF States, STATE_OK
  <2>2. OpenOK'
    BY <1>2, <1>7 DEF OpenOK
  <2>3. ReadingOK'
    BY <1>1, <1>4, <1>5, <1>6, <1>7, <1>0, <2>1 DEF CallOK, ReadingOK, Request, Source, BufferRead
  <2>4. WritingOK'
    BY <1>1, <1>5, <1>6, <1>7, <2>1 DEF CallOK, WritingOK, Request, Sink
  <2>5. ClosingOK'
    BY <1>0, <1>1, <1>4, <1>5, <1>6, <1>7 DEF CallOK, ClosingOK, Request, Sink
  <2> QED
    BY <1>1, <1>5, <1>7, <2>2, <2>3, <2>4, <2>5 DEF CallOK
<1>9. SameIds
  BY <1>0, <1>7 DEF SameIds
<1>10. IdsOK' /\ TablesOK'
  BY <1>0, <1>5, <1>9, IdsStay, TablesStay
<1>11. ReadOK(h)' /\ WriteOK(h)'
  BY <1>0, <1>4 DEF ReadOK, WriteOK
<1>12. ObjectsOK' /\ Len(objs) <= Len(objs')
  <2>1. Len(objs) \in Nat
    BY <1>6
  <2> QED
    BY <1>0, <1>6, <2>1 DEF ObjectsOK
<1> QED
  BY <1>0, <1>1, <1>5, <1>6, <1>8, <1>10, <1>11, <1>12, RemoteStep

(* One stream object changes.                                              *)
ObjectSet(i, after) == objs' = [objs EXCEPT ![i] = after]

(* It belongs to no other handle, but for those that count as failed.      *)
LEMMA OneObject ==
  ASSUME StreamsInv, NEW h \in Handles, NEW i \in DOMAIN objs,
         \A k \in Handles \ failed : k # h => objOf[k] # i,
         NEW after \in Objects, ObjectOK(after), ObjectSet(i, after)
  PROVE  /\ objs' \in Seq(Objects) /\ Len(objs') = Len(objs) /\ Len(objs) <= Len(objs')
         /\ DOMAIN objs' = DOMAIN objs /\ objs'[i] = after
         /\ \A j \in DOMAIN objs : j # i => objs'[j] = objs[j]
         /\ \A k \in Handles \ failed : k # h /\ objOf[k] # 0 => objs'[objOf[k]] = objs[objOf[k]]
         /\ ObjectsOK'
<1>0. ValuesOK /\ ObjectsOK /\ objs \in Seq(Objects)
  BY DEF StreamsInv, ValuesOK, ObjectsOK
<1>1. objs' = [objs EXCEPT ![i] = after]
  BY DEF ObjectSet
<1>2. objs' \in Seq(Objects) /\ Len(objs') = Len(objs) /\ Len(objs) \in Nat /\ DOMAIN objs' = DOMAIN objs
  BY <1>0, <1>1
<1>3. objs'[i] = after /\ \A j \in DOMAIN objs : j # i => objs'[j] = objs[j]
  BY <1>0, <1>1
<1>4. ASSUME NEW k \in Handles \ failed, k # h, objOf[k] # 0
      PROVE  objs'[objOf[k]] = objs[objOf[k]]
  <2>1. objOf[k] \in DOMAIN objs
    BY <1>0, <1>4 DEF ValuesOK
  <2> QED
    BY <1>3, <1>4, <2>1
<1>5. ObjectsOK'
  BY <1>0, <1>2, <1>3 DEF ObjectsOK
<1> QED
  BY <1>2, <1>3, <1>4, <1>5

(* What an InputStream gives.                                              *)
LEMMA NextBlocks ==
  ASSUME NEW o \in Objects, ObjectOK(o), NEW after \in nextBlocks(o)
  PROVE  /\ after \in Objects /\ ObjectOK(after) /\ after.content = o.content
         /\ o.pos <= after.pos /\ after.pos <= o.pos + STREAM_BUFFER_LEN
         /\ o.state # STATE_CLOSED => after.state # STATE_CLOSED
<1>0. STREAM_BUFFER_LEN \in Nat
  BY StreamBounds
<1>1. o.content \in Seq(Byte) /\ o.pos \in Nat /\ o.state \in States /\ Len(o.content) \in Nat
  BY DEF Objects
<1>2. o.pos <= o.pos /\ o.pos <= o.pos + STREAM_BUFFER_LEN
  BY <1>0, <1>1
<1>3. CASE after = o
  BY <1>2, <1>3
<1>4. CASE \E n \in 1 .. STREAM_BUFFER_LEN :
            o.pos + n <= Len(o.content) /\ after = [o EXCEPT !.pos = o.pos + n] /\ o.state = STATE_OK
  <2>1. PICK n \in 1 .. STREAM_BUFFER_LEN :
          o.pos + n <= Len(o.content) /\ after = [o EXCEPT !.pos = o.pos + n] /\ o.state = STATE_OK
    BY <1>4
  <2>2. o.pos + n \in Nat /\ o.pos <= o.pos + n /\ o.pos + n <= o.pos + STREAM_BUFFER_LEN
    BY <1>0, <1>1
  <2> DEFINE p == o.pos + n
  <2>3. p \in Nat /\ after = [o EXCEPT !.pos = p] /\ p <= Len(o.content)
    BY <2>1, <2>2
  <2> HIDE DEF p
  <2>4. after \in Objects /\ after.content = o.content /\ after.pos = p /\ after.state = STATE_OK
    BY <2>1, <2>3 DEF Objects
  <2>5. STATE_OK # STATE_SOURCE_ENDED /\ STATE_OK # STATE_CLOSED
    BY DEF STATE_OK, STATE_SOURCE_ENDED, STATE_CLOSED
  <2>6. ObjectOK(after)
    BY <2>3, <2>4, <2>5 DEF ObjectOK
  <2> QED
    BY <2>2, <2>4, <2>5, <2>6 DEF p
<1>5. CASE \E st \in {STATE_ERROR, STATE_SOURCE_ENDED} :
            after = [o EXCEPT !.state = st] /\ (st = STATE_SOURCE_ENDED => AtEnd(o))
  <2>1. PICK st \in {STATE_ERROR, STATE_SOURCE_ENDED} :
          after = [o EXCEPT !.state = st] /\ (st = STATE_SOURCE_ENDED => AtEnd(o))
    BY <1>5
  <2>2. st \in States /\ st # STATE_CLOSED
    BY DEF States, STATE_ERROR, STATE_SOURCE_ENDED, STATE_CLOSED
  <2>3. after \in Objects /\ after.content = o.content /\ after.pos = o.pos /\ after.state = st
    BY <2>1, <2>2 DEF Objects
  <2>4. ObjectOK(after)
    BY <2>1, <2>3 DEF ObjectOK, AtEnd
  <2> QED
    BY <1>2, <2>2, <2>3, <2>4
<1>6. CASE o.state # STATE_OK
  <2>1. after = o
    BY <1>6, Zenon DEF nextBlocks
  <2> QED
    BY <1>3, <2>1
<1>7. CASE o.state = STATE_OK
  <2>1. \/ after \in {[o EXCEPT !.pos = o.pos + n] :
                        n \in {k \in 1 .. STREAM_BUFFER_LEN : o.pos + k <= Len(o.content)}}
        \/ after = [o EXCEPT !.state = STATE_ERROR]
        \/ AtEnd(o) /\ after = [o EXCEPT !.state = STATE_SOURCE_ENDED]
    BY <1>7, Zenon DEF nextBlocks
  <2>2. CASE after \in {[o EXCEPT !.pos = o.pos + n] :
                          n \in {k \in 1 .. STREAM_BUFFER_LEN : o.pos + k <= Len(o.content)}}
    <3>1. \E n \in 1 .. STREAM_BUFFER_LEN :
            o.pos + n <= Len(o.content) /\ after = [o EXCEPT !.pos = o.pos + n] /\ o.state = STATE_OK
      BY <1>7, <2>2, Zenon
    <3> QED
      BY <1>4, <3>1, Zenon
  <2>3. CASE after = [o EXCEPT !.state = STATE_ERROR]
    <3>1. STATE_ERROR # STATE_SOURCE_ENDED
      BY DEF STATE_ERROR, STATE_SOURCE_ENDED
    <3>2. \E st \in {STATE_ERROR, STATE_SOURCE_ENDED} :
            after = [o EXCEPT !.state = st] /\ (st = STATE_SOURCE_ENDED => AtEnd(o))
      BY <2>3, <3>1, Zenon
    <3> QED
      BY <1>5, <3>2, Zenon
  <2>4. CASE AtEnd(o) /\ after = [o EXCEPT !.state = STATE_SOURCE_ENDED]
    <3>1. \E st \in {STATE_ERROR, STATE_SOURCE_ENDED} :
            after = [o EXCEPT !.state = st] /\ (st = STATE_SOURCE_ENDED => AtEnd(o))
      BY <2>4, Zenon
    <3> QED
      BY <1>5, <3>1, Zenon
  <2> QED
    BY <2>1, <2>2, <2>3, <2>4
<1> QED
  BY <1>6, <1>7

(* The bytes read so far, with those that the next block brings.           *)
UpTo(c, p, q, out, u) == q \o (out \o u \o <<>>) = SubSeq(c, 1, p)
UpToNext(c, p, n, q, out, u) == q \o (out \o u \o SubSeq(c, p + 1, n)) = SubSeq(c, 1, n)

(* The next block joins what was read before.                              *)
LEMMA OneBlock ==
  ASSUME NEW c \in Seq(Byte), NEW p \in Nat, NEW n \in Nat, p <= n, n <= Len(c),
         NEW q \in Seq(Byte), NEW out \in Seq(Byte), NEW u \in Seq(Byte),
         UpTo(c, p, q, out, u)
  PROVE  UpToNext(c, p, n, q, out, u)
<1> SUFFICES ASSUME NEW d, d = SubSeq(c, p + 1, n), NEW w, w = out \o u
             PROVE  UpToNext(c, p, n, q, out, u)
  OBVIOUS
<1>1. d \in Seq(Byte) /\ w \in Seq(Byte)
  <2>1. SubSeq(c, p + 1, n) \in Seq(Byte)
    OBVIOUS
  <2>2. out \o u \in Seq(Byte)
    BY ConcatProperties
  <2> QED
    BY <2>1, <2>2
<1>2. SubSeq(c, 1, p) \o d = SubSeq(c, 1, n)
  <2>1. Len(c) \in Nat
    OBVIOUS
  <2>2. 1 \in 1 .. Len(c) + 1 /\ p \in 1 - 1 .. Len(c) /\ n \in p .. Len(c)
    BY <2>1
  <2> QED
    BY <2>2, ConcatAdjacentSubSeq
<1>3. w \o <<>> = w
  BY <1>1, ConcatEmptySeq
<1>4. Joins(q, w, d)
  BY <1>1, Joined
<1> QED
  BY <1>2, <1>3, <1>4, Zenon DEF UpTo, UpToNext, Joins

(* A block is read from the file, or its end or an error is met.           *)
LEMMA GetNextBlockInv ==
  ASSUME StreamsInv, getNextBlock
  PROVE  StreamsInv'
<1> SUFFICES ASSUME NEW h, h = op.h, NEW i, i = bulkSources[call.id], NEW o, o = objs[i],
                    NEW after \in nextBlocks(o), ObjectSet(i, after),
                    call' = Answer("ok", after.state, SubSeq(o.content, o.pos + 1, after.pos))
             PROVE  StreamsInv'
  BY DEF getNextBlock, remoteStep, ObjectSet
<1>0. /\ call.state = "sent" /\ call.cmd = "BULKSRC_READ" /\ call.id \in DOMAIN bulkSources /\ UNCHANGED clientVars
      /\ UNCHANGED <<bulkSources, bulkSinks, lastBulkSourceId, lastBulkSinkId, dispatcher, failures, failed>>
  BY DEF getNextBlock, Asked, remoteStep, managerVars
<1>1. /\ h \in 1 .. opened /\ h \in Handles /\ ~Returned /\ call # NoCall /\ op # NoOp
      /\ op.fn = "read" /\ call.id = str[h].streamId
  BY <1>0, AskedBy
<1>2. /\ str[h].open /\ str[h].isSourceStream /\ program[h].isSource /\ objOf[h] \in DOMAIN objs
      /\ str[h] \in Structures
      /\ IF TextSource(h) THEN passed[h] \in Seq(Seq(Byte)) ELSE passed[h] \in Seq(Byte)
  BY <1>1, AtWork
<1>3. /\ ValuesOK /\ CallOK /\ ObjectsOK /\ failures \in Nat /\ failed \subseteq 1 .. opened
      /\ dispatcher \in DOMAIN FirstIds /\ op \in Ops
  BY DEF StreamsInv, ValuesOK, ObjectsOK
<1>4. /\ i \in DOMAIN objs /\ \A k \in Handles \ failed : k # h => objOf[k] # i
      /\ h \notin failed => i = objOf[h]
  <2>1. str[h].streamId \in DOMAIN Table(h) /\ i = Table(h)[str[h].streamId]
    BY <1>0, <1>1, <1>2 DEF Table
  <2>2. i \in DOMAIN objs
    BY <1>0 DEF StreamsInv, TablesOK, EntriesOK
  <2> QED
    BY <1>0, <1>1, <1>2, <2>1, <2>2, Found
<1>5. /\ o \in Objects /\ o.content \in Seq(Byte) /\ o.pos \in Nat /\ o.state \in States /\ ObjectOK(o)
  BY <1>3, <1>4, ObjectTypes DEF ObjectsOK
<1>6. /\ after \in Objects /\ ObjectOK(after) /\ after.content = o.content
      /\ o.pos <= after.pos /\ after.pos <= o.pos + STREAM_BUFFER_LEN
      /\ o.state # STATE_CLOSED => after.state # STATE_CLOSED
  BY <1>5, NextBlocks
<1>7. after.pos \in Nat /\ after.state \in States /\ after.pos <= Len(o.content)
  BY <1>6 DEF Objects, ObjectOK
<1> DEFINE data == SubSeq(o.content, o.pos + 1, after.pos)
<1>8. data \in Seq(Byte) /\ Len(data) <= STREAM_BUFFER_LEN
  <2>1. STREAM_BUFFER_LEN \in Nat /\ Len(o.content) \in Nat
    BY <1>5, StreamBounds
  <2>2. data \in Seq(Byte)
    BY <1>5, <1>7
  <2>3. CASE after.pos = o.pos
    <3>1. data = <<>>
      BY <1>5, <1>7, <2>3, SubSeqEmpty
    <3> HIDE DEF data
    <3>2. Len(data) = 0
      BY <3>1
    <3> QED
      BY <2>1, <2>2, <3>2
  <2>4. CASE after.pos # o.pos
    <3>1. o.pos + 1 \in 1 .. Len(o.content) /\ after.pos \in 1 .. Len(o.content)
      BY <1>5, <1>6, <1>7, <2>1, <2>4
    <3>2. Len(data) = IF o.pos + 1 <= after.pos THEN after.pos - (o.pos + 1) + 1 ELSE 0
      BY <1>5, <1>7, <3>1
    <3> QED
      BY <1>5, <1>6, <1>7, <2>1, <2>2, <3>2
  <2> QED
    BY <2>3, <2>4
<1>9. /\ call' \in Calls /\ call' # NoCall /\ Returned' /\ call'.state = "answered"
      /\ call'.rc = "ok" /\ call'.word2 = after.state /\ call'.data = data
  <2>1. after.state \in Int
    BY <1>7 DEF States, STATE_OK, STATE_CLOSED, STATE_SOURCE_ENDED, STATE_ERROR
  <2> HIDE DEF data
  <2>2. call' = Answer("ok", after.state, data)
    BY DEF data
  <2> QED
    BY <1>8, <2>1, <2>2, Answered
<1>10. /\ objs' \in Seq(Objects) /\ Len(objs') = Len(objs) /\ Len(objs) <= Len(objs')
       /\ DOMAIN objs' = DOMAIN objs /\ objs'[i] = after
       /\ \A j \in DOMAIN objs : j # i => objs'[j] = objs[j]
       /\ \A k \in Handles \ failed : k # h /\ objOf[k] # 0 => objs'[objOf[k]] = objs[objOf[k]]
       /\ ObjectsOK'
  BY <1>1, <1>4, <1>6, OneObject
<1>11. UNCHANGED <<program, str, opened, op, objOf, passed>>
  BY <1>0 DEF clientVars
<1>12. h \notin failed => /\ Content(h)' = o.content /\ Content(h) = o.content
                          /\ objs'[objOf'[h]].pos = after.pos /\ objs[objOf[h]].pos = o.pos
  BY <1>4, <1>6, <1>10, <1>11 DEF Content
<1>13. SameIds
  BY <1>0, <1>11 DEF SameIds
<1>14. IdsOK'
  BY <1>0, <1>10, <1>13, IdsStay
<1>15. TablesOK'
  <2>1. \A j \in DOMAIN objs : objs[j].state # STATE_CLOSED => objs'[j].state # STATE_CLOSED
    BY <1>6, <1>10
  <2> QED
    BY <1>0, <1>9, <1>10, <1>13, <2>1, TablesStay
<1>16. str[h].streamState = STATE_OK /\ BufferRead(h)
  BY <1>1, <1>3 DEF CallOK, ReadingOK
<1>17. h \notin failed => (after.state \in {STATE_SOURCE_ENDED, STATE_CLOSED} => AllRead(h)')
  <2>1. o.state # STATE_CLOSED
    BY <1>0 DEF StreamsInv, TablesOK, EntriesOK
  <2>2. after.state = STATE_SOURCE_ENDED => after.pos = Len(o.content)
    BY <1>6 DEF ObjectOK, AtEnd
  <2> QED
    BY <1>6, <1>12, <2>1, <2>2 DEF AllRead
<1> HIDE DEF data
<1>18. CallOK'
  <2>1. OpenOK' /\ WritingOK' /\ ClosingOK'
    BY <1>1, <1>11 DEF OpenOK, WritingOK, ClosingOK
  <2>2. Source(h)' /\ (BufferRead(h)' <=> BufferRead(h))
    BY <1>2, <1>11 DEF Source, BufferRead
  <2>3. ReadingOK'
    BY <1>0, <1>1, <1>7, <1>8, <1>9, <1>11, <1>16, <1>17, <2>2 DEF ReadingOK, Request
  <2> QED
    BY <1>1, <1>9, <1>11, <2>1, <2>3 DEF CallOK
<1>19. ReadOK(h)'
  <2>1. str'[h].streamState \notin {STATE_SOURCE_ENDED, STATE_CLOSED}
    BY <1>11, <1>16 DEF STATE_OK, STATE_SOURCE_ENDED, STATE_CLOSED
  <2>2. ASSUME h \notin failed', ~TextSource(h)'
        PROVE  passed'[h] \o Underway(h)' = SubSeq(o.content, 1, after.pos)
    <3>1. h \notin failed /\ ~TextSource(h)
      BY <1>0, <1>11, <2>2 DEF TextSource
    <3>2. Complete(h, passed[h], op.out, str[h]) /\ passed[h] \in Seq(Byte)
      BY <1>1, <1>2, <3>1, BeforeRead
    <3> DEFINE u == Rest(str[h])
    <3>3. u \in Seq(Byte) /\ op.out \in Seq(Byte)
      <4>1. str[h].buffer \in Seq(Byte) /\ str[h].bufPos \in Nat
        BY <1>2 DEF Structures
      <4>2. SubSeq(str[h].buffer, str[h].bufPos + 1, Len(str[h].buffer)) \in Seq(Byte)
        BY <4>1
      <4> QED
        BY <1>1, <1>3, <4>2, OpTypes DEF Rest
    <3>4. UpTo(o.content, o.pos, passed[h], op.out, u)
      BY <1>12, <3>1, <3>2, Zenon DEF Complete, UpTo
    <3>5. OutOf(h)' = op.out /\ Arrived(h)' = data /\ Unread(h)' = u
      BY <1>1, <1>9, <1>11 DEF OutOf, Arrived, Busy, Unread, Rest
    <3>6. Underway(h)' = op.out \o u \o data
      BY <3>5, UnderwayIs, Zenon
    <3> HIDE DEF u
    <3>7. UpToNext(o.content, o.pos, after.pos, passed[h], op.out, u)
      BY <1>5, <1>6, <1>7, <3>2, <3>3, <3>4, OneBlock
    <3> QED
      BY <1>11, <3>6, <3>7, Zenon DEF data, UpToNext
  <2> QED
    BY <1>0, <1>12, <2>1, <2>2 DEF ReadOK
<1>20. WriteOK(h)'
  BY <1>2, <1>11, SourceWrites
<1> QED
  BY <1>0, <1>1, <1>3, <1>9, <1>10, <1>14, <1>15, <1>18, <1>19, <1>20, RemoteStep

(* What an OutputStream has after a block.                                 *)
LEMMA AfterBlocks ==
  ASSUME NEW o \in Objects, ObjectOK(o), NEW block \in Seq(Byte), NEW after \in afterBlock(o, block)
  PROVE  /\ after \in Objects /\ ObjectOK(after)
         /\ o.state # STATE_CLOSED => after.state # STATE_CLOSED
         /\ after.state = STATE_OK => after.content = o.content \o block
<1>1. o.content \in Seq(Byte) /\ o.pos \in Nat /\ o.state \in States
  BY DEF Objects
<1>2. /\ STATE_OK # STATE_SOURCE_ENDED /\ STATE_OK # STATE_CLOSED /\ STATE_ERROR # STATE_OK
      /\ STATE_ERROR # STATE_SOURCE_ENDED /\ STATE_ERROR # STATE_CLOSED /\ STATE_ERROR \in States
  BY DEF States, STATE_OK, STATE_ERROR, STATE_SOURCE_ENDED, STATE_CLOSED
<1>3. \/ after = o /\ o.state # STATE_OK
      \/ after = [o EXCEPT !.content = o.content \o block] /\ o.state = STATE_OK
      \/ after = [o EXCEPT !.state = STATE_ERROR]
  BY Zenon DEF afterBlock
<1>4. CASE after = o /\ o.state # STATE_OK
  BY <1>4
<1>5. CASE after = [o EXCEPT !.content = o.content \o block] /\ o.state = STATE_OK
  <2>1. o.content \o block \in Seq(Byte) /\ Len(o.content \o block) = Len(o.content) + Len(block)
    BY <1>1, ConcatProperties
  <2>2. o.pos <= Len(o.content \o block)
    <3>1. Len(o.content) \in Nat /\ Len(block) \in Nat /\ o.pos <= Len(o.content)
      BY <1>1 DEF ObjectOK
    <3> QED
      BY <1>1, <2>1, <3>1
  <2> SUFFICES ASSUME NEW b, b = o.content \o block
               PROVE  /\ after \in Objects /\ ObjectOK(after) /\ after.state = STATE_OK /\ after.content = b
    BY <1>2
  <2>3. b \in Seq(Byte) /\ o.pos <= Len(b) /\ after = [o EXCEPT !.content = b]
    BY <1>5, <2>1, <2>2
  <2>4. after \in Objects /\ after.content = b /\ after.pos = o.pos /\ after.state = STATE_OK
    BY <1>5, <2>3 DEF Objects
  <2> QED
    BY <1>2, <2>3, <2>4 DEF ObjectOK
<1>6. CASE after = [o EXCEPT !.state = STATE_ERROR]
  <2>1. after \in Objects /\ after.content = o.content /\ after.pos = o.pos /\ after.state = STATE_ERROR
    BY <1>2, <1>6 DEF Objects
  <2> QED
    BY <1>2, <2>1 DEF ObjectOK
<1> QED
  BY <1>3, <1>4, <1>5, <1>6

(* A block is written to the file, or that fails.                          *)
LEMMA PutBlockInv ==
  ASSUME StreamsInv, putBlock
  PROVE  StreamsInv'
<1> SUFFICES ASSUME NEW h, h = op.h, NEW i, i = bulkSinks[call.id], NEW o, o = objs[i],
                    NEW after \in afterBlock(o, call.data), ObjectSet(i, after),
                    failed' = IF after.state = STATE_OK THEN failed ELSE failed \cup {h},
                    call' = Answer("ok", after.state, <<>>)
             PROVE  StreamsInv'
  BY DEF putBlock, remoteStep, ObjectSet
<1>0. /\ call.state = "sent" /\ call.cmd = "BULKSINK_WRITE" /\ call.id \in DOMAIN bulkSinks /\ UNCHANGED clientVars
      /\ UNCHANGED <<bulkSources, bulkSinks, lastBulkSourceId, lastBulkSinkId, dispatcher, failures>>
  BY DEF putBlock, Asked, remoteStep, managerVars
<1>1. /\ h \in 1 .. opened /\ h \in Handles /\ ~Returned /\ call # NoCall /\ op # NoOp
      /\ op.fn \in {"write", "flush", "close"} /\ ~str[h].isSourceStream
      /\ call.id = str[h].streamId /\ call.data = str[h].buffer
  BY <1>0, AskedBy
<1>2. /\ str[h].open /\ str[h] \in Structures /\ ~program[h].isSource /\ passed[h] \in Seq(Byte)
      /\ str[h].buffer \in Seq(Byte) /\ objOf[h] # 0
      /\ h \notin failed => passed[h] = Content(h) \o str[h].buffer
  BY <1>1, AtSink
<1>3. /\ ValuesOK /\ CallOK /\ ObjectsOK /\ failures \in Nat /\ failed \subseteq 1 .. opened
      /\ dispatcher \in DOMAIN FirstIds /\ op \in Ops
  BY DEF StreamsInv, ValuesOK, ObjectsOK
<1>4. /\ i \in DOMAIN objs /\ \A k \in Handles \ failed : k # h => objOf[k] # i
      /\ h \notin failed => i = objOf[h]
  <2>1. str[h].streamId \in DOMAIN Table(h) /\ i = Table(h)[str[h].streamId]
    BY <1>0, <1>1, <1>2 DEF Table
  <2>2. i \in DOMAIN objs
    BY <1>0 DEF StreamsInv, TablesOK, EntriesOK
  <2> QED
    BY <1>0, <1>1, <1>2, <2>1, <2>2, Found
<1>5. /\ o \in Objects /\ o.content \in Seq(Byte) /\ o.state \in States /\ ObjectOK(o)
  BY <1>3, <1>4, ObjectTypes DEF ObjectsOK
<1>6. /\ after \in Objects /\ ObjectOK(after)
      /\ o.state # STATE_CLOSED => after.state # STATE_CLOSED
      /\ after.state = STATE_OK => after.content = o.content \o call.data
  BY <1>1, <1>2, <1>5, AfterBlocks
<1>7. after.state \in States
  BY <1>6 DEF Objects
<1>8. /\ call' \in Calls /\ call' # NoCall /\ Returned' /\ call'.state = "answered"
      /\ call'.rc = "ok" /\ call'.word2 = after.state /\ call'.data = <<>>
  <2>1. after.state \in Int /\ <<>> \in Seq(Byte)
    BY <1>7 DEF States, STATE_OK, STATE_CLOSED, STATE_SOURCE_ENDED, STATE_ERROR
  <2> QED
    BY <2>1, Answered
<1>9. /\ objs' \in Seq(Objects) /\ Len(objs') = Len(objs) /\ Len(objs) <= Len(objs')
      /\ DOMAIN objs' = DOMAIN objs /\ objs'[i] = after
      /\ \A j \in DOMAIN objs : j # i => objs'[j] = objs[j]
      /\ \A k \in Handles \ failed : k # h /\ objOf[k] # 0 => objs'[objOf[k]] = objs[objOf[k]]
      /\ ObjectsOK'
  BY <1>1, <1>4, <1>6, OneObject
<1>10. UNCHANGED <<program, str, opened, op, objOf, passed>>
  BY <1>0 DEF clientVars
<1>11. failed \subseteq failed' /\ failed' \subseteq 1 .. opened
  BY <1>1, <1>3
<1>12. SameIds
  BY <1>0, <1>10, <1>11 DEF SameIds
<1>13. IdsOK'
  BY <1>0, <1>9, <1>12, IdsStay
<1>14. TablesOK'
  <2>1. \A j \in DOMAIN objs : objs[j].state # STATE_CLOSED => objs'[j].state # STATE_CLOSED
    BY <1>6, <1>9
  <2> QED
    BY <1>0, <1>8, <1>9, <1>12, <2>1, TablesStay
<1>15. CallOK'
  <2>1. OpenOK' /\ ReadingOK' /\ ClosingOK'
    BY <1>1, <1>10 DEF OpenOK, ReadingOK, ClosingOK
  <2>2. Sink(h)'
    BY <1>1, <1>2, <1>10 DEF Sink
  <2>3. WritingOK'
    BY <1>1, <1>2, <1>7, <1>8, <1>10, <2>2 DEF WritingOK, Request
  <2> QED
    BY <1>1, <1>8, <1>10, <2>1, <2>3 DEF CallOK
<1>16. ReadOK(h)'
  BY <1>1, <1>10, SinkReads
<1>17. WriteOK(h)'
  <2> SUFFICES ASSUME h \notin failed'
               PROVE  passed'[h] = Content(h)'
    <3>1. Busy({"write", "flush", "close"}, h)'
      BY <1>1, <1>10 DEF Busy
    <3> QED
      BY <1>8, <3>1 DEF WriteOK
  <2>1. after.state = STATE_OK /\ h \notin failed
    OBVIOUS
  <2>2. Content(h)' = after.content /\ Content(h) = o.content
    BY <1>4, <1>9, <1>10, <2>1 DEF Content
  <2> QED
    BY <1>1, <1>2, <1>6, <1>10, <2>1, <2>2
<1> QED
  BY <1>0, <1>1, <1>3, <1>8, <1>9, <1>11, <1>13, <1>14, <1>15, <1>16, <1>17, RemoteStep

(* A table loses an entry.                                                 *)
LessThan(f, g) == DOMAIN f \subseteq DOMAIN g /\ \A j \in DOMAIN f : f[j] = g[j]

(* An entry is taken from a table.                                         *)
LEMMA Dropped ==
  ASSUME NEW f, NEW id
  PROVE  /\ LessThan(f, f) /\ LessThan(Drop(f, id), f) /\ DOMAIN Drop(f, id) = DOMAIN f \ {id}
BY DEF LessThan, Drop

(* The stream that is closed leaves its table; a handle on which no        *)
(* request has failed keeps its place.                                     *)
LEMMA LeavesTable ==
  ASSUME StreamsInv, call.state = "sent", NEW h \in 1 .. opened, h = op.h, str[h].open,
         NEW id, id = str[h].streamId, id \in DOMAIN Table(h), NEW i, i = Table(h)[id],
         removeStream(id), UNCHANGED <<program, str>>
  PROVE  /\ LessThan(bulkSources', bulkSources) /\ LessThan(bulkSinks', bulkSinks)
         /\ \A j \in DOMAIN bulkSources' : bulkSources'[j] # i
         /\ \A j \in DOMAIN bulkSinks' : bulkSinks'[j] # i
         /\ \A k \in Handles : k # h /\ str[k].open /\ (k \notin failed \/ failures = 0)
                                => str[k].streamId \in DOMAIN Table(k)'
<1>0. TablesOK /\ IdsOK /\ h \in Handles /\ objOf[h] # 0 /\ ~Returned
  <2>1. h \in Handles /\ objOf[h] \in DOMAIN objs /\ ValuesOK
    BY OfOneKind DEF StreamsInv
  <2>2. objs \in Seq(Objects)
    BY <2>1 DEF ValuesOK
  <2>3. objOf[h] # 0
    BY <2>1, <2>2
  <2> QED
    BY <2>1, <2>3 DEF StreamsInv, Returned
<1>1. /\ h \notin failed \/ failures = 0 => i = objOf[h]
      /\ \A k \in Handles \ failed : k # h => objOf[k] # i
  BY <1>0, Found
<1>2. /\ EntriesOK(bulkSources, lastBulkSourceId, 0) /\ EntriesOK(bulkSinks, lastBulkSinkId, 1)
      /\ \A j \in DOMAIN bulkSources, k \in DOMAIN bulkSinks : bulkSources[j] # bulkSinks[k]
  BY <1>0 DEF TablesOK
<1>3. ASSUME NEW k \in Handles, k # h, str[k].open, k \notin failed \/ failures = 0
      PROVE  str[k].streamId \in DOMAIN Table(k) /\ Table(k)[str[k].streamId] # i
  <2>1. str[k].streamId \in DOMAIN Table(k) /\ Table(k)[str[k].streamId] = objOf[k]
    BY <1>0, <1>3 DEF IdsOK, IdOK
  <2>2. objOf[k] # i
    <3>1. objOf[k] # objOf[h]
      BY <1>0, <1>3 DEF IdsOK
    <3> QED
      BY <1>1, <1>3, <3>1
  <2> QED
    BY <2>1, <2>2
<1>4. CASE program[h].isSource
  <2>1. id \in DOMAIN bulkSources /\ bulkSources[id] = i
    BY <1>4 DEF Table
  <2>2. id % 2 = 0
    BY <1>2, <2>1 DEF EntriesOK
  <2>3. bulkSources' = Drop(bulkSources, id) /\ bulkSinks' = bulkSinks
    BY <2>2 DEF removeStream
  <2>4. /\ LessThan(bulkSources', bulkSources) /\ LessThan(bulkSinks', bulkSinks)
        /\ DOMAIN bulkSources' = DOMAIN bulkSources \ {id}
    BY <2>3, Dropped
  <2>5. \A j \in DOMAIN bulkSources' : bulkSources'[j] # i
    <3>1. \A j \in DOMAIN bulkSources : bulkSources[j] = bulkSources[id] => j = id
      BY <1>2, <2>1 DEF EntriesOK
    <3> QED
      BY <2>1, <2>4, <3>1 DEF LessThan
  <2>6. \A j \in DOMAIN bulkSinks' : bulkSinks'[j] # i
    BY <1>2, <2>1, <2>3
  <2>7. ASSUME NEW k \in Handles, k # h, str[k].open, k \notin failed \/ failures = 0
        PROVE  str[k].streamId \in DOMAIN Table(k)'
    <3>1. CASE program[k].isSource
      <4>1. Table(k) = bulkSources /\ Table(k)' = bulkSources'
        BY <3>1 DEF Table
      <4>2. str[k].streamId # id
        BY <1>3, <2>1, <2>7, <4>1
      <4> QED
        BY <1>3, <2>4, <2>7, <4>1, <4>2
    <3>2. CASE ~program[k].isSource
      <4>1. Table(k) = bulkSinks /\ Table(k)' = bulkSinks'
        BY <3>2 DEF Table
      <4> QED
        BY <1>3, <2>3, <2>7, <4>1
    <3> QED
      BY <3>1, <3>2
  <2> QED
    BY <2>4, <2>5, <2>6, <2>7
<1>5. CASE ~program[h].isSource
  <2>1. id \in DOMAIN bulkSinks /\ bulkSinks[id] = i
    BY <1>5 DEF Table
  <2>2. id % 2 # 0
    BY <1>2, <2>1 DEF EntriesOK
  <2>3. bulkSinks' = Drop(bulkSinks, id) /\ bulkSources' = bulkSources
    BY <2>2 DEF removeStream
  <2>4. /\ LessThan(bulkSources', bulkSources) /\ LessThan(bulkSinks', bulkSinks)
        /\ DOMAIN bulkSinks' = DOMAIN bulkSinks \ {id}
    BY <2>3, Dropped
  <2>5. \A j \in DOMAIN bulkSinks' : bulkSinks'[j] # i
    <3>1. \A j \in DOMAIN bulkSinks : bulkSinks[j] = bulkSinks[id] => j = id
      BY <1>2, <2>1 DEF EntriesOK
    <3> QED
      BY <2>1, <2>4, <3>1 DEF LessThan
  <2>6. \A j \in DOMAIN bulkSources' : bulkSources'[j] # i
    BY <1>2, <2>1, <2>3
  <2>7. ASSUME NEW k \in Handles, k # h, str[k].open, k \notin failed \/ failures = 0
        PROVE  str[k].streamId \in DOMAIN Table(k)'
    <3>1. CASE program[k].isSource
      <4>1. Table(k) = bulkSources /\ Table(k)' = bulkSources'
        BY <3>1 DEF Table
      <4> QED
        BY <1>3, <2>3, <2>7, <4>1
    <3>2. CASE ~program[k].isSource
      <4>1. Table(k) = bulkSinks /\ Table(k)' = bulkSinks'
        BY <3>2 DEF Table
      <4>2. str[k].streamId # id
        BY <1>3, <2>1, <2>7, <4>1
      <4> QED
        BY <1>3, <2>4, <2>7, <4>1, <4>2
    <3> QED
      BY <3>1, <3>2
  <2> QED
    BY <2>4, <2>5, <2>6, <2>7
<1> QED
  BY <1>4, <1>5

(* No entry of a table leads to i; no object but i is changed.             *)
LeadsNowhere(table, i) == \A j \in DOMAIN table : table[j] # i
ChangesOnly(new, old, i) == DOMAIN new = DOMAIN old /\ \A j \in DOMAIN old : j # i => new[j] = old[j]

(* What is left after a stream was closed.                                 *)
LEMMA CloseTables ==
  ASSUME TablesOK, UNCHANGED <<lastBulkSourceId, lastBulkSinkId>>,
         LessThan(bulkSources', bulkSources), LessThan(bulkSinks', bulkSinks), NEW i,
         LeadsNowhere(bulkSources', i), LeadsNowhere(bulkSinks', i), ChangesOnly(objs', objs, i)
  PROVE  TablesOK'
<1>0. /\ \A j \in DOMAIN bulkSources' : bulkSources'[j] # i
      /\ \A j \in DOMAIN bulkSinks' : bulkSinks'[j] # i
      /\ DOMAIN objs' = DOMAIN objs /\ \A j \in DOMAIN objs : j # i => objs'[j] = objs[j]
  BY DEF LeadsNowhere, ChangesOnly
<1>1. ASSUME NEW f, NEW g, NEW last, NEW parity,
             LessThan(g, f), EntriesOK(f, last, parity), \A j \in DOMAIN g : g[j] # i
      PROVE  EntriesOK(g, last, parity)'
  <2>1. \A j \in DOMAIN g :
          /\ j \in DOMAIN f /\ g[j] = f[j]
          /\ j \in Nat /\ j % 2 = parity /\ j <= last
          /\ g[j] \in DOMAIN objs' /\ objs'[g[j]] = objs[g[j]] /\ objs[g[j]].state # STATE_CLOSED
    BY <1>0, <1>1 DEF LessThan, EntriesOK
  <2>2. \A j, k \in DOMAIN g : g[j] = g[k] => j = k
    BY <1>1, <2>1 DEF EntriesOK
  <2> QED
    BY <1>1, <2>1, <2>2 DEF EntriesOK
<1>2. EntriesOK(bulkSources, lastBulkSourceId, 0)' /\ EntriesOK(bulkSinks, lastBulkSinkId, 1)'
  <2> SUFFICES ASSUME NEW f, f = bulkSources', NEW g, g = bulkSinks',
                      NEW m, m = lastBulkSourceId', NEW n, n = lastBulkSinkId'
               PROVE  EntriesOK(f, m, 0)' /\ EntriesOK(g, n, 1)'
    BY DEF EntriesOK
  <2> QED
    BY <1>0, <1>1 DEF TablesOK
<1>3. \A j \in DOMAIN bulkSources', k \in DOMAIN bulkSinks' : bulkSources'[j] # bulkSinks'[k]
  BY DEF TablesOK, LessThan
<1> QED
  BY <1>2, <1>3 DEF TablesOK

ClosedObject(o) == [o EXCEPT !.state = STATE_CLOSED]
ClosesObject(i) == objs' = [objs EXCEPT ![i].state = STATE_CLOSED]

(* A stream object is closed and leaves its table.                         *)
LEMMA CloseStreamInv ==
  ASSUME StreamsInv, call.state = "sent", NEW h \in 1 .. opened, h = op.h, op.fn = "closing",
         call.id = str[h].streamId, call.id \in DOMAIN Table(h),
         ClosesObject(Table(h)[call.id]),
         removeStream(call.id), call' = Answer("ok", STATE_CLOSED, <<>>),
         UNCHANGED clientVars,
         UNCHANGED <<lastBulkSourceId, lastBulkSinkId, dispatcher, failures, failed>>
  PROVE  StreamsInv'
<1> SUFFICES ASSUME NEW i, i = Table(h)[call.id], NEW after, after = ClosedObject(objs[i])
             PROVE  StreamsInv'
  OBVIOUS
<1>0. UNCHANGED <<program, str, opened, op, objOf, passed>>
  BY DEF clientVars
<1>1. /\ h \in Handles /\ str[h].open /\ str[h].isSourceStream \in BOOLEAN
      /\ str[h].isSourceStream = program[h].isSource
  BY AtWork
<1>2. /\ ValuesOK /\ TablesOK /\ IdsOK /\ CallOK /\ ObjectsOK /\ ReadOK(h) /\ WriteOK(h)
      /\ failures \in Nat /\ failed \subseteq 1 .. opened /\ objs \in Seq(Objects) /\ dispatcher \in DOMAIN FirstIds
  BY <1>1 DEF StreamsInv, ValuesOK, ObjectsOK
<1>3. ~Returned /\ call # NoCall /\ op # NoOp
  BY AskedBy
<1>4. /\ i \in DOMAIN objs /\ \A k \in Handles \ failed : k # h => objOf[k] # i
      /\ h \notin failed \/ failures = 0 => i = objOf[h]
  <2>1. i \in DOMAIN objs
    BY <1>2 DEF TablesOK, EntriesOK, Table
  <2> QED
    BY <1>1, <2>1, Found
<1>5. ObjectSet(i, after)
  BY <1>2, <1>4 DEF ObjectSet, ClosesObject, ClosedObject
<1>6. after \in Objects /\ ObjectOK(after) /\ after.content = objs[i].content /\ after.pos = objs[i].pos
  <2>1. objs[i] \in Objects /\ ObjectOK(objs[i])
    BY <1>2, <1>4 DEF ObjectsOK
  <2>2. STATE_CLOSED \in States /\ STATE_CLOSED # STATE_SOURCE_ENDED
    BY DEF States, STATE_CLOSED, STATE_SOURCE_ENDED
  <2>3. /\ after \in Objects /\ after.content = objs[i].content /\ after.pos = objs[i].pos
        /\ after.state = STATE_CLOSED
    BY <2>1, <2>2 DEF Objects, ClosedObject
  <2> QED
    BY <2>1, <2>2, <2>3 DEF ObjectOK
<1>7. /\ objs' \in Seq(Objects) /\ Len(objs') = Len(objs) /\ Len(objs) <= Len(objs')
      /\ DOMAIN objs' = DOMAIN objs /\ objs'[i] = after
      /\ \A j \in DOMAIN objs : j # i => objs'[j] = objs[j]
      /\ \A k \in Handles \ failed : k # h /\ objOf[k] # 0 => objs'[objOf[k]] = objs[objOf[k]]
      /\ ObjectsOK'
  BY <1>1, <1>4, <1>5, <1>6, OneObject
<1>8. /\ call' \in Calls /\ call' # NoCall /\ Returned' /\ call'.state = "answered" /\ call'.rc = "ok"
  <2>1. STATE_CLOSED \in Int /\ <<>> \in Seq(Byte)
    BY DEF STATE_CLOSED
  <2> QED
    BY <2>1, Answered
<1>9. /\ LessThan(bulkSources', bulkSources) /\ LessThan(bulkSinks', bulkSinks)
      /\ \A j \in DOMAIN bulkSources' : bulkSources'[j] # i
      /\ \A j \in DOMAIN bulkSinks' : bulkSinks'[j] # i
      /\ \A k \in Handles : k # h /\ str[k].open /\ (k \notin failed \/ failures = 0)
                             => str[k].streamId \in DOMAIN Table(k)'
  BY <1>0, <1>1, LeavesTable
<1>10. TablesOK'
  <2>1. ChangesOnly(objs', objs, i)
    BY <1>7 DEF ChangesOnly
  <2>2. /\ LessThan(bulkSources', bulkSources) /\ LessThan(bulkSinks', bulkSinks)
        /\ LeadsNowhere(bulkSources', i) /\ LeadsNowhere(bulkSinks', i)
    BY <1>9 DEF LeadsNowhere
  <2> QED
    BY <1>2, <2>1, <2>2, CloseTables
<1>11. IdsOK'
  <2>1. ASSUME NEW k \in Handles
        PROVE  IdOK(k)'
    <3>1. IdOK(k)
      BY <1>2 DEF IdsOK
    <3>2. LessThan(Table(k)', Table(k)) /\ Handles' = Handles
      BY <1>0, <1>9 DEF Table, Handles
    <3> SUFFICES ASSUME str[k].open
                 PROVE  IdOK(k)'
      BY <1>0 DEF IdOK
    <3>3. \A j \in DOMAIN Table(k)' : j \in DOMAIN Table(k) /\ Table(k)'[j] = Table(k)[j]
      BY <3>2 DEF LessThan
    <3>4. k \notin failed' \/ failures' = 0 =>
            \/ str'[k].streamId \in DOMAIN Table(k)' /\ Table(k)'[str'[k].streamId] = objOf'[k]
            \/ (Busy({"closing"}, k) /\ Returned)'
      <4>1. CASE k = h
        BY <1>0, <1>8, <4>1 DEF Busy
      <4>2. CASE k # h
        BY <1>0, <1>3, <1>9, <3>1, <3>3, <4>2 DEF IdOK
      <4> QED
        BY <4>1, <4>2
    <3> QED
      BY <1>0, <3>1, <3>2, <3>3, <3>4 DEF IdOK
  <2>2. \A o : Owned(o) => Owned(o)'
    BY <1>0 DEF Owned
  <2>3. Handles' = Handles
    BY DEF Handles
  <2>4. failures' = 0 => /\ \A j \in DOMAIN bulkSources' : Owned(bulkSources[j])'
                         /\ \A j \in DOMAIN bulkSinks' : Owned(bulkSinks[j])'
    <3> SUFFICES ASSUME failures = 0
                 PROVE  /\ \A j \in DOMAIN bulkSources' : Owned(bulkSources[j])'
                        /\ \A j \in DOMAIN bulkSinks' : Owned(bulkSinks[j])'
      OBVIOUS
    <3>1. ASSUME NEW j \in DOMAIN bulkSources'
          PROVE  Owned(bulkSources[j])'
      <4> SUFFICES ASSUME NEW v, v = bulkSources'[j]
                   PROVE  Owned(v)'
        BY DEF Owned
      <4>1. Owned(v)
        BY <1>2, <1>9, <3>1 DEF IdsOK, LessThan
      <4> QED
        BY <2>2, <4>1
    <3>2. ASSUME NEW j \in DOMAIN bulkSinks'
          PROVE  Owned(bulkSinks[j])'
      <4> SUFFICES ASSUME NEW v, v = bulkSinks'[j]
                   PROVE  Owned(v)'
        BY DEF Owned
      <4>1. Owned(v)
        BY <1>2, <1>9, <3>2 DEF IdsOK, LessThan
      <4> QED
        BY <2>2, <4>1
    <3> QED
      BY <3>1, <3>2
  <2>5. \A f, g \in Handles : objOf'[f] = objOf'[g] => f = g \/ objOf'[f] = 0
    BY <1>0, <1>2 DEF IdsOK
  <2> QED
    BY <2>1, <2>3, <2>4, <2>5 DEF IdsOK
<1>12. CallOK'
  <2>1. OpenOK' /\ ReadingOK' /\ WritingOK'
    BY <1>0 DEF OpenOK, ReadingOK, WritingOK
  <2>2. ClosingOK'
    BY <1>0, <1>1, <1>2, <1>3, <1>4, <1>8, <1>9 DEF CallOK, ClosingOK, Request, Sink
  <2> QED
    BY <1>0, <1>3, <1>8, <2>1, <2>2 DEF CallOK
<1>13. h \notin failed => Content(h)' = Content(h) /\ objs'[objOf'[h]].pos = objs[objOf[h]].pos
  BY <1>0, <1>4, <1>6, <1>7 DEF Content
<1>14. ReadOK(h)'
  <2>1. OutOf(h)' = OutOf(h) /\ Arrived(h)' = Arrived(h) /\ Unread(h)' = Unread(h)
    BY <1>0 DEF OutOf, Arrived, Unread, Busy
  <2>2. /\ Underway(h)' = Underway(h) /\ (TextSource(h)' <=> TextSource(h))
        /\ h \notin failed => (AllRead(h)' <=> AllRead(h))
    BY <1>0, <1>13, <2>1, UnderwayIs DEF AllRead, TextSource
  <2> QED
    BY <1>0, <1>2, <1>13, <2>2 DEF ReadOK, Source
<1>15. WriteOK(h)'
  <2>1. ~Busy({"write", "flush", "close"}, h) /\ ~(Busy({"write", "flush", "close"}, h)')
    BY <1>0 DEF Busy
  <2> QED
    BY <1>0, <1>2, <1>13, <2>1 DEF WriteOK
<1> QED
  BY <1>2, <1>7, <1>8, <1>10, <1>11, <1>12, <1>14, <1>15, RemoteStep

(* A source or a sink is closed.                                           *)
LEMMA CloseInv ==
  ASSUME StreamsInv, closeSource \/ closeSink
  PROVE  StreamsInv'
<1> SUFFICES ASSUME NEW h, h = op.h
             PROVE  StreamsInv'
  OBVIOUS
<1>0. /\ call.state = "sent" /\ removeStream(call.id) /\ call' = Answer("ok", STATE_CLOSED, <<>>)
      /\ UNCHANGED clientVars /\ UNCHANGED <<lastBulkSourceId, lastBulkSinkId, dispatcher, failures, failed>>
  BY DEF closeSource, closeSink, closeStream, Asked, remoteStep
<1>1. CASE closeSource
  <2>1. /\ call.cmd = "BULKSRC_CLOSE" /\ call.id \in DOMAIN bulkSources
        /\ ClosesObject(bulkSources[call.id])
    BY <1>1 DEF closeSource, closeStream, Asked, ClosesObject
  <2>2. h \in 1 .. opened /\ op.fn = "closing" /\ str[h].isSourceStream /\ call.id = str[h].streamId
    BY <1>0, <2>1, AskedBy
  <2>3. program[h].isSource
    BY <2>2, AtWork
  <2>4. Table(h) = bulkSources
    BY <2>3 DEF Table
  <2> QED
    BY <1>0, <2>1, <2>2, <2>4, CloseStreamInv
<1>2. CASE closeSink
  <2>1. /\ call.cmd = "BULKSINK_CLOSE" /\ call.id \in DOMAIN bulkSinks
        /\ ClosesObject(bulkSinks[call.id])
    BY <1>2 DEF closeSink, closeStream, Asked, ClosesObject
  <2>2. h \in 1 .. opened /\ op.fn = "closing" /\ ~str[h].isSourceStream /\ call.id = str[h].streamId
    BY <1>0, <2>1, AskedBy
  <2>3. ~program[h].isSource
    BY <2>2, AtWork
  <2>4. Table(h) = bulkSinks
    BY <2>3 DEF Table
  <2> QED
    BY <1>0, <2>1, <2>2, <2>4, CloseStreamInv
<1> QED
  BY <1>1, <1>2


(* A new entry in a table.                                                 *)
Entry(g, f, k, v) ==
  /\ DOMAIN g = DOMAIN f \cup {k} /\ g[k] = v
  /\ \A i \in DOMAIN f : i # k => g[i] = f[i]

(* It is there, with the old ones.                                         *)
LEMMA Entered ==
  ASSUME NEW f, NEW k, NEW v
  PROVE  Entry(Put(f, k, v), f, k, v)
BY DEF Put, Entry

(* A new stream object is the last one.                                    *)
AddsObject(o) == objs' = Append(objs, o)

(* It is at the end of the objects, which stay as they are.                *)
LEMMA LastObject ==
  ASSUME objs \in Seq(Objects), NEW o \in Objects, AddsObject(o), NEW l, l = Len(objs')
  PROVE  /\ objs' \in Seq(Objects) /\ objs' # <<>> /\ l \in Nat /\ l # 0 /\ Len(objs) <= l
         /\ l \notin DOMAIN objs /\ DOMAIN objs' = DOMAIN objs \cup {l} /\ objs'[l] = o
         /\ \A j \in DOMAIN objs : objs'[j] = objs[j]
<1>1. objs' = Append(objs, o) /\ Len(objs) \in Nat
  BY DEF AddsObject
<1>2. objs' \in Seq(Objects) /\ l = Len(objs) + 1 /\ objs'[l] = o /\ l \in Nat
  BY <1>1
<1>3. DOMAIN objs = 1 .. Len(objs) /\ DOMAIN objs' = 1 .. l
  <2>1. DOMAIN objs = 1 .. Len(objs)
    OBVIOUS
  <2>2. DOMAIN objs' = 1 .. Len(objs')
    <3>1. \A s \in Seq(Objects) : DOMAIN s = 1 .. Len(s)
      OBVIOUS
    <3>2. objs' \in Seq(Objects)
      BY <1>2
    <3> QED
      BY <3>1, <3>2, Zenon
  <2> QED
    BY <2>1, <2>2
<1>4. \A j \in 1 .. Len(objs) : objs'[j] = objs[j]
  BY <1>1
<1> QED
  BY <1>1, <1>2, <1>3, <1>4

(* Ids of sources are even and ids of sinks are odd: the next one is       *)
(* larger by 2.                                                            *)
LEMMA NextId ==
  ASSUME NEW last \in Nat, NEW parity, last % 2 = parity
  PROVE  last + 2 \in Nat /\ (last + 2) % 2 = parity /\ last < last + 2
OBVIOUS

(* The table it is entered in.                                             *)
LEMMA NewEntries ==
  ASSUME NEW f, NEW last \in Nat, NEW parity, EntriesOK(f, last, parity),
         NEW id \in Nat, id % 2 = parity, last < id,
         NEW l, l \notin DOMAIN objs, DOMAIN objs' = DOMAIN objs \cup {l}, objs'[l].state # STATE_CLOSED,
         \A j \in DOMAIN objs : objs'[j] = objs[j],
         NEW g, Entry(g, f, id, l)
  PROVE  EntriesOK(g, id, parity)' /\ id \notin DOMAIN f
<1>1. /\ DOMAIN g = DOMAIN f \cup {id} /\ g[id] = l
      /\ \A i \in DOMAIN f : i # id => g[i] = f[i]
  BY DEF Entry
<1>2. /\ \A i \in DOMAIN f :
           /\ i \in Nat /\ i % 2 = parity /\ i <= last
           /\ f[i] \in DOMAIN objs /\ objs[f[i]].state # STATE_CLOSED
      /\ \A i, j \in DOMAIN f : f[i] = f[j] => i = j
  BY DEF EntriesOK
<1>3. id \notin DOMAIN f /\ \A i \in DOMAIN f : i <= id
  BY <1>2
<1>4. ASSUME NEW i \in DOMAIN g
      PROVE  /\ i \in Nat /\ i % 2 = parity /\ i <= id
             /\ g[i] \in DOMAIN objs' /\ objs'[g[i]].state # STATE_CLOSED
  <2>1. CASE i = id
    <3>1. id <= id
      OBVIOUS
    <3> QED
      BY <1>1, <2>1, <3>1
  <2>2. CASE i \in DOMAIN f
    <3>1. g[i] = f[i] /\ objs'[f[i]] = objs[f[i]]
      BY <1>1, <1>2, <1>3, <2>2
    <3> QED
      BY <1>2, <1>3, <2>2, <3>1
  <2> QED
    BY <1>1, <2>1, <2>2
<1>5. \A i, j \in DOMAIN g : g[i] = g[j] => i = j
  <2>1. \A i \in DOMAIN f : g[i] = f[i] /\ f[i] # l
    BY <1>1, <1>2, <1>3
  <2> QED
    BY <1>1, <1>2, <2>1
<1> QED
  BY <1>3, <1>4, <1>5 DEF EntriesOK

(* A table that is left alone.                                             *)
LEMMA OldEntries ==
  ASSUME NEW f, NEW last, NEW parity, EntriesOK(f, last, parity),
         DOMAIN objs \subseteq DOMAIN objs', \A j \in DOMAIN objs : objs'[j] = objs[j]
  PROVE  EntriesOK(f, last, parity)'
BY DEF EntriesOK


(* What a dispatcher does to its tables for a stream that is opened.       *)
GivesId(h, id, l) ==
  IF program[h].isSource
  THEN /\ Entry(bulkSources', bulkSources, id, l) /\ lastBulkSourceId' = id
       /\ UNCHANGED <<bulkSinks, lastBulkSinkId>>
  ELSE /\ Entry(bulkSinks', bulkSinks, id, l) /\ lastBulkSinkId' = id
       /\ UNCHANGED <<bulkSources, lastBulkSourceId>>

(* The id after the last one.                                              *)
FollowsLast(h, id) == id = LastId(h) + 2

(* It is larger than all ids in the table.                                 *)
LEMMA FreshId ==
  ASSUME TablesOK, NEW h, NEW id, FollowsLast(h, id)
  PROVE  /\ id \in Nat /\ LastId(h) \in Nat /\ LastId(h) < id
         /\ id % 2 = IF program[h].isSource THEN 0 ELSE 1
         /\ id \notin DOMAIN Table(h)
<1> DEFINE parity == IF program[h].isSource THEN 0 ELSE 1
<1>1. /\ LastId(h) \in Nat /\ LastId(h) % 2 = parity
      /\ \A i \in DOMAIN Table(h) : i \in Nat /\ i <= LastId(h)
  BY DEF TablesOK, EntriesOK, LastId, Table
<1> HIDE DEF parity
<1>2. id \in Nat /\ id % 2 = parity /\ LastId(h) < id
  BY <1>1, NextId DEF FollowsLast
<1> QED
  BY <1>1, <1>2 DEF parity

(* The tables with their new entry.                                        *)
LEMMA AddTables ==
  ASSUME TablesOK, NEW h \in 1 .. opened, UNCHANGED program, NEW id, FollowsLast(h, id),
         NEW l, l \notin DOMAIN objs, DOMAIN objs' = DOMAIN objs \cup {l}, objs'[l].state # STATE_CLOSED,
         \A j \in DOMAIN objs : objs'[j] = objs[j], GivesId(h, id, l)
  PROVE  TablesOK'
<1>1. /\ id \in Nat /\ LastId(h) \in Nat /\ LastId(h) < id
      /\ id % 2 = IF program[h].isSource THEN 0 ELSE 1
  BY FreshId
<1>2. CASE program[h].isSource
  <2>1. LastId(h) = lastBulkSourceId /\ id % 2 = 0
    BY <1>1, <1>2 DEF LastId
  <2>2. /\ Entry(bulkSources', bulkSources, id, l) /\ lastBulkSourceId' = id
        /\ bulkSinks' = bulkSinks /\ lastBulkSinkId' = lastBulkSinkId
    BY <1>2 DEF GivesId
  <2>3. EntriesOK(bulkSources, lastBulkSourceId, 0)' /\ id \notin DOMAIN bulkSources
    <3>1. EntriesOK(bulkSources, lastBulkSourceId, 0)
      BY DEF TablesOK
    <3> SUFFICES ASSUME NEW g, g = bulkSources'
                 PROVE  EntriesOK(g, id, 0)' /\ id \notin DOMAIN bulkSources
      BY <2>2 DEF EntriesOK
    <3> QED
      BY <1>1, <2>1, <2>2, <3>1, NewEntries
  <2>4. EntriesOK(bulkSinks, lastBulkSinkId, 1)'
    <3>1. EntriesOK(bulkSinks, lastBulkSinkId, 1)
      BY DEF TablesOK
    <3> SUFFICES ASSUME NEW f, f = bulkSinks, NEW m, m = lastBulkSinkId
                 PROVE  EntriesOK(f, m, 1)'
      BY <2>2 DEF EntriesOK
    <3> QED
      BY <3>1, OldEntries
  <2>5. \A i \in DOMAIN bulkSources', j \in DOMAIN bulkSinks' : bulkSources'[i] # bulkSinks'[j]
    <3>1. \A j \in DOMAIN bulkSinks : bulkSinks[j] \in DOMAIN objs
      BY DEF TablesOK, EntriesOK
    <3> QED
      BY <2>2, <2>3, <3>1 DEF TablesOK, Entry
  <2> QED
    BY <2>2, <2>3, <2>4, <2>5 DEF TablesOK
<1>3. CASE ~program[h].isSource
  <2>1. LastId(h) = lastBulkSinkId /\ id % 2 = 1
    BY <1>1, <1>3 DEF LastId
  <2>2. /\ Entry(bulkSinks', bulkSinks, id, l) /\ lastBulkSinkId' = id
        /\ bulkSources' = bulkSources /\ lastBulkSourceId' = lastBulkSourceId
    BY <1>3 DEF GivesId
  <2>3. EntriesOK(bulkSinks, lastBulkSinkId, 1)' /\ id \notin DOMAIN bulkSinks
    <3>1. EntriesOK(bulkSinks, lastBulkSinkId, 1)
      BY DEF TablesOK
    <3> SUFFICES ASSUME NEW g, g = bulkSinks'
                 PROVE  EntriesOK(g, id, 1)' /\ id \notin DOMAIN bulkSinks
      BY <2>2 DEF EntriesOK
    <3> QED
      BY <1>1, <2>1, <2>2, <3>1, NewEntries
  <2>4. EntriesOK(bulkSources, lastBulkSourceId, 0)'
    <3>1. EntriesOK(bulkSources, lastBulkSourceId, 0)
      BY DEF TablesOK
    <3> SUFFICES ASSUME NEW f, f = bulkSources, NEW m, m = lastBulkSourceId
                 PROVE  EntriesOK(f, m, 0)'
      BY <2>2 DEF EntriesOK
    <3> QED
      BY <3>1, OldEntries
  <2>5. \A i \in DOMAIN bulkSources', j \in DOMAIN bulkSinks' : bulkSources'[i] # bulkSinks'[j]
    <3>1. \A j \in DOMAIN bulkSources : bulkSources[j] \in DOMAIN objs
      BY DEF TablesOK, EntriesOK
    <3> QED
      BY <2>2, <2>3, <3>1 DEF TablesOK, Entry
  <2> QED
    BY <2>2, <2>3, <2>4, <2>5 DEF TablesOK
<1> QED
  BY <1>2, <1>3


(* A handle keeps its id when another stream gets one.                     *)
LEMMA IdBesideNew ==
  ASSUME TablesOK, IdsOK, op.fn = "open", ~Returned, NEW h,
         UNCHANGED <<program, str, op, objOf, failures>>, failed \subseteq failed',
         NEW id, FollowsLast(h, id), NEW l, \A g \in Handles : objOf[g] # l, GivesId(h, id, l),
         NEW k \in Handles
  PROVE  IdOK(k)'
<1> SUFFICES ASSUME str[k].open
             PROVE  IdOK(k)'
  BY DEF IdOK
<1>1. IdOK(k) /\ ~Busy({"closing"}, k) /\ Handles' = Handles
  BY DEF IdsOK, Busy, Handles
<1>2. Table(k)' = Table(k) \/ (Entry(Table(k)', Table(k), id, l) /\ id \notin DOMAIN Table(k))
  <2>1. id \notin DOMAIN Table(h)
    BY FreshId
  <2> QED
    BY <2>1 DEF GivesId, Table
<1>3. /\ \A j \in DOMAIN Table(k) : j \in DOMAIN Table(k)' /\ Table(k)'[j] = Table(k)[j]
      /\ \A j \in DOMAIN Table(k)' : j \in DOMAIN Table(k) \/ Table(k)'[j] = l
  BY <1>2 DEF Entry
<1>4. k \notin failed' \/ failures' = 0 =>
        str[k].streamId \in DOMAIN Table(k) /\ Table(k)[str[k].streamId] = objOf[k]
  BY <1>1 DEF IdOK
<1>5. str[k].streamId \in DOMAIN Table(k)' =>
        \A g \in Handles \ failed : objOf[g] = Table(k)'[str[k].streamId] => g = k
  BY <1>1, <1>3 DEF IdOK
<1> QED
  BY <1>1, <1>3, <1>4, <1>5 DEF IdOK

(* A stream object is new, and its id is new to the dispatcher.  Should    *)
(* another open handle have it, the new stream counts as failed.           *)
LEMMA AddStreamInv ==
  ASSUME StreamsInv, op.fn = "open", call.state = "sent", NEW h, h = op.h, NEW o \in Objects, AddsObject(o),
         o.pos = 0, o.state = STATE_OK, ~program[h].isSource => o.content = <<>>,
         NEW id, FollowsLast(h, id), NEW l, l = Len(objs'), GivesId(h, id, l),
         call' = Answer("new", id, <<>>), failed' = failed \cup sharedWith(id),
         UNCHANGED clientVars, UNCHANGED <<dispatcher, failures>>
  PROVE  StreamsInv'
<1>0. /\ UNCHANGED <<program, str, opened, op, lineEndMode, objOf, passed>>
      /\ ~Returned
  BY DEF clientVars, Returned
<1>1. /\ h \in 1 .. opened /\ h \in Handles /\ h = opened /\ opened \in Nat
      /\ ~str[h].open /\ objOf[h] = 0 /\ passed[h] = <<>>
      /\ program[h].isSource \in BOOLEAN
  BY AtOpen
<1>2. /\ ValuesOK /\ TablesOK /\ IdsOK /\ CallOK /\ ObjectsOK
      /\ failures \in Nat /\ failed \subseteq 1 .. opened /\ objs \in Seq(Objects) /\ dispatcher \in DOMAIN FirstIds
  BY DEF StreamsInv, ValuesOK, ObjectsOK
<1>3. /\ objs' \in Seq(Objects) /\ objs' # <<>> /\ l \in Nat /\ l # 0 /\ Len(objs) <= l
      /\ l \notin DOMAIN objs /\ DOMAIN objs' = DOMAIN objs \cup {l} /\ objs'[l] = o
      /\ \A j \in DOMAIN objs : objs'[j] = objs[j]
  BY <1>2, LastObject
<1>4. id \in Nat /\ LastId(h) \in Nat /\ LastId(h) < id
  BY <1>2, FreshId
<1>5. /\ call' \in Calls /\ call' # NoCall /\ Returned' /\ call'.state = "answered"
      /\ call'.rc = "new" /\ call'.word2 = id
  <2>1. id \in Int /\ <<>> \in Seq(Byte)
    BY <1>4
  <2> QED
    BY <2>1, Answered
<1>6. \A k \in Handles : (objOf[k] # 0 => objOf[k] \in DOMAIN objs) /\ objOf[k] # l
  BY <1>2, <1>3 DEF ValuesOK
<1>7. TablesOK'
  <2>1. objs'[l].state # STATE_CLOSED
    BY <1>3 DEF STATE_OK, STATE_CLOSED
  <2> QED
    BY <1>0, <1>1, <1>2, <1>3, <2>1, AddTables
<1>8. LastId(h)' = id /\ Entry(Table(h)', Table(h), id, l)
  BY <1>0 DEF GivesId, LastId, Table
<1>9. IdsOK'
  <2>1. \A k \in Handles : IdOK(k)'
    BY <1>0, <1>2, <1>6, IdBesideNew
  <2>2. ASSUME NEW v, Owned(v)
        PROVE  Owned(v)'
    BY <1>0, <2>2 DEF Owned
  <2>3. Owned(l)'
    BY <1>0, <1>5 DEF Owned
  <2>4. ASSUME failures = 0
        PROVE  /\ \A i \in DOMAIN bulkSources' : Owned(bulkSources[i])'
               /\ \A i \in DOMAIN bulkSinks' : Owned(bulkSinks[i])'
    <3>1. /\ \A i \in DOMAIN bulkSources : Owned(bulkSources[i])
          /\ \A i \in DOMAIN bulkSinks : Owned(bulkSinks[i])
      BY <1>2, <2>4 DEF IdsOK
    <3>2. /\ \A i \in DOMAIN bulkSources' :
               bulkSources'[i] = l \/ (i \in DOMAIN bulkSources /\ bulkSources'[i] = bulkSources[i])
          /\ \A i \in DOMAIN bulkSinks' :
               bulkSinks'[i] = l \/ (i \in DOMAIN bulkSinks /\ bulkSinks'[i] = bulkSinks[i])
      BY DEF GivesId, Entry
    <3>3. ASSUME NEW i \in DOMAIN bulkSources'
          PROVE  Owned(bulkSources[i])'
      <4> SUFFICES ASSUME NEW v, v = bulkSources'[i]
                   PROVE  Owned(v)'
        BY DEF Owned
      <4> QED
        BY <2>2, <2>3, <3>1, <3>2, <3>3
    <3>4. ASSUME NEW i \in DOMAIN bulkSinks'
          PROVE  Owned(bulkSinks[i])'
      <4> SUFFICES ASSUME NEW v, v = bulkSinks'[i]
                   PROVE  Owned(v)'
        BY DEF Owned
      <4> QED
        BY <2>2, <2>3, <3>1, <3>2, <3>4
    <3> QED
      BY <3>3, <3>4
  <2>5. Handles' = Handles
    BY DEF Handles
  <2> QED
    BY <1>0, <1>2, <2>1, <2>4, <2>5 DEF IdsOK
<1>10. CallOK'
  <2>1. Opened'
    <3>1. /\ call'.word2 = LastId(h)' /\ call'.word2 \in DOMAIN Table(h)' /\ Table(h)'[call'.word2] = Len(objs')
      BY <1>5, <1>8 DEF Entry
    <3>2. objs'[Len(objs')] = o
      BY <1>3
    <3>3. \A k \in Handles : objOf'[k] # Len(objs')
      BY <1>0, <1>3, <1>6
    <3>4. Handles' = Handles /\ LastId(op.h)' = LastId(h)' /\ Table(op.h)' = Table(h)' /\ op'.h = h
      BY <1>0 DEF Handles, LastId, Table
    <3>5. h \notin failed' => \A k \in Handles : str'[k].open => str'[k].streamId # call'.word2
      <4>1. h \notin failed' => \A k \in Handles : str[k].open => str[k].streamId # id
        BY DEF sharedWith
      <4> QED
        BY <1>0, <1>5, <4>1
    <3> QED
      BY <1>0, <1>3, <3>1, <3>2, <3>3, <3>4, <3>5 DEF Opened
  <2>2. OpenOK'
    BY <1>0, <1>1, <1>5, <2>1 DEF OpenOK, Request, Returned
  <2>3. ReadingOK' /\ WritingOK' /\ ClosingOK'
    BY <1>0 DEF ReadingOK, WritingOK, ClosingOK
  <2>4. op # NoOp
    BY <1>0 DEF NoOp
  <2> QED
    BY <1>0, <1>1, <1>5, <2>2, <2>3, <2>4 DEF CallOK
<1>11. ReadOK(h)' /\ WriteOK(h)'
  BY <1>0, <1>1 DEF ReadOK, WriteOK, Source
<1>12. ObjectsOK'
  <2>1. ObjectOK(o)
    <3>1. Len(o.content) \in Nat /\ Len(o.content) >= 0
      BY DEF Objects
    <3> QED
      BY <3>1 DEF ObjectOK, STATE_OK, STATE_SOURCE_ENDED
  <2> QED
    BY <1>2, <1>3, <2>1 DEF ObjectsOK
<1>13. \A k \in Handles : k # h /\ objOf[k] # 0 => objs'[objOf[k]] = objs[objOf[k]]
  BY <1>3, <1>6
<1>14. failed \subseteq failed' /\ failed' \subseteq 1 .. opened
  BY <1>1, <1>2 DEF sharedWith
<1> QED
  BY <1>0, <1>1, <1>2, <1>3, <1>5, <1>7, <1>9, <1>10, <1>11, <1>12, <1>13, <1>14, RemoteStep


(* A service has opened a stream, and it gets its id.                      *)
LEMMA AddInv ==
  ASSUME StreamsInv, addSource \/ addSink
  PROVE  StreamsInv'
<1> SUFFICES ASSUME NEW h, h = op.h
             PROVE  StreamsInv'
  OBVIOUS
<1>0. call.state = "sent" /\ UNCHANGED clientVars /\ UNCHANGED <<dispatcher, failures>>
  BY DEF addSource, addSink, Asked, remoteStep
<1>1. call.data \in Seq(Byte)
  BY <1>0, CallTypes DEF StreamsInv, ValuesOK
<1>2. 0 \in Nat /\ STATE_OK \in States
  BY DEF States
<1>3. CASE addSource
  <2>1. op.fn = "open" /\ program[h].isSource
    BY <1>0, <1>3, AskedBy DEF addSource, Asked
  <2> DEFINE o == [content |-> call.data, pos |-> 0, state |-> STATE_OK]
             id == lastBulkSourceId + 2
             l == Len(objs')
  <2>2. o \in Objects /\ o.pos = 0 /\ o.state = STATE_OK
    BY <1>1, <1>2 DEF Objects
  <2>3. AddsObject(o)
    BY <1>3 DEF addSource, AddsObject
  <2>4. FollowsLast(h, id)
    BY <2>1 DEF FollowsLast, LastId
  <2>5. GivesId(h, id, l)
    <3>1. /\ lastBulkSourceId' = id /\ bulkSources' = Put(bulkSources, lastBulkSourceId', l)
          /\ UNCHANGED <<bulkSinks, lastBulkSinkId>>
      BY <1>3 DEF addSource
    <3> HIDE DEF id, l
    <3>2. bulkSources' = Put(bulkSources, id, l)
      BY <3>1
    <3> QED
      BY <2>1, <3>1, <3>2, Entered DEF GivesId
  <2>6. call' = Answer("new", id, <<>>) /\ failed' = failed \cup sharedWith(id)
    BY <1>3 DEF addSource, remoteStep
  <2>7. l = Len(objs')
    OBVIOUS
  <2> HIDE DEF o, id, l
  <2> QED
    BY <1>0, <2>1, <2>2, <2>3, <2>4, <2>5, <2>6, <2>7, AddStreamInv
<1>4. CASE addSink
  <2>1. op.fn = "open" /\ ~program[h].isSource
    BY <1>0, <1>4, AskedBy DEF addSink, Asked
  <2> DEFINE o == [content |-> <<>>, pos |-> 0, state |-> STATE_OK]
             id == lastBulkSinkId + 2
             l == Len(objs')
  <2>2. o \in Objects /\ o.pos = 0 /\ o.state = STATE_OK /\ o.content = <<>>
    <3>1. <<>> \in Seq(Byte)
      OBVIOUS
    <3> QED
      BY <1>2, <3>1 DEF Objects
  <2>3. AddsObject(o)
    BY <1>4 DEF addSink, AddsObject
  <2>4. FollowsLast(h, id)
    BY <2>1 DEF FollowsLast, LastId
  <2>5. GivesId(h, id, l)
    <3>1. /\ lastBulkSinkId' = id /\ bulkSinks' = Put(bulkSinks, lastBulkSinkId', l)
          /\ UNCHANGED <<bulkSources, lastBulkSourceId>>
      BY <1>4 DEF addSink
    <3> HIDE DEF id, l
    <3>2. bulkSinks' = Put(bulkSinks, id, l)
      BY <3>1
    <3> QED
      BY <2>1, <3>1, <3>2, Entered DEF GivesId
  <2>6. call' = Answer("new", id, <<>>) /\ failed' = failed \cup sharedWith(id)
    BY <1>4 DEF addSink, remoteStep
  <2>7. l = Len(objs')
    OBVIOUS
  <2> HIDE DEF o, id, l
  <2> QED
    BY <1>0, <2>1, <2>2, <2>3, <2>4, <2>5, <2>6, <2>7, AddStreamInv
<1> QED
  BY <1>3, <1>4

-----------------------------------------------------------------------------
(* The invariant.                                                          *)

(* At the start nothing is open.                                           *)
LEMMA StreamsInitInv ==
  ASSUME StreamsInit
  PROVE  StreamsInv
<1>0. /\ program \in Programs /\ str = [h \in Handles |-> NoStream] /\ opened = 0 /\ op = NoOp
      /\ lineEndMode = -1 /\ call = NoCall /\ bulkSources = <<>> /\ bulkSinks = <<>>
      /\ lastBulkSourceId = FirstIds[1] /\ lastBulkSinkId = FirstIds[1] + 1 /\ objs = <<>>
      /\ dispatcher = 1 /\ failures = 0 /\ failed = {}
      /\ passed = [h \in Handles |-> <<>>] /\ objOf = [h \in Handles |-> 0]
  BY DEF StreamsInit
<1>1. op.fn = "none" /\ call.state = "none" /\ DOMAIN bulkSources = {} /\ DOMAIN bulkSinks = {} /\ DOMAIN objs = {}
  BY <1>0 DEF NoOp, NoCall
<1>2. \A h \in Handles : /\ h \in Nat /\ h >= 1 /\ h > opened
                         /\ str[h] = NoStream /\ ~str[h].open /\ objOf[h] = 0 /\ passed[h] = <<>>
  BY <1>0, StreamBounds DEF Handles, NoStream
<1>3. FirstIds \in Seq(Nat) /\ 1 \in DOMAIN FirstIds /\ FirstIds[1] \in Nat /\ FirstIds[1] + 1 \in Nat
  BY StreamBounds
<1>4. ValuesOK
  <2>1. Len(program) \in Nat
    <3>1. program \in Seq(Range(program))
      BY <1>0, StreamPrograms
    <3> QED
      BY <3>1
  <2>2. opened \in 0 .. Len(program) /\ failures \in Nat /\ failed \subseteq 1 .. opened
    BY <1>0, <2>1
  <2>3. str \in [Handles -> {NoStream} \cup Structures] /\ objOf \in [Handles -> {0} \cup DOMAIN objs]
    BY <1>0
  <2>4. passed \in [Handles -> Seq(Byte) \cup Seq(Seq(Byte))] /\ objs \in Seq(Objects)
    <3>1. <<>> \in Seq(Byte) /\ <<>> \in Seq(Objects)
      OBVIOUS
    <3> QED
      BY <1>0, <3>1
  <2>5. op \in Ops /\ call \in Calls /\ lineEndMode \in {-1} \cup Platforms
    BY <1>0 DEF Ops, Calls
  <2> QED
    BY <1>0, <1>3, <2>2, <2>3, <2>4, <2>5 DEF ValuesOK
<1>5. \A h \in Handles : HandleOK(h) /\ ReadOK(h) /\ WriteOK(h) /\ IdOK(h)
  BY <1>2 DEF HandleOK, ReadOK, WriteOK, IdOK, Source
<1>6. TablesOK
  <2>1. FirstIds[1] % 2 = 0 /\ (FirstIds[1] + 1) % 2 = 1
    BY <1>3, FirstIdsEven
  <2> QED
    BY <1>0, <1>1, <1>3, <2>1 DEF TablesOK, EntriesOK
<1>7. IdsOK
  BY <1>1, <1>2, <1>5 DEF IdsOK
<1>8. CallOK
  BY <1>0, <1>1 DEF CallOK, OpenOK, ReadingOK, WritingOK, ClosingOK, Returned
<1> QED
  BY <1>1, <1>4, <1>5, <1>6, <1>7, <1>8 DEF StreamsInv


(* Each step preserves the invariant: one case per action.                 *)
LEMMA StreamsNextInv ==
  ASSUME StreamsInv, StreamsNext
  PROVE  StreamsInv'
<1>1. CASE Begin
  <2>1. CASE openStream
    BY <2>1, OpenStreamInv
  <2>2. ASSUME NEW h \in 1 .. opened, startRead(h)
        PROVE  StreamsInv'
    BY <2>2, StartReadInv
  <2>3. ASSUME NEW h \in 1 .. opened, NEW n \in 1 .. MaxWritten, startWrite(h, n, FALSE)
        PROVE  StreamsInv'
    <3>1. n \in 0 .. MaxWritten
      BY StreamBounds
    <3> QED
      BY <2>3, <3>1, StartWriteInv
  <2>4. ASSUME NEW h \in 1 .. opened, NEW n \in 0 .. MaxWritten, startWrite(h, n, TRUE)
        PROVE  StreamsInv'
    BY <2>4, StartWriteInv
  <2>5. ASSUME NEW h \in 1 .. opened, nflush(h) \/ nclose(h)
        PROVE  StreamsInv'
    BY <2>5, FlushCloseInv
  <2>6. ASSUME NEW h \in 1 .. opened, misuse(h)
        PROVE  StreamsInv'
    BY <2>6, MisuseInv
  <2> QED
    BY <1>1, <2>1, <2>2, <2>3, <2>4, <2>5, <2>6 DEF Begin
<1>2. CASE Proceed
  <2>1. CASE ncfbid2s
    BY <2>1, Ncfbid2sInv
  <2>2. CASE takeByte
    BY <2>2, TakeByteInv
  <2>3. CASE needBlock
    BY <2>3, NeedBlockInv
  <2>4. CASE haveBlock
    BY <2>4, HaveBlockInv
  <2>5. CASE endRead
    BY <2>5, EndReadInv
  <2>6. CASE putByte
    BY <2>6, PutByteInv
  <2>7. CASE nflush_inner
    BY <2>7, NflushInnerInv
  <2>8. CASE flushed
    BY <2>8, FlushedInv
  <2>9. CASE endWrite
    BY <2>9, EndWriteInv
  <2>10. CASE sendClose
    BY <2>10, SendCloseInv
  <2>11. CASE closed
    BY <2>11, ClosedInv
  <2> QED
    BY <1>2, <2>1, <2>2, <2>3, <2>4, <2>5, <2>6, <2>7, <2>8, <2>9, <2>10, <2>11 DEF Proceed
<1>3. CASE Serve
  <2>1. CASE addSource \/ addSink
    BY <2>1, AddInv
  <2>2. CASE invalidStream
    BY <2>2, InvalidStreamInv
  <2>3. CASE getNextBlock
    BY <2>3, GetNextBlockInv
  <2>4. CASE putBlock
    BY <2>4, PutBlockInv
  <2>5. CASE closeSource \/ closeSink
    BY <2>5, CloseInv
  <2> QED
    BY <1>3, <2>1, <2>2, <2>3, <2>4, <2>5 DEF Serve
<1>4. CASE refuse
  BY <1>4, RefuseInv
<1>5. CASE reconnect
  BY <1>5, ReconnectInv
<1> QED
  BY <1>1, <1>2, <1>3, <1>4, <1>5 DEF StreamsNext

(* A step that changes nothing preserves it.                               *)
LEMMA StreamsStutter ==
  ASSUME StreamsInv, UNCHANGED streamVars
  PROVE  StreamsInv'
<1>0. UNCHANGED <<program, str, opened, op, lineEndMode, passed, objOf, call, bulkSources, bulkSinks,
                  lastBulkSourceId, lastBulkSinkId, objs, dispatcher, failures, failed>>
  BY DEF streamVars, clientVars, remoteVars, managerVars
<1>1. ValuesOK'
  BY <1>0 DEF StreamsInv, ValuesOK, Handles
<1>2. \A h \in Handles : HandleOK(h)'
  BY <1>0 DEF StreamsInv, HandleOK, TextSource, Sink
<1>3. \A i \in DOMAIN objs' : ObjectOK(objs[i])'
  BY <1>0 DEF StreamsInv, ObjectOK, AtEnd
<1>4. TablesOK'
  BY <1>0 DEF StreamsInv, TablesOK, EntriesOK
<1>5. IdsOK'
  BY <1>0 DEF StreamsInv, IdsOK, IdOK, Owned, Table, Busy, Returned, Handles
<1>6. CallOK'
  <2>1. OpenOK'
    BY <1>0 DEF StreamsInv, CallOK, OpenOK, Opened, Request, Returned, LastId, Table, Handles
  <2>2. ReadingOK' /\ WritingOK' /\ ClosingOK'
    BY <1>0 DEF StreamsInv, CallOK, ReadingOK, WritingOK, ClosingOK, Request, Returned, Source, Sink,
                BufferRead, AllRead, Content
  <2> QED
    BY <1>0, <2>1, <2>2 DEF StreamsInv, CallOK, Returned
<1>7. \A h \in Handles : ReadOK(h)' /\ WriteOK(h)'
  <2> TAKE h \in Handles
  <2>1. ReadOK(h)'
    BY <1>0 DEF StreamsInv, ReadOK, Source, AllRead, Content, TextSource, Underway, Unread, Busy, Returned
  <2>2. WriteOK(h)'
    BY <1>0 DEF StreamsInv, WriteOK, Content, Busy, Returned
  <2> QED
    BY <2>1, <2>2
<1>8. Handles' = Handles
  BY DEF Handles
<1> QED
  BY <1>1, <1>2, <1>3, <1>4, <1>5, <1>6, <1>7, <1>8 DEF StreamsInv

(* The inductive invariant holds in every reachable state, whatever ids    *)
(* the dispatchers of a client give out (StreamManager in                  *)
(* LevelZeroToLevelOneDispatcher.java).                                    *)
THEOREM StreamsInvariant ==
  StreamsSpec => []StreamsInv
<1>1. StreamsInit => StreamsInv
  BY StreamsInitInv
<1>2. StreamsInv /\ [StreamsNext]_streamVars => StreamsInv'
  BY StreamsNextInv, StreamsStutter
<1> QED
  BY <1>1, <1>2, PTL DEF StreamsSpec

(* The state is well-formed: ids lead to stream objects, buffers hold no   *)
(* more than a block (STREAM_BUFFER_LEN in ncfbases.c), and positions are  *)
(* within the buffer and the file.                                         *)
THEOREM StreamsTypes ==
  StreamsSpec => []StreamsTypeOK
<1>1. StreamsInv => StreamsTypeOK
  <2> SUFFICES ASSUME StreamsInv
               PROVE  StreamsTypeOK
    OBVIOUS
  <2>1. ValuesOK /\ TablesOK /\ CallOK /\ ObjectsOK /\ \A h \in Handles : HandleOK(h)
    BY DEF StreamsInv, ObjectsOK
  <2>2. /\ opened \in 0 .. Len(program) /\ lineEndMode \in {-1} \cup Platforms
        /\ op.fn \in {"none", "open", "read", "write", "flush", "close", "closing"}
        /\ op # NoOp => op.h \in 1 .. opened
    BY <2>1, OpTypes DEF ValuesOK, CallOK
  <2>3. call.state \in {"none", "sent", "answered"}
    BY <2>1, CallTypes DEF ValuesOK
  <2>4. /\ \A i \in DOMAIN bulkSources : i % 2 = 0 /\ bulkSources[i] \in DOMAIN objs
        /\ \A i \in DOMAIN bulkSinks : i % 2 = 1 /\ bulkSinks[i] \in DOMAIN objs
    BY <2>1 DEF TablesOK, EntriesOK
  <2>5. ASSUME NEW i \in DOMAIN objs
        PROVE  objs[i].pos \in 0 .. Len(objs[i].content)
    <3>1. objs[i].pos \in Nat /\ objs[i].content \in Seq(Byte)
      BY <2>1, ObjectTypes
    <3>2. objs[i].pos <= Len(objs[i].content)
      BY <2>1 DEF ObjectsOK, ObjectOK
    <3> QED
      BY <3>1, <3>2
  <2>6. ASSUME NEW h \in Handles, str[h].open
        PROVE  /\ objOf[h] \in DOMAIN objs
               /\ Len(str[h].buffer) <= STREAM_BUFFER_LEN
               /\ str[h].bufPos \in 0 .. Len(str[h].buffer)
    <3>1. HandleOK(h) /\ objOf[h] \in {0} \cup DOMAIN objs
      BY <2>1 DEF ValuesOK
    <3>2. /\ objOf[h] # 0 /\ str[h].bufPos <= Len(str[h].buffer)
          /\ Len(str[h].buffer) <= STREAM_BUFFER_LEN
      BY <2>6, <3>1 DEF HandleOK
    <3>3. str[h].bufPos \in Nat /\ str[h].buffer \in Seq(Byte)
      BY <2>1, <2>6, StrTypes
    <3> QED
      BY <3>1, <3>2, <3>3
  <2> QED
    BY <2>2, <2>3, <2>4, <2>5, <2>6 DEF StreamsTypeOK
<1> QED
  BY <1>1, StreamsInvariant, PTL

(* nread on a stream none of whose requests has failed: the bytes its      *)
(* calls have returned, those in the buffer and those on the way are the   *)
(* beginning of the file (ncfbases.c, nread;                               *)
(* LevelOneFileContentSource.java), in whatever blocks the file comes.     *)
THEOREM BytesAreReadInOrder ==
  StreamsSpec => []ReadInOrder
<1>1. StreamsInv => ReadInOrder
  BY DEF StreamsInv, ReadInOrder, ReadOK, Source, HandleOK
<1> QED
  BY <1>1, StreamsInvariant, PTL

(* nwrite, nputstr, nflush and nclose likewise: the file and the bytes     *)
(* left in the buffer are what was written, and after nclose all of it is  *)
(* in the file (ncfbases.c, nflush_inner; LevelOneFileContentSink.java).   *)
THEOREM BytesAreWrittenInOrder ==
  StreamsSpec => []WrittenInOrder
<1>1. StreamsInv => WrittenInOrder
  BY DEF StreamsInv, WrittenInOrder, WriteOK
<1> QED
  BY <1>1, StreamsInvariant, PTL

(* A stream id leads to the stream it was given for, and the outside       *)
(* proxy keeps no stream that the client has closed (addStream and         *)
(* removeStream in LevelZeroToLevelOneDispatcher.java).                    *)
THEOREM IdsStayMatched ==
  StreamsSpec => []IdsMatch
<1>1. StreamsInv => IdsMatch
  <2> SUFFICES ASSUME StreamsInv
               PROVE  IdsMatch
    OBVIOUS
  <2>1. \A h \in Handles : IdOK(h)
    BY DEF StreamsInv, IdsOK
  <2>2. failures = 0 => /\ \A i \in DOMAIN bulkSources : Owned(bulkSources[i])
                        /\ \A i \in DOMAIN bulkSinks : Owned(bulkSinks[i])
    BY DEF StreamsInv, IdsOK
  <2>3. ASSUME NEW h \in Handles \ failed, str[h].open, ~(Busy({"closing"}, h) /\ Returned)
        PROVE  str[h].streamId \in DOMAIN Table(h) /\ Table(h)[str[h].streamId] = objOf[h]
    BY <2>1, <2>3 DEF IdOK
  <2>4. ASSUME failures = 0, NEW t \in {bulkSources, bulkSinks}, NEW i \in DOMAIN t
        PROVE  \/ \E h \in Handles : str[h].open /\ objOf[h] = t[i]
               \/ op.fn = "open" /\ Returned /\ t[i] = Len(objs)
    BY <2>2, <2>4 DEF Owned
  <2> QED
    BY <2>3, <2>4 DEF IdsMatch
<1> QED
  BY <1>1, StreamsInvariant, PTL


(* neof is true only when the caller has been given all of the file        *)
(* (ncfbases.c, neof).                                                     *)
THEOREM EofMeansAllRead ==
  StreamsSpec => []EofAtEnd
<1>1. StreamsInv => EofAtEnd
  <2> SUFFICES ASSUME StreamsInv, NEW h \in Handles \ failed, neof(h), Idle
               PROVE  AllRead(h) /\ (~TextSource(h) => passed[h] = Content(h))
    BY DEF EofAtEnd
  <2>1. /\ ValuesOK /\ ReadOK(h) /\ HandleOK(h) /\ op.fn = "none"
        /\ str[h].open /\ str[h].isSourceStream /\ BufferRead(h)
        /\ str[h].streamState \in {STATE_SOURCE_ENDED, STATE_CLOSED}
    BY DEF StreamsInv, neof, Source, Idle, NoOp
  <2>2. AllRead(h) /\ (~TextSource(h) => passed[h] \o Underway(h) = SubSeq(Content(h), 1, objs[objOf[h]].pos))
    BY <2>1 DEF ReadOK, Source
  <2>3. objOf[h] \in DOMAIN objs /\ (~TextSource(h) => passed[h] \in Seq(Byte))
    BY <2>1 DEF ValuesOK, HandleOK, TextSource
  <2>4. Content(h) \in Seq(Byte)
    BY <2>1, <2>3, ObjectTypes DEF Content
  <2>5. Unread(h) = <<>>
    <3>1. str[h].buffer \in Seq(Byte) /\ str[h].bufPos \in Nat /\ str[h].bufPos >= Len(str[h].buffer)
      BY <2>1, StrTypes DEF BufferRead
    <3> SUFFICES ASSUME NEW b \in Seq(Byte), NEW p \in Nat, p >= Len(b)
                 PROVE  SubSeq(b, p + 1, Len(b)) = <<>>
      BY <3>1 DEF Unread
    <3> QED
      OBVIOUS
  <2>6. Underway(h) = <<>> \o <<>> \o <<>>
    <3>1. OutOf(h) = <<>> /\ Arrived(h) = <<>>
      BY <2>1 DEF OutOf, Arrived, Busy
    <3> QED
      BY <2>5, <3>1, UnderwayIs
  <2>7. ASSUME ~TextSource(h)
        PROVE  passed[h] = Content(h)
    <3> SUFFICES ASSUME NEW q \in Seq(Byte), NEW c \in Seq(Byte), q \o (<<>> \o <<>> \o <<>>) = SubSeq(c, 1, Len(c))
                 PROVE  q = c
      BY <2>2, <2>3, <2>4, <2>6, <2>7 DEF AllRead
    <3>1. <<>> \o <<>> \o <<>> = <<>> /\ q \o <<>> = q /\ SubSeq(c, 1, Len(c)) = c
      OBVIOUS
    <3> QED
      BY <3>1
  <2> QED
    BY <2>2, <2>7
<1> QED
  BY <1>1, StreamsInvariant, PTL

-----------------------------------------------------------------------------
(* What the reference makes of a text.                                     *)

(* Every set of natural numbers has a least element.                       *)
LEMMA LeastNat ==
  ASSUME NEW T, T \subseteq Nat, T # {}
  PROVE  \E x \in T : \A y \in T : x <= y
<1>1. IsWellFoundedOn(OpToRel(<, Nat), Nat)
  BY NatLessThanWellFounded
<1>2. PICK x \in T : \A y \in T : <<y, x>> \notin OpToRel(<, Nat)
  BY <1>1, WFMin
<1>3. \A y \in T : ~(y < x)
  BY <1>2 DEF OpToRel
<1> QED
  BY <1>3

(* Induction up to n, over a set.                                          *)
LEMMA Inductive ==
  ASSUME NEW n \in Nat, NEW T, 0 \in T, \A i \in 0 .. n - 1 : i \in T => i + 1 \in T
  PROVE  \A i \in 0 .. n : i \in T
<1> DEFINE Bad == {i \in 0 .. n : i \notin T}
<1> SUFFICES ASSUME Bad # {} PROVE FALSE
  OBVIOUS
<1>1. Bad \subseteq Nat
  OBVIOUS
<1>2. PICK x \in Bad : \A y \in Bad : x <= y
  BY <1>1, LeastNat
<1>3. x # 0 /\ x \in 0 .. n /\ x - 1 \in 0 .. n - 1 /\ x - 1 \notin Bad
  BY <1>2
<1>4. x - 1 \in T /\ (x - 1) + 1 = x
  BY <1>3
<1> QED
  BY <1>2, <1>3, <1>4

(* The steps of a computation along 1 .. n with values in S, and the       *)
(* values it runs through from b on.                                       *)
StepsIn(n, S) == [(1 .. n) \X S -> S]
RunsThrough(w, n, b, g) == w[0] = b /\ \A i \in 1 .. n : w[i] = g[<<i, w[i - 1]>>]

(* Every such computation has its values.                                  *)
LEMMA Recursion ==
  ASSUME NEW n \in Nat, NEW S, NEW b \in S, NEW g \in StepsIn(n, S)
  PROVE  \E w \in [0 .. n -> S] : RunsThrough(w, n, b, g)
<1> USE DEF StepsIn, RunsThrough
<1> DEFINE Upto(m, w) == w[0] = b /\ \A i \in 1 .. m : w[i] = g[<<i, w[i - 1]>>]
           T == {m \in 0 .. n : \E w \in [0 .. m -> S] : Upto(m, w)}
<1>1. 0 \in T
  <2> DEFINE w == [i \in 0 .. 0 |-> b]
  <2>1. w \in [0 .. 0 -> S] /\ w[0] = b /\ 1 .. 0 = {}
    OBVIOUS
  <2> HIDE DEF w
  <2>2. \E v \in [0 .. 0 -> S] : Upto(0, v)
    BY <2>1
  <2> QED
    BY <2>2
<1>2. ASSUME NEW m \in 0 .. n - 1, m \in T PROVE m + 1 \in T
  <2>1. PICK w \in [0 .. m -> S] : Upto(m, w)
    BY <1>2
  <2> DEFINE v == [i \in 0 .. m + 1 |-> IF i = m + 1 THEN g[<<m + 1, w[m]>>] ELSE w[i]]
  <2>2. g[<<m + 1, w[m]>>] \in S
    BY <2>1
  <2>3. v \in [0 .. m + 1 -> S]
    BY <2>2
  <2>4. v[0] = b /\ v[m + 1] = g[<<m + 1, w[m]>>] /\ \A i \in 0 .. m : v[i] = w[i]
    BY <2>1
  <2> HIDE DEF v
  <2>5. ASSUME NEW i \in 1 .. m + 1 PROVE v[i] = g[<<i, v[i - 1]>>]
    <3>1. CASE i = m + 1
      <4>1. v[i - 1] = w[m] /\ v[i] = g[<<m + 1, w[m]>>]
        BY <2>4, <3>1
      <4> QED
        BY <3>1, <4>1
    <3>2. CASE i # m + 1
      <4>1. i \in 1 .. m /\ v[i] = w[i] /\ v[i - 1] = w[i - 1]
        BY <3>2, <2>4
      <4>2. w[i] = g[<<i, w[i - 1]>>]
        BY <2>1, <4>1
      <4> QED
        BY <4>1, <4>2
    <3> QED
      BY <3>1, <3>2
  <2>6. m + 1 \in 0 .. n
    OBVIOUS
  <2> QED
    BY <2>3, <2>4, <2>5, <2>6
<1>3. \A m \in 0 .. n - 1 : m \in T => m + 1 \in T
  BY <1>2
<1> HIDE DEF T
<1>4. n \in T
  BY <1>1, <1>3, Inductive
<1> QED
  BY <1>4 DEF T

(* The states of the reference, and the one it starts from.                *)
LineStates == [lines : Seq(Seq(Byte)), cur : Seq(Byte), skip : BOOLEAN]
NoLines(skip) == [lines |-> <<>>, cur |-> <<>>, skip |-> skip]

(* How a text is read.                                                     *)
KeepsOrNot(s) == s.keepNL \in BOOLEAN

(* One more character.                                                     *)
LEMMA AddedType ==
  ASSUME NEW s, KeepsOrNot(s), NEW end, NEW acc \in LineStates, NEW c \in Byte
  PROVE  AddToLines(s, end, acc, c) \in LineStates
<1> DEFINE cur == IF c # end THEN Append(acc.cur, c)
                  ELSE IF s.keepNL THEN Append(acc.cur, LF) ELSE acc.cur
           full == Len(cur) = s.len - 1
<1>1. acc.lines \in Seq(Seq(Byte)) /\ acc.cur \in Seq(Byte) /\ acc.skip \in BOOLEAN
  BY DEF LineStates
<1>2. cur \in Seq(Byte)
  <2>1. LF \in Byte
    BY DEF Byte
  <2> QED
    BY <1>1, <2>1
<1> HIDE DEF cur
<1>3. [lines |-> acc.lines, cur |-> acc.cur, skip |-> FALSE] \in LineStates
  BY <1>1 DEF LineStates
<1>4. [lines |-> Append(acc.lines, cur), cur |-> <<>>, skip |-> c # end /\ ~s.keepNL] \in LineStates
  <2>1. Append(acc.lines, cur) \in Seq(Seq(Byte)) /\ <<>> \in Seq(Byte) /\ (c # end /\ ~s.keepNL) \in BOOLEAN
    BY <1>1, <1>2, AppendProperties, EmptySeq DEF KeepsOrNot
  <2> QED
    BY <2>1 DEF LineStates
<1>5. [lines |-> acc.lines, cur |-> cur, skip |-> FALSE] \in LineStates
  BY <1>1, <1>2 DEF LineStates
<1>6. AddToLines(s, end, acc, c) \in
        {acc, [lines |-> acc.lines, cur |-> acc.cur, skip |-> FALSE],
         [lines |-> Append(acc.lines, cur), cur |-> <<>>, skip |-> c # end /\ ~s.keepNL],
         [lines |-> acc.lines, cur |-> cur, skip |-> FALSE]}
  BY Zenon DEF AddToLines, cur
<1> QED
  BY <1>3, <1>4, <1>5, <1>6

(* What the reference runs through.                                        *)
Cuts(w, s, end, text, skip) ==
  /\ w[0] = NoLines(skip)
  /\ \A i \in 1 .. Len(text) : w[i] = AddToLines(s, end, w[i - 1], text[i])

LEMMA Cutting ==
  ASSUME NEW s, KeepsOrNot(s), NEW end, NEW text \in Seq(Byte), NEW skip \in BOOLEAN
  PROVE  \E w \in [0 .. Len(text) -> LineStates] :
           Cuts(w, s, end, text, skip) /\ LinesOf(s, end, text, skip) = w[Len(text)]
<1> DEFINE n == Len(text)
           V == LineStates
           b == NoLines(skip)
           Step(x, i) == AddToLines(s, end, x, text[i])
           g == [x \in (1 .. n) \X V |-> Step(x[2], x[1])]
           Def(w) == [i \in 0 .. n |-> IF i = 0 THEN b ELSE Step(w[i - 1], i)]
           at == CHOOSE w : w = Def(w)
<1>1. n \in Nat /\ b \in V
  BY DEF NoLines, LineStates
<1>2. ASSUME NEW i \in 1 .. n, NEW x \in V PROVE Step(x, i) \in V
  <2>1. text[i] \in Byte
    OBVIOUS
  <2> QED
    BY <2>1, AddedType
<1>3. g \in StepsIn(n, V)
  <2> HIDE DEF n, V, Step
  <2> QED
    BY <1>2 DEF StepsIn
<1>4. PICK v \in [0 .. n -> V] : RunsThrough(v, n, b, g)
  <2> HIDE DEF n, V, b, g
  <2> QED
    BY <1>1, <1>3, Recursion
<1>5. ASSUME NEW i \in 1 .. n PROVE v[i] = Step(v[i - 1], i)
  <2> HIDE DEF n, V, b, Step
  <2>1. i - 1 \in 0 .. n
    BY <1>1
  <2>2. <<i, v[i - 1]>> \in (1 .. n) \X V
    BY <2>1
  <2>3. g[<<i, v[i - 1]>>] = Step(v[i - 1], i)
    BY <2>2
  <2> QED
    BY <1>4, <2>3 DEF RunsThrough
<1>6. v = Def(v)
  <2>1. v = [i \in 0 .. n |-> v[i]]
    OBVIOUS
  <2>2. \A i \in 0 .. n : v[i] = IF i = 0 THEN b ELSE Step(v[i - 1], i)
    <3> HIDE DEF n, V, b, g, Step
    <3>1. v[0] = b
      BY <1>4, Zenon DEF RunsThrough
    <3>2. ASSUME NEW i \in 0 .. n, i # 0 PROVE v[i] = Step(v[i - 1], i)
      <4>1. i \in 1 .. n
        BY <1>1, <3>2
      <4> QED
        BY <4>1, <1>5
    <3> QED
      BY <3>1, <3>2
  <2> HIDE DEF n, V, b, g, Step
  <2> QED
    BY <2>1, <2>2
<1>7. at = Def(at)
  <2> HIDE DEF n, V, b, g, Step
  <2> QED
    BY <1>6
<1>8. LinesOf(s, end, text, skip) = at[n]
  BY DEF LinesOf, NoLines
<1> HIDE DEF n, V, b, g, at, Step
<1>9. DOMAIN at = 0 .. n /\ at[0] = b /\ \A i \in 1 .. n : at[i] = Step(at[i - 1], i)
  BY <1>1, <1>7
<1>10. \A i \in 0 .. n : at[i] \in V
  <2> DEFINE T == {i \in 0 .. n : at[i] \in V}
  <2>1. 0 \in T
    BY <1>1, <1>9
  <2>2. ASSUME NEW i \in 0 .. n - 1, i \in T PROVE i + 1 \in T
    <3>1. i + 1 \in 1 .. n /\ (i + 1) - 1 = i /\ at[i] \in V
      BY <1>1, <2>2
    <3>2. at[i + 1] = Step(at[i], i + 1)
      BY <1>9, <3>1
    <3> QED
      BY <1>1, <1>2, <3>1, <3>2
  <2>3. \A i \in 0 .. n - 1 : i \in T => i + 1 \in T
    BY <2>2
  <2>4. \A i \in 0 .. n : i \in T
    <3> HIDE DEF T
    <3> QED
      BY <1>1, <2>1, <2>3, Inductive
  <2> QED
    BY <2>4
<1>11. at \in [0 .. n -> V]
  <2>1. at = [i \in 0 .. n |-> at[i]]
    BY <1>7 DEF Def
  <2> QED
    BY <2>1, <1>10
<1>12. \E w \in [0 .. n -> V] :
          w[0] = b /\ (\A i \in 1 .. n : w[i] = Step(w[i - 1], i)) /\ LinesOf(s, end, text, skip) = w[n]
  BY <1>8, <1>9, <1>11
<1> QED
  BY <1>12 DEF n, V, b, Step, Cuts

(* Of two texts that begin alike the beginnings are cut alike.             *)
LEMMA CutAlike ==
  ASSUME NEW s, NEW end, NEW text \in Seq(Byte), NEW more \in Seq(Byte), NEW skip,
         NEW v, NEW w, Cuts(v, s, end, text, skip), Cuts(w, s, end, more, skip),
         Len(text) <= Len(more), \A i \in 1 .. Len(text) : more[i] = text[i]
  PROVE  w[Len(text)] = v[Len(text)]
<1> DEFINE n == Len(text)
           T == {i \in 0 .. n : w[i] = v[i]}
<1>1. n \in Nat /\ \A i \in 1 .. n : i \in 1 .. Len(more)
  OBVIOUS
<1>2. 0 \in T
  BY DEF Cuts
<1>3. ASSUME NEW i \in 0 .. n - 1, i \in T PROVE i + 1 \in T
  <2>1. i + 1 \in 1 .. n /\ i + 1 \in 1 .. Len(more) /\ (i + 1) - 1 = i /\ w[i] = v[i]
    BY <1>1, <1>3
  <2>2. v[i + 1] = AddToLines(s, end, v[i], text[i + 1])
    BY <2>1 DEF Cuts
  <2>3. w[i + 1] = AddToLines(s, end, w[i], more[i + 1])
    BY <2>1 DEF Cuts
  <2>4. more[i + 1] = text[i + 1]
    BY <2>1
  <2> QED
    BY <2>1, <2>2, <2>3, <2>4
<1>4. \A i \in 0 .. n - 1 : i \in T => i + 1 \in T
  BY <1>3
<1>5. n \in T
  <2> HIDE DEF T
  <2>1. \A i \in 0 .. n : i \in T
    BY <1>1, <1>2, <1>4, Inductive
  <2> QED
    BY <1>1, <2>1
<1> QED
  BY <1>5

(* No text, no lines ...                                                   *)
LEMMA NothingCut ==
  ASSUME NEW s, KeepsOrNot(s), NEW end, NEW skip \in BOOLEAN, NEW text \in Seq(Byte)
  PROVE  Len(text) = 0 => LinesOf(s, end, text, skip) = NoLines(skip)
<1>1. PICK w \in [0 .. Len(text) -> LineStates] :
        Cuts(w, s, end, text, skip) /\ LinesOf(s, end, text, skip) = w[Len(text)]
  BY Cutting
<1>2. w[0] = NoLines(skip)
  BY <1>1, Zenon DEF Cuts
<1>3. LinesOf(s, end, text, skip) = w[Len(text)]
  BY <1>1
<1> QED
  BY <1>2, <1>3, Zenon

(* ... and a character more is added to the lines of the text.             *)
LEMMA OneCut ==
  ASSUME NEW s, KeepsOrNot(s), NEW end, NEW text \in Seq(Byte), NEW c \in Byte, NEW skip \in BOOLEAN
  PROVE  /\ LinesOf(s, end, text, skip) \in LineStates
         /\ LinesOf(s, end, Append(text, c), skip) = AddToLines(s, end, LinesOf(s, end, text, skip), c)
<1> DEFINE n == Len(text)
           more == Append(text, c)
<1>1. /\ n \in Nat /\ more \in Seq(Byte) /\ Len(more) = n + 1 /\ more[n + 1] = c
      /\ \A i \in 1 .. n : more[i] = text[i]
  BY AppendProperties
<1> HIDE DEF more
<1>2. PICK v \in [0 .. n -> LineStates] :
        Cuts(v, s, end, text, skip) /\ LinesOf(s, end, text, skip) = v[n]
  BY Cutting
<1>3. PICK w \in [0 .. Len(more) -> LineStates] :
        Cuts(w, s, end, more, skip) /\ LinesOf(s, end, more, skip) = w[Len(more)]
  BY <1>1, Cutting
<1>4. n <= Len(more)
  BY <1>1
<1>5. w[n] = v[n]
  BY <1>1, <1>2, <1>3, <1>4, CutAlike
<1>6. w[n + 1] = AddToLines(s, end, w[n], c)
  <2>1. n + 1 \in 1 .. Len(more) /\ (n + 1) - 1 = n
    BY <1>1
  <2> QED
    BY <1>1, <1>3, <2>1 DEF Cuts
<1>7. v[n] \in LineStates
  BY <1>1, <1>2
<1> QED
  BY <1>1, <1>2, <1>3, <1>5, <1>6, <1>7 DEF more

-----------------------------------------------------------------------------
(* The lines of a text.                                                    *)

(* How a stream that is a text is read.                                    *)
LEMMA TextTypes ==
  ASSUME ValuesOK, NEW h \in 1 .. opened, TextSource(h)
  PROVE  KeepsOrNot(program[h]) /\ program[h].len \in Nat /\ program[h].len >= 2
<1>1. program \in Programs /\ h \in 1 .. Len(program)
  BY OpenedTypes DEF ValuesOK
<1>2. /\ program \in Seq(Range(program))
      /\ \A s \in Range(program) :
           s.isSource /\ s.isText => s.keepNL \in BOOLEAN /\ s.len \in Nat /\ s.len >= 2
  BY <1>1, StreamPrograms
<1>3. program[h] \in Range(program)
  BY <1>1, <1>2
<1> QED
  BY <1>2, <1>3 DEF TextSource, KeepsOrNot

(* An open stream that is a text, between any two steps.                   *)
Text(h) == h \notin failed /\ str[h].open /\ TextSource(h)

(* What is known of it.                                                    *)
LEMMA TextFacts ==
  ASSUME StreamsInv, NEW h \in Handles, Text(h)
  PROVE  /\ h \in 1 .. opened /\ objOf[h] \in DOMAIN objs /\ str[h] \in Structures
         /\ str[h].buffer \in Seq(Byte) /\ str[h].bufPos \in Nat /\ str[h].bufPos <= Len(str[h].buffer)
         /\ str[h].lastLineWasBufferEnd \in BOOLEAN
         /\ passed[h] \in Seq(Seq(Byte)) /\ str[h].isSourceStream /\ program[h].isSource
         /\ KeepsOrNot(program[h]) /\ program[h].len \in Nat /\ program[h].len >= 2
         /\ limit(h) = program[h].len - 1
         /\ Content(h) \in Seq(Byte) /\ objs[objOf[h]].pos \in Nat
         /\ objs[objOf[h]].pos <= Len(Content(h))
         /\ objs[objOf[h]].state \in States /\ objs[objOf[h]] \in Objects
<1>0. ValuesOK /\ HandleOK(h) /\ ObjectsOK /\ opened \in Nat
  BY OpenedTypes DEF StreamsInv, ObjectsOK
<1>1. str[h].open /\ TextSource(h)
  BY DEF Text
<1>2. h \in 1 .. opened
  BY <1>0, <1>1 DEF HandleOK, Handles
<1>3. /\ str[h].isSourceStream = program[h].isSource /\ objOf[h] \in DOMAIN objs /\ str[h] \in Structures
      /\ str[h].bufPos <= Len(str[h].buffer) /\ passed[h] \in Seq(Seq(Byte))
  BY <1>1, <1>2, OfOneKind
<1>4. str[h].buffer \in Seq(Byte) /\ str[h].bufPos \in Nat /\ str[h].lastLineWasBufferEnd \in BOOLEAN
  BY <1>3 DEF Structures
<1>5. /\ Content(h) \in Seq(Byte) /\ objs[objOf[h]].pos \in Nat /\ objs[objOf[h]].state \in States
      /\ objs[objOf[h]] \in Objects
  BY <1>0, <1>3, ObjectTypes DEF Content
<1>6. objs[objOf[h]].pos <= Len(Content(h))
  BY <1>0, <1>3 DEF ObjectsOK, ObjectOK, Content
<1>7. program[h].isSource /\ limit(h) = program[h].len - 1
  BY <1>1 DEF TextSource, limit
<1>8. KeepsOrNot(program[h]) /\ program[h].len \in Nat /\ program[h].len >= 2
  BY <1>0, <1>1, <1>2, TextTypes
<1> QED
  BY <1>2, <1>3, <1>4, <1>5, <1>6, <1>7, <1>8

(* A step that leaves a text alone, or closes the file.                    *)
Quiet(h) ==
  /\ str'[h] = str[h] /\ passed'[h] = passed[h] /\ objOf'[h] = objOf[h]
  /\ \/ objs'[objOf[h]] = objs[objOf[h]]
     \/ objs'[objOf[h]].state \notin {STATE_OK, STATE_SOURCE_ENDED}
  /\ lineEndMode \in 0 .. 3 => lineEndMode' = lineEndMode
  /\ \/ ~Busy({"read"}, h) /\ ~(Busy({"read"}, h)')
     \/ op' = op /\ ~Returned /\ ~Returned'

(* The lines stay what they are.                                           *)
LEMMA QuietText ==
  ASSUME NEW h \in Handles, TextOK(h), UNCHANGED program, failed \subseteq failed',
         Text(h)' => str[h].open /\ Quiet(h)
  PROVE  TextOK(h)'
<1> SUFFICES ASSUME Text(h)'
             PROVE  /\ lineEndMode' \in 0 .. 3
                    /\ objs'[objOf'[h]].state \in {STATE_OK, STATE_SOURCE_ENDED} =>
                         BlocksOK(h)' /\ \E skip \in BOOLEAN : LinesOK(h, Cut(h, skip))'
  BY DEF TextOK, Text
<1>1. Quiet(h) /\ h \notin failed /\ str[h].open /\ TextSource(h)
  BY DEF Text, TextSource
<1>2. /\ lineEndMode \in 0 .. 3
      /\ objs[objOf[h]].state \in {STATE_OK, STATE_SOURCE_ENDED} =>
           BlocksOK(h) /\ \E skip \in BOOLEAN : LinesOK(h, Cut(h, skip))
  BY <1>1 DEF TextOK
<1>3. UNCHANGED lineEndMode /\ str'[h] = str[h] /\ passed'[h] = passed[h] /\ objOf'[h] = objOf[h]
  BY <1>1, <1>2 DEF Quiet
<1> SUFFICES ASSUME objs'[objOf[h]].state \in {STATE_OK, STATE_SOURCE_ENDED}
             PROVE  BlocksOK(h)' /\ \E skip \in BOOLEAN : LinesOK(h, Cut(h, skip))'
  BY <1>2, <1>3
<1>4. objs'[objOf'[h]] = objs[objOf[h]]
  BY <1>1, <1>3 DEF Quiet
<1>5. BlocksOK(h) /\ \E skip \in BOOLEAN : LinesOK(h, Cut(h, skip))
  BY <1>2, <1>3, <1>4
<1>6. /\ Busy({"read"}, h)' <=> Busy({"read"}, h)
      /\ Busy({"read"}, h) => op' = op /\ ~Returned /\ ~Returned'
  BY <1>1 DEF Quiet, Busy
<1>7. /\ Coming(h)' = Coming(h) /\ Reached(h)' = Reached(h) /\ Content(h)' = Content(h)
      /\ BufferRead(h)' <=> BufferRead(h)
  BY <1>3, <1>4, <1>6 DEF Coming, Reached, Content, Unread, BufferRead
<1>8. BlocksOK(h)'
  BY <1>3, <1>4, <1>5, <1>6, <1>7 DEF BlocksOK
<1>9. ASSUME NEW skip \in BOOLEAN, LinesOK(h, Cut(h, skip))
      PROVE  LinesOK(h, Cut(h, skip))'
  <2>1. Cut(h, skip)' = Cut(h, skip)
    BY <1>3, <1>7 DEF Cut, lineEnd
  <2>2. limit(h)' = limit(h)
    BY DEF limit
  <2> QED
    BY <1>3, <1>6, <1>7, <1>9, <2>1, <2>2 DEF LinesOK
<1> QED
  BY <1>5, <1>8, <1>9

(* A step of the client that is not about the text.                        *)
LEMMA LocalText ==
  ASSUME NEW h \in Handles, TextOK(h), localStep, UNCHANGED objOf,
         ~Busy({"read"}, h), ~(Busy({"read"}, h)'),
         lineEndMode \in 0 .. 3 => lineEndMode' = lineEndMode,
         Text(h)' => str'[h] = str[h] /\ passed'[h] = passed[h]
  PROVE  TextOK(h)'
<1>1. UNCHANGED <<program, objs, failed>>
  BY DEF localStep, remoteVars
<1>2. Text(h)' => str[h].open /\ Quiet(h)
  BY <1>1 DEF Text, Quiet
<1> QED
  BY <1>1, <1>2, QuietText

(* What a step on stream g leaves of the others.                           *)
LEMMA OthersKept ==
  ASSUME StreamsInv, NEW g \in Handles, NEW h \in Handles, h # g
  PROVE  /\ \A s : str' = [str EXCEPT ![g] = s] => str'[h] = str[h]
         /\ \A q : passed' = [passed EXCEPT ![g] = q] => passed'[h] = passed[h]
<1>1. str \in [Handles -> {NoStream} \cup Structures] /\ passed \in [Handles -> Seq(Byte) \cup Seq(Seq(Byte))]
  BY DEF StreamsInv, ValuesOK
<1> QED
  BY <1>1

(* A call begins that does not read the text.                              *)
LEMMA BeginText ==
  ASSUME StreamsInv, NEW h \in Handles, TextOK(h), Begin, ~startRead(h)
  PROVE  TextOK(h)'
<1>0. op.fn = "none" \/ ~Idle
  BY DEF Idle, NoOp
<1>1. CASE openStream
  <2>1. /\ Idle /\ op'.fn = "open" /\ localStep /\ UNCHANGED <<objOf, lineEndMode, str, passed>>
    BY <1>1 DEF openStream
  <2> QED
    BY <1>0, <2>1, LocalText DEF Busy
<1>2. ASSUME NEW g \in 1 .. opened, startRead(g)
      PROVE  TextOK(h)'
  <2>1. /\ Idle /\ op'.h = g /\ localStep /\ UNCHANGED <<objOf, lineEndMode, passed>>
        /\ \E s : str' = [str EXCEPT ![g] = s]
    BY <1>2 DEF startRead
  <2>2. g \in Handles /\ g # h
    BY <1>2, OpenedTypes DEF StreamsInv
  <2>3. str'[h] = str[h]
    BY <2>1, <2>2, OthersKept
  <2> QED
    BY <1>0, <2>1, <2>2, <2>3, LocalText DEF Busy
<1>3. ASSUME NEW g, NEW n, NEW nl, startWrite(g, n, nl)
      PROVE  TextOK(h)'
  <2>1. Idle /\ op'.fn = "write" /\ localStep /\ UNCHANGED <<objOf, lineEndMode, str, passed>>
    BY <1>3 DEF startWrite, clientStep
  <2> QED
    BY <1>0, <2>1, LocalText DEF Busy
<1>4. ASSUME NEW g, nflush(g) \/ nclose(g)
      PROVE  TextOK(h)'
  <2>1. Idle /\ op'.fn \in {"flush", "close"} /\ localStep /\ UNCHANGED <<objOf, lineEndMode, str, passed>>
    BY <1>4 DEF nflush, nclose, clientStep
  <2> QED
    BY <1>0, <2>1, LocalText DEF Busy
<1>5. ASSUME NEW g \in 1 .. opened, misuse(g)
      PROVE  TextOK(h)'
  <2>1. /\ Idle /\ op' = op /\ localStep /\ UNCHANGED <<objOf, lineEndMode, passed, program>> /\ Sink(g)
        /\ \E s : str' = [str EXCEPT ![g] = s]
    BY <1>5 DEF misuse, clientStep, localStep
  <2>2. g \in Handles /\ str[g].isSourceStream = program[g].isSource
    BY <2>1, OfOneKind DEF Sink
  <2>3. g = h => ~(Text(h)')
    BY <2>1, <2>2 DEF Text, TextSource, Sink
  <2>4. g # h => str'[h] = str[h]
    BY <2>1, <2>2, OthersKept
  <2> QED
    BY <1>0, <2>1, <2>3, <2>4, LocalText DEF Busy
<1> QED
  BY <1>1, <1>2, <1>3, <1>4, <1>5 DEF Begin

(* Functions that do not read the text go on.                              *)
LEMMA ProceedText ==
  ASSUME StreamsInv, NEW h \in Handles, TextOK(h), Proceed,
         h = op.h => ~ncfbid2s /\ ~takeByte /\ ~haveBlock /\ ~endRead
  PROVE  TextOK(h)'
<1>0. ValuesOK /\ op \in Ops /\ CallOK
  BY DEF StreamsInv, ValuesOK
<1>1. CASE ncfbid2s
  <2>1. /\ localStep /\ op.fn = "open" /\ op'.fn = "none" /\ passed' = passed /\ op.h # h
        /\ lineEndMode \in 0 .. 3 => lineEndMode' = lineEndMode
    <3>1. localStep /\ op.fn = "open" /\ op' = NoOp /\ UNCHANGED <<opened, passed>>
      BY <1>1 DEF ncfbid2s
    <3>2. ~(lineEndMode < 0) => lineEndMode' = lineEndMode
      BY <1>1 DEF ncfbid2s
    <3> QED
      BY <1>1, <3>1, <3>2 DEF NoOp
  <2>2. op.h \in Handles
    BY <1>0, <2>1, OpTypes
  <2>3. str'[h] = str[h]
    <3>1. UNCHANGED str \/ \E s : str' = [str EXCEPT ![op.h] = s]
      BY <1>1 DEF ncfbid2s
    <3> QED
      BY <2>1, <2>2, <3>1, OthersKept
  <2>4. objOf'[h] = objOf[h]
    <3>1. UNCHANGED objOf \/ objOf' = [objOf EXCEPT ![op.h] = Len(objs)]
      BY <1>1 DEF ncfbid2s
    <3>2. objOf \in [Handles -> {0} \cup DOMAIN objs]
      BY <1>0 DEF ValuesOK
    <3> QED
      BY <2>1, <2>2, <3>1, <3>2
  <2>5. UNCHANGED <<program, objs, failed>>
    BY <2>1 DEF localStep, remoteVars
  <2>6. Quiet(h)
    BY <2>1, <2>3, <2>4, <2>5 DEF Quiet, Busy
  <2>7. Text(h)' => str[h].open
    BY <2>3 DEF Text
  <2> QED
    BY <2>5, <2>6, <2>7, QuietText
<1>2. CASE (takeByte \/ haveBlock \/ endRead) /\ op.h # h
  <2>1. /\ localStep /\ UNCHANGED <<objOf, lineEndMode>> /\ op.fn = "read"
        /\ \/ \E s, out, skip : continue(s, out, skip)
           \/ \E s, out : return(s, out)
           \/ \E s : str' = [str EXCEPT ![op.h] = s] /\ op' = NoOp /\ UNCHANGED passed
    BY <1>2 DEF takeByte, haveBlock, endRead
  <2>2. op.h \in Handles /\ op.h # h /\ op \in [fn : {"read"}, h : Handles, out : Seq(Byte), skipLineEnd : BOOLEAN]
    BY <1>0, <1>2, <2>1, OpTypes
  <2>3. op'.fn = "none" \/ op'.h = op.h
    <3>1. op' = NoOp \/ \E out, skip : op' = [op EXCEPT !.out = out, !.skipLineEnd = skip]
      BY <2>1, Zenon DEF continue, return
    <3>2. ASSUME NEW out, NEW skip, op' = [op EXCEPT !.out = out, !.skipLineEnd = skip]
          PROVE  op'.h = op.h
      BY <2>2, <3>2
    <3>3. op' = NoOp => op'.fn = "none"
      BY DEF NoOp
    <3> QED
      BY <3>1, <3>2, <3>3, Zenon
  <2>4. (\E s : str' = [str EXCEPT ![op.h] = s]) /\ (UNCHANGED passed \/ \E q : passed' = [passed EXCEPT ![op.h] = q])
    BY <2>1 DEF continue, return
  <2>5. str'[h] = str[h] /\ passed'[h] = passed[h]
    BY <2>2, <2>4, OthersKept
  <2> QED
    BY <2>1, <2>2, <2>3, <2>5, LocalText DEF Busy
<1>3. CASE needBlock
  <2>1. localStep /\ UNCHANGED <<str, op, passed, objOf, lineEndMode, program, objs, failed>> /\ ~Returned /\ ~Returned'
    BY <1>3 DEF needBlock, invoke, clientVars, localStep, remoteVars, Returned, NoCall
  <2>2. (Text(h)' => str[h].open) /\ Quiet(h)
    BY <2>1 DEF Text, Quiet
  <2> QED
    BY <2>1, <2>2, QuietText
<1>4. CASE putByte \/ flushed
  <2>1. /\ clientStep /\ op.fn \in {"write", "flush", "close"}
        /\ op'.fn = op.fn
        /\ flushed => Returned
        /\ (\E s : str' = [str EXCEPT ![op.h] = s]) /\ (UNCHANGED passed \/ \E q : passed' = [passed EXCEPT ![op.h] = q])
    <3>1. CASE putByte
      <4>1. op.fn = "write" /\ clientStep /\ op' = [op EXCEPT !.rest = Tail(@)] /\ call.state # "answered"
            /\ (\E s : str' = [str EXCEPT ![op.h] = s]) /\ \E q : passed' = [passed EXCEPT ![op.h] = q]
        BY <3>1 DEF putByte, NoCall
      <4>2. op \in [fn : {"write"}, h : Handles, rest : Seq(Byte)]
        BY <1>0, <4>1, OpTypes
      <4>3. op'.fn = op.fn
        BY <4>1, <4>2
      <4> QED
        BY <4>1, <4>3 DEF flushed, Returned
    <3>2. CASE flushed
      <4>1. /\ clientStep /\ op.fn \in {"write", "flush", "close"} /\ Returned
            /\ UNCHANGED <<passed, op>> /\ (\E s : str' = [str EXCEPT ![op.h] = s])
        BY <3>2 DEF flushed
      <4> QED
        BY <4>1
    <3> QED
      BY <1>4, <3>1, <3>2
  <2>2. /\ op.h \in Handles /\ str[op.h].open /\ str[op.h].isSourceStream = program[op.h].isSource
        /\ op.fn = "write" => ~str[op.h].isSourceStream
    BY <2>1, AtWork
  <2>3. ~str[op.h].isSourceStream
    <3>1. CASE putByte
      BY <2>2, <3>1 DEF putByte
    <3>2. CASE flushed
      BY <1>0, <2>1, <3>2 DEF CallOK, WritingOK, Sink, Returned, NoCall
    <3> QED
      BY <1>4, <3>1, <3>2
  <2>4. localStep /\ UNCHANGED <<objOf, lineEndMode, program>>
    BY <2>1 DEF clientStep, localStep
  <2>5. op.h = h => ~(Text(h)')
    BY <2>2, <2>3, <2>4 DEF Text, TextSource
  <2>6. op.h # h => str'[h] = str[h] /\ passed'[h] = passed[h]
    BY <2>1, <2>2, OthersKept
  <2> QED
    BY <2>1, <2>4, <2>5, <2>6, LocalText DEF Busy
<1>5. CASE nflush_inner \/ endWrite \/ sendClose
  <2>1. /\ clientStep /\ UNCHANGED <<str, passed>> /\ op.fn \in {"write", "flush", "close"}
        /\ op' = op \/ op' = NoOp \/ op' = [op EXCEPT !.fn = "closing"]
    BY <1>5 DEF nflush_inner, endWrite, sendClose
  <2>2. op'.fn # "read"
    <3>1. op.fn = "write" \/ op \in [fn : {"open", "flush", "close", "closing"}, h : Handles]
      BY <1>0, <2>1, OpTypes
    <3>2. op.fn = "write" => op \in [fn : {"write"}, h : Handles, rest : Seq(Byte)]
      BY <1>0, OpTypes
    <3> QED
      BY <2>1, <3>1, <3>2 DEF NoOp
  <2>3. localStep /\ UNCHANGED <<objOf, lineEndMode>>
    BY <2>1 DEF clientStep
  <2> QED
    BY <2>1, <2>2, <2>3, LocalText DEF Busy
<1>6. CASE closed
  <2>1. /\ localStep /\ op.fn = "closing" /\ op'.fn = "none" /\ str' = [str EXCEPT ![op.h] = NoStream]
        /\ UNCHANGED <<passed, objOf, lineEndMode>>
    BY <1>6 DEF closed, clientStep, NoOp
  <2>2. op.h \in Handles
    BY <1>0, <2>1, OpTypes
  <2>3. op.h = h => ~(Text(h)')
    <3>1. str \in [Handles -> {NoStream} \cup Structures]
      BY <1>0 DEF ValuesOK
    <3> QED
      BY <2>1, <2>2, <3>1 DEF Text, NoStream
  <2>4. op.h # h => str'[h] = str[h]
    BY <2>1, <2>2, OthersKept
  <2> QED
    BY <2>1, <2>3, <2>4, LocalText DEF Busy
<1> QED
  BY <1>1, <1>2, <1>3, <1>4, <1>5, <1>6 DEF Proceed

(* The outside proxy answers, but not to a read of the text.               *)
LEMMA ServeText ==
  ASSUME StreamsInv, NEW h \in Handles, TextOK(h), Serve, h = op.h => ~getNextBlock
  PROVE  TextOK(h)'
<1> SUFFICES ASSUME NEW g, g = op.h
             PROVE  TextOK(h)'
  OBVIOUS
<1>0. /\ ValuesOK /\ CallOK /\ objs \in Seq(Objects) /\ op \in Ops
      /\ \A k \in Handles : IdOK(k)
  BY DEF StreamsInv, ValuesOK, IdsOK
<1>1. call.state = "sent" /\ UNCHANGED clientVars
  BY DEF Serve, addSource, addSink, invalidStream, getNextBlock, putBlock, closeSource, closeSink,
         closeStream, Asked, remoteStep
<1>2. UNCHANGED <<program, str, op, lineEndMode, passed, objOf>>
  BY <1>1 DEF clientVars
<1>3. /\ g \in Handles /\ ~Returned /\ op.fn # "none"
      /\ call.cmd \in {"OPEN_SOURCE", "OPEN_SINK"} => op.fn = "open"
      /\ call.cmd = "BULKSRC_READ" => op.fn = "read"
      /\ call.cmd = "BULKSINK_WRITE" => op.fn \in {"write", "flush", "close"} /\ ~str[g].isSourceStream
      /\ call.cmd \in {"BULKSRC_CLOSE", "BULKSINK_CLOSE"} => op.fn = "closing"
      /\ call.cmd \notin {"OPEN_SOURCE", "OPEN_SINK"} => call.id = str[g].streamId
  <2>1. call.cmd \in Commands
    BY <1>0, <1>1, CallTypes DEF ValuesOK
  <2>2. op.fn # "none"
    BY <1>0, <1>1, AskedBy, OpTypes
  <2> QED
    BY <1>1, <2>1, <2>2, AskedBy DEF Commands
<1>4. ASSUME failed \subseteq failed', ~Busy({"read"}, h),
             Text(h)' => \/ objs'[objOf[h]] = objs[objOf[h]]
                         \/ objs'[objOf[h]].state \notin {STATE_OK, STATE_SOURCE_ENDED}
      PROVE  TextOK(h)'
  <2>1. Text(h)' => str[h].open /\ Quiet(h)
    BY <1>2, <1>4 DEF Text, Quiet, Busy
  <2> QED
    BY <1>2, <1>4, <2>1, QuietText
<1>5. Text(h)' /\ failed \subseteq failed' => Text(h)
  BY <1>2 DEF Text, TextSource
<1>6. Text(h) => objOf[h] \in DOMAIN objs /\ objOf[h] # 0
  BY <1>0, TextFacts
<1>7. CASE addSource \/ addSink
  <2>1. failed \subseteq failed' /\ (\E o : objs' = Append(objs, o)) /\ call.cmd \in {"OPEN_SOURCE", "OPEN_SINK"}
    BY <1>7 DEF addSource, addSink, Asked
  <2>2. Text(h)' => objs'[objOf[h]] = objs[objOf[h]]
    BY <1>0, <1>5, <1>6, <2>1
  <2> QED
    BY <1>3, <1>4, <2>1, <2>2 DEF Busy
<1>8. CASE invalidStream
  <2>1. /\ UNCHANGED <<objs, failed>>
        /\ \/ call.cmd \in {"BULKSRC_READ", "BULKSRC_CLOSE"} /\ call.id \notin DOMAIN bulkSources
           \/ call.cmd \in {"BULKSINK_WRITE", "BULKSINK_CLOSE"} /\ call.id \notin DOMAIN bulkSinks
    BY <1>8 DEF invalidStream, remoteStep
  <2>2. CASE Busy({"read"}, h)
    <3>1. g = h /\ op.fn = "read"
      BY <2>2 DEF Busy
    <3>2. call.cmd = "BULKSRC_READ" /\ call.id = str[h].streamId
      BY <1>3, <2>1, <3>1
    <3>3. str[h].open /\ program[h].isSource
      BY <3>1, AtWork
    <3>4. str[h].streamId \notin DOMAIN Table(h)
      BY <2>1, <3>2, <3>3 DEF Table
    <3>5. h \in failed
      BY <1>1, <3>1, <3>3, <3>4, Found
    <3> QED
      BY <2>1, <3>5 DEF TextOK
  <2>3. CASE ~Busy({"read"}, h)
    BY <1>4, <2>1, <2>3
  <2> QED
    BY <2>2, <2>3
<1>9. CASE getNextBlock \/ putBlock
  <2> DEFINE i == IF getNextBlock THEN bulkSources[call.id] ELSE bulkSinks[call.id]
  <2>1. /\ failed \subseteq failed' /\ \E o : objs' = [objs EXCEPT ![i] = o]
        /\ g = h => putBlock /\ call.cmd = "BULKSINK_WRITE"
    BY <1>9 DEF getNextBlock, putBlock, Asked
  <2>2. /\ op.fn \in {"read", "write", "flush", "close"}
        /\ getNextBlock => call.cmd = "BULKSRC_READ" /\ call.id \in DOMAIN bulkSources
        /\ ~getNextBlock => call.cmd = "BULKSINK_WRITE" /\ call.id \in DOMAIN bulkSinks
    BY <1>3, <1>9 DEF getNextBlock, putBlock, Asked
  <2>3. /\ str[g].open /\ str[g].isSourceStream = program[g].isSource /\ objOf[g] \in DOMAIN objs
        /\ call.cmd = "BULKSRC_READ" => str[g].isSourceStream
    BY <1>3, <2>2, AtWork
  <2>4. \A k \in Handles \ failed : k # g => objOf[k] # i
    <3>1. str[g].streamId \in DOMAIN Table(g) /\ i = Table(g)[str[g].streamId]
      BY <1>3, <2>2, <2>3 DEF Table
    <3> QED
      BY <1>1, <1>3, <2>3, <3>1, Found
  <2>5. CASE g = h
    BY <1>2, <1>3, <2>1, <2>3, <2>5 DEF TextOK, TextSource
  <2>6. CASE g # h
    <3>1. Text(h) => objOf[h] # i
      BY <2>4, <2>6 DEF Text
    <3>2. Text(h)' => objs'[objOf[h]] = objs[objOf[h]]
      BY <1>0, <1>5, <1>6, <2>1, <3>1
    <3> QED
      BY <1>4, <2>1, <2>6, <3>2 DEF Busy
  <2> QED
    BY <2>5, <2>6
<1>10. CASE closeSource \/ closeSink
  <2>1. /\ UNCHANGED failed /\ \E i : objs' = [objs EXCEPT ![i].state = STATE_CLOSED]
        /\ op.fn = "closing"
    BY <1>3, <1>10 DEF closeSource, closeSink, closeStream, Asked
  <2>2. PICK i : objs' = [objs EXCEPT ![i].state = STATE_CLOSED]
    BY <2>1
  <2>3. ASSUME Text(h)
        PROVE  objs'[objOf[h]] = objs[objOf[h]] \/ objs'[objOf[h]].state \notin {STATE_OK, STATE_SOURCE_ENDED}
    <3>1. objs[objOf[h]] \in Objects /\ objOf[h] \in DOMAIN objs
      BY <2>3, TextFacts
    <3>2. objs'[objOf[h]] = IF i = objOf[h] THEN [objs[objOf[h]] EXCEPT !.state = STATE_CLOSED] ELSE objs[objOf[h]]
      BY <1>0, <2>2, <3>1
    <3>3. [objs[objOf[h]] EXCEPT !.state = STATE_CLOSED].state = STATE_CLOSED
      BY <3>1 DEF Objects
    <3> QED
      BY <3>2, <3>3 DEF STATE_OK, STATE_SOURCE_ENDED, STATE_CLOSED
  <2> QED
    BY <1>4, <1>5, <2>1, <2>3 DEF Busy
<1> QED
  BY <1>7, <1>8, <1>9, <1>10 DEF Serve

(* A request fails, or the connection is lost.                             *)
LEMMA FailureText ==
  ASSUME StreamsInv, NEW h \in Handles, TextOK(h), refuse \/ reconnect
  PROVE  TextOK(h)'
<1>1. CASE refuse
  <2>1. /\ UNCHANGED <<program, str, op, lineEndMode, passed, objOf, objs>>
        /\ failed' = failed \cup {op.h}
    BY <1>1 DEF refuse, clientVars, remoteVars
  <2>2. CASE op.h = h
    BY <2>1, <2>2 DEF TextOK
  <2>3. CASE op.h # h
    <3>1. Text(h)' => str[h].open /\ Quiet(h)
      BY <2>1, <2>3 DEF Text, Quiet, Busy
    <3> QED
      BY <2>1, <3>1, QuietText
  <2> QED
    BY <2>2, <2>3
<1>2. CASE reconnect
  <2>1. str' = str /\ failed' = 1 .. opened
    BY <1>2 DEF reconnect, clientVars
  <2>2. str[h].open => h \in 1 .. opened
    <3>1. HandleOK(h) /\ opened \in Nat
      BY OpenedTypes DEF StreamsInv
    <3> QED
      BY <3>1 DEF HandleOK, Handles
  <2> QED
    BY <2>1, <2>2 DEF TextOK
<1> QED
  BY <1>1, <1>2

(* What is left of a block.                                                *)
Remains(u, b, p) ==
  /\ u \in Seq(Byte) /\ Len(u) = Len(b) - p
  /\ \A i \in 1 .. Len(b) - p : u[i] = b[p + i]
  /\ p = Len(b) => u = <<>>

(* Its bytes are those behind the position.                                *)
LEMMA RestOfBlock ==
  ASSUME NEW b \in Seq(Byte), NEW p \in Nat, p <= Len(b), NEW u, u = SubSeq(b, p + 1, Len(b))
  PROVE  Remains(u, b, p)
<1>1. Len(b) \in Nat
  OBVIOUS
<1>2. SubSeq(b, p + 1, Len(b)) \in Seq(Byte) /\ Len(SubSeq(b, p + 1, Len(b))) = Len(b) - p
  BY <1>1
<1>3. ASSUME NEW i \in 1 .. Len(b) - p
      PROVE  SubSeq(b, p + 1, Len(b))[i] = b[p + i]
  BY <1>1
<1> QED
  BY <1>2, <1>3 DEF Remains

(* What is known of the blocks of a text.                                  *)
LEMMA TextBlocks ==
  ASSUME StreamsInv, NEW h \in Handles, Text(h), TextOK(h),
         objs[objOf[h]].state \in {STATE_OK, STATE_SOURCE_ENDED}
  PROVE  /\ lineEndMode \in 0 .. 3 /\ BlocksOK(h)
         /\ Coming(h) \in Seq(Byte) /\ Len(Coming(h)) \in Nat
         /\ Reached(h) \in Nat /\ Reached(h) + Len(Coming(h)) = objs[objOf[h]].pos
         /\ \E skip \in BOOLEAN : LinesOK(h, Cut(h, skip))
         /\ lineEnd \in {LF, CR}
<1>1. /\ lineEndMode \in 0 .. 3 /\ BlocksOK(h)
      /\ \E skip \in BOOLEAN : LinesOK(h, Cut(h, skip))
  BY DEF Text, TextOK
<1>2. str[h].buffer \in Seq(Byte) /\ str[h].bufPos \in Nat /\ objs[objOf[h]].pos \in Nat
  BY TextFacts
<1>3. Coming(h) \in Seq(Byte)
  <2>1. Unread(h) \in Seq(Byte)
    <3>1. str[h].bufPos <= Len(str[h].buffer)
      BY TextFacts
    <3> QED
      BY <1>2, <3>1, RestOfBlock DEF Unread, Remains
  <2>2. Busy({"read"}, h) /\ Returned => call.data \in Seq(Byte)
    <3> SUFFICES ASSUME Busy({"read"}, h), Returned
                 PROVE  call.data \in Seq(Byte)
      OBVIOUS
    <3>1. call \in Calls /\ call.rc # "failed"
      BY DEF StreamsInv, ValuesOK, CallOK, Busy, Text
    <3> QED
      BY <3>1, CallTypes DEF Returned
  <2> QED
    BY <2>1, <2>2 DEF Coming
<1>4. Len(Coming(h)) \in Nat /\ Len(Coming(h)) <= objs[objOf[h]].pos
  <2>1. Len(Coming(h)) <= objs[objOf[h]].pos
    BY <1>1 DEF BlocksOK
  <2> QED
    BY <1>3, <2>1
<1>5. Reached(h) \in Nat /\ Reached(h) + Len(Coming(h)) = objs[objOf[h]].pos
  BY <1>2, <1>4 DEF Reached
<1> QED
  BY <1>1, <1>3, <1>4, <1>5 DEF lineEnd

(* A read of the text begins.                                              *)
LEMMA StartReadText ==
  ASSUME StreamsInv, NEW h \in Handles, TextOK(h), startRead(h)
  PROVE  TextOK(h)'
<1> SUFFICES ASSUME Text(h)'
             PROVE  TextOK(h)'
  BY DEF TextOK, Text
<1>1. /\ localStep /\ Idle /\ UNCHANGED <<program, objs, failed, lineEndMode, call, passed, objOf>>
      /\ str' = [str EXCEPT ![h].nerr = "none", ![h].lastLineWasBufferEnd = FALSE]
      /\ op' = [fn |-> "read", h |-> h, out |-> <<>>, skipLineEnd |-> str[h].lastLineWasBufferEnd]
      /\ str[h].open /\ ~(BufferRead(h) /\ str[h].streamState = STATE_SOURCE_ENDED)
  BY DEF startRead, localStep, remoteVars, Source
<1>2. op.fn = "none" /\ ~Returned /\ ~Returned'
  BY <1>1, IdleCall DEF Returned
<1>3. Text(h)
  BY <1>1 DEF Text, TextSource
<1>4. str[h] \in Structures /\ str[h].buffer \in Seq(Byte) /\ str[h].bufPos \in Nat
      /\ limit(h) = program[h].len - 1 /\ program[h].len \in Nat /\ program[h].len >= 2
  BY <1>3, TextFacts
<1>5. str'[h] = [str[h] EXCEPT !.nerr = "none", !.lastLineWasBufferEnd = FALSE]
  <2>1. str \in [Handles -> {NoStream} \cup Structures]
    BY DEF StreamsInv, ValuesOK
  <2> QED
    BY <1>1, <2>1
<1>6. /\ str'[h].buffer = str[h].buffer /\ str'[h].bufPos = str[h].bufPos
      /\ str'[h].streamState = str[h].streamState
  BY <1>4, <1>5 DEF Structures
<1>7. lineEndMode' \in 0 .. 3
  BY <1>1, <1>3 DEF TextOK, Text
<1> SUFFICES ASSUME objs[objOf[h]].state \in {STATE_OK, STATE_SOURCE_ENDED}
             PROVE  BlocksOK(h)' /\ \E skip \in BOOLEAN : LinesOK(h, Cut(h, skip))'
  BY <1>1, <1>7 DEF TextOK
<1>8. BlocksOK(h) /\ \E skip \in BOOLEAN : LinesOK(h, Cut(h, skip))
  BY <1>3, TextBlocks
<1>9. ~Busy({"read"}, h) /\ Busy({"read"}, h)' /\ op'.out = <<>> /\ op'.skipLineEnd = str[h].lastLineWasBufferEnd
  BY <1>1, <1>2 DEF Busy
<1>10. /\ Coming(h)' = Coming(h) /\ Reached(h)' = Reached(h) /\ Content(h)' = Content(h)
       /\ \A skip : Cut(h, skip)' = Cut(h, skip)
  <2>1. Coming(h)' = Coming(h) /\ Content(h)' = Content(h)
    <3>1. Unread(h)' = Unread(h)
      BY <1>6, Zenon DEF Unread
    <3>2. Coming(h) = Unread(h) /\ Coming(h)' = Unread(h)'
      BY <1>2, Zenon DEF Coming
    <3>3. Content(h)' = Content(h)
      BY <1>1 DEF Content
    <3> QED
      BY <3>1, <3>2, <3>3
  <2>2. Reached(h)' = Reached(h)
    BY <1>1, <2>1 DEF Reached
  <2> QED
    BY <1>1, <2>1, <2>2 DEF Cut, lineEnd
<1>11. str[h].streamState = STATE_OK
  <2>1. str[h].buffer = <<>> => BufferRead(h)
    BY <1>4 DEF BufferRead
  <2> QED
    BY <1>1, <1>8, <2>1 DEF BlocksOK
<1>12. BlocksOK(h)'
  BY <1>1, <1>2, <1>6, <1>8, <1>10, <1>11 DEF BlocksOK
<1>13. ASSUME NEW skip \in BOOLEAN, LinesOK(h, Cut(h, skip))
       PROVE  LinesOK(h, Cut(h, skip))'
  <2>1. Cut(h, skip) = [lines |-> passed[h], cur |-> <<>>, skip |-> str[h].lastLineWasBufferEnd]
    BY <1>9, <1>11, <1>13 DEF LinesOK, STATE_OK, STATE_SOURCE_ENDED
  <2>2. limit(h)' = limit(h) /\ Len(op'.out) = 0 /\ limit(h) > 0
    BY <1>1, <1>4, <1>9 DEF limit
  <2> QED
    BY <1>1, <1>9, <1>10, <2>1, <2>2 DEF LinesOK
<1> QED
  BY <1>8, <1>12, <1>13

(* What a character does to the line being read.                           *)
LineBecomes(r, s, end, q, out, skip, c) ==
  /\ c = end /\ skip => r = [lines |-> q, cur |-> out, skip |-> FALSE]
  /\ c = end /\ ~skip =>
       r = [lines |-> Append(q, IF s.keepNL THEN Append(out, LF) ELSE out), cur |-> <<>>, skip |-> FALSE]
  /\ c \in {LF, CR} \ {end} => r = [lines |-> q, cur |-> out, skip |-> skip]
  /\ c \notin {LF, CR} =>
       r = IF Len(Append(out, c)) = s.len - 1
           THEN [lines |-> Append(q, Append(out, c)), cur |-> <<>>, skip |-> ~s.keepNL]
           ELSE [lines |-> q, cur |-> Append(out, c), skip |-> FALSE]

(* The reference does it.                                                  *)
LEMMA LineStep ==
  ASSUME NEW s, NEW end \in {LF, CR}, NEW q, NEW out, NEW skip \in BOOLEAN, NEW c,
         NEW acc, acc = [lines |-> q, cur |-> out, skip |-> skip]
  PROVE  LineBecomes(AddToLines(s, end, acc, c), s, end, q, out, skip, c)
<1> DEFINE cur == IF c # end THEN Append(acc.cur, c)
                  ELSE IF s.keepNL THEN Append(acc.cur, LF) ELSE acc.cur
           full == Len(cur) = s.len - 1
<1>1. acc.lines = q /\ acc.cur = out /\ acc.skip = skip
  OBVIOUS
<1>2. AddToLines(s, end, acc, c) =
        IF c \in {LF, CR} \ {end} THEN acc
        ELSE IF c = end /\ acc.skip THEN [acc EXCEPT !.skip = FALSE]
        ELSE IF c = end \/ full
        THEN [lines |-> Append(acc.lines, cur), cur |-> <<>>, skip |-> c # end /\ ~s.keepNL]
        ELSE [lines |-> acc.lines, cur |-> cur, skip |-> FALSE]
  BY Zenon DEF AddToLines
<1>3. CASE c = end
  <2>1. cur = IF s.keepNL THEN Append(out, LF) ELSE out
    BY <1>1, <1>3
  <2> HIDE DEF cur, full
  <2>2. c \notin {LF, CR} \ {end} /\ c \in {LF, CR} /\ (c # end /\ ~s.keepNL) = FALSE
    BY <1>3
  <2> QED
    BY <1>1, <1>2, <1>3, <2>1, <2>2 DEF LineBecomes
<1>4. CASE c # end
  <2>1. cur = Append(out, c)
    BY <1>1, <1>4
  <2>2. full <=> Len(Append(out, c)) = s.len - 1
    BY <2>1, Zenon
  <2> HIDE DEF cur, full
  <2>3. (c # end /\ ~s.keepNL) = ~s.keepNL
    BY <1>4
  <2>4. c \notin {LF, CR} => c \notin {LF, CR} \ {end}
    OBVIOUS
  <2> QED
    BY <1>1, <1>2, <1>4, <2>1, <2>2, <2>3, <2>4, Zenon DEF LineBecomes
<1> QED
  BY <1>3, <1>4

(* A character of the buffer is the next one of the text.                  *)
LEMMA NextCharacter ==
  ASSUME StreamsInv, NEW h \in Handles, Text(h), TextOK(h), ~Returned,
         objs[objOf[h]].state \in {STATE_OK, STATE_SOURCE_ENDED},
         str[h].bufPos < Len(str[h].buffer),
         NEW c, c = str[h].buffer[str[h].bufPos + 1]
  PROVE  /\ c \in Byte
         /\ \A skip \in BOOLEAN :
              LinesOf(program[h], lineEnd, SubSeq(Content(h), 1, Reached(h) + 1), skip) =
                AddToLines(program[h], lineEnd, Cut(h, skip), c)
<1>1. /\ str[h].buffer \in Seq(Byte) /\ str[h].bufPos \in Nat /\ KeepsOrNot(program[h])
      /\ Content(h) \in Seq(Byte) /\ objs[objOf[h]].pos \in Nat /\ objs[objOf[h]].pos <= Len(Content(h))
  BY TextFacts
<1>2. c \in Byte
  <2>1. str[h].bufPos + 1 \in 1 .. Len(str[h].buffer)
    BY <1>1
  <2> QED
    BY <1>1, <2>1
<1>3. /\ BlocksOK(h) /\ Reached(h) \in Nat /\ Coming(h) \in Seq(Byte)
      /\ Reached(h) + Len(Coming(h)) = objs[objOf[h]].pos
  BY TextBlocks
<1>4. Coming(h) = SubSeq(str[h].buffer, str[h].bufPos + 1, Len(str[h].buffer))
  BY DEF Coming, Unread
<1>5. Len(Coming(h)) >= 1 /\ Coming(h)[1] = c
  <2>1. 1 \in 1 .. Len(str[h].buffer) - str[h].bufPos /\ str[h].bufPos <= Len(str[h].buffer)
    BY <1>1
  <2>2. Remains(Coming(h), str[h].buffer, str[h].bufPos)
    BY <1>1, <1>4, <2>1, RestOfBlock
  <2> QED
    BY <1>1, <2>1, <2>2 DEF Remains
<1>6. Content(h)[Reached(h) + 1] = c
  <2>1. 1 \in 1 .. Len(Coming(h))
    BY <1>3, <1>5
  <2> QED
    BY <1>3, <1>5, <2>1 DEF BlocksOK
<1> SUFFICES ASSUME NEW t \in Seq(Byte), t = Content(h), NEW r \in Nat, r = Reached(h),
                    NEW skip \in BOOLEAN
             PROVE  LinesOf(program[h], lineEnd, SubSeq(t, 1, r + 1), skip) =
                      AddToLines(program[h], lineEnd, Cut(h, skip), c)
  BY <1>1, <1>2, <1>3
<1>7. r + 1 <= Len(t) /\ t[r + 1] = c
  BY <1>1, <1>3, <1>5, <1>6
<1>8. SubSeq(t, 1, r + 1) = Append(SubSeq(t, 1, r), c) /\ SubSeq(t, 1, r) \in Seq(Byte)
  <2>1. SubSeq(t, 1, r) \in Seq(Byte)
    BY <1>7
  <2>2. SubSeq(t, 1, r + 1) = Append(SubSeq(t, 1, r), t[r + 1])
    BY <1>7
  <2> QED
    BY <1>7, <2>1, <2>2
<1>9. LinesOf(program[h], lineEnd, Append(SubSeq(t, 1, r), c), skip) =
        AddToLines(program[h], lineEnd, LinesOf(program[h], lineEnd, SubSeq(t, 1, r), skip), c)
  <2>1. \A x \in Seq(Byte) :
          LinesOf(program[h], lineEnd, Append(x, c), skip) =
            AddToLines(program[h], lineEnd, LinesOf(program[h], lineEnd, x, skip), c)
    BY <1>1, <1>2, OneCut
  <2> QED
    BY <1>8, <2>1, Zenon
<1>10. Cut(h, skip) = LinesOf(program[h], lineEnd, SubSeq(t, 1, r), skip)
  BY DEF Cut
<1> QED
  BY <1>8, <1>9, <1>10, Zenon

(* A block is in the file behind a position.                               *)
LiesAt(u, t, r) == \A i \in 1 .. Len(u) : u[i] = t[r + i]

(* With it taken, the rest of the block is behind it.                      *)
LEMMA OneFurther ==
  ASSUME NEW b, NEW p \in Nat, Len(b) \in Nat, p < Len(b),
         NEW u, Remains(u, b, p), NEW v, Remains(v, b, p + 1),
         NEW r \in Nat, NEW pos \in Nat, r + Len(u) = pos,
         NEW t, LiesAt(u, t, r)
  PROVE  Len(v) <= pos /\ pos - Len(v) = r + 1 /\ LiesAt(v, t, r + 1)
<1>1. /\ Len(u) = Len(b) - p /\ Len(v) = Len(b) - (p + 1)
      /\ \A i \in 1 .. Len(b) - p : u[i] = b[p + i]
      /\ \A i \in 1 .. Len(b) - (p + 1) : v[i] = b[(p + 1) + i]
  BY DEF Remains
<1>2. Len(v) <= pos /\ pos - Len(v) = r + 1
  <2>1. Len(v) = Len(u) - 1 /\ Len(u) \in Nat /\ Len(u) > 0
    BY <1>1
  <2> QED
    BY <2>1
<1>3. ASSUME NEW i \in 1 .. Len(v)
      PROVE  v[i] = t[(r + 1) + i]
  <2>1. i \in 1 .. Len(b) - (p + 1) /\ i \in Nat
    BY <1>1
  <2>2. i + 1 \in 1 .. Len(b) - p /\ i + 1 \in 1 .. Len(u)
    BY <1>1, <2>1
  <2>3. u[i + 1] = b[p + (i + 1)] /\ v[i] = b[(p + 1) + i] /\ u[i + 1] = t[r + (i + 1)]
    BY <1>1, <2>1, <2>2 DEF LiesAt
  <2>4. p + (i + 1) = (p + 1) + i /\ r + (i + 1) = (r + 1) + i
    BY <2>1
  <2> QED
    BY <2>3, <2>4
<1> QED
  BY <1>2, <1>3 DEF LiesAt

(* It is taken.                                                            *)
LEMMA TakenCharacter ==
  ASSUME StreamsInv, NEW h \in Handles, Text(h), TextOK(h), ~Returned, ~Returned', Busy({"read"}, h),
         objs[objOf[h]].state \in {STATE_OK, STATE_SOURCE_ENDED},
         localStep, UNCHANGED <<objOf, lineEndMode>>,
         str[h].bufPos < Len(str[h].buffer),
         str'[h].buffer = str[h].buffer, str'[h].bufPos = str[h].bufPos + 1,
         str'[h].streamState = str[h].streamState
  PROVE  /\ BlocksOK(h)'
         /\ \A skip \in BOOLEAN :
              Cut(h, skip)' = AddToLines(program[h], lineEnd, Cut(h, skip), str[h].buffer[str[h].bufPos + 1])
<1>1. UNCHANGED <<program, objs, failed>>
  BY DEF localStep, remoteVars
<1>2. str[h].buffer \in Seq(Byte) /\ str[h].bufPos \in Nat /\ objs[objOf[h]].pos \in Nat
  BY TextFacts
<1>3. /\ BlocksOK(h) /\ Reached(h) \in Nat /\ Coming(h) \in Seq(Byte)
      /\ Reached(h) + Len(Coming(h)) = objs[objOf[h]].pos
  BY TextBlocks
<1> DEFINE b == str[h].buffer
           p == str[h].bufPos
<1>4. Remains(Coming(h), b, p) /\ Remains(Coming(h)', b, p + 1)
  <2>1. Coming(h) = SubSeq(b, p + 1, Len(b)) /\ Coming(h)' = SubSeq(b, (p + 1) + 1, Len(b))
    BY DEF Coming, Unread
  <2>2. b \in Seq(Byte) /\ p \in Nat /\ p + 1 \in Nat /\ p <= Len(b) /\ p + 1 <= Len(b)
    BY <1>2
  <2> HIDE DEF b, p
  <2> QED
    BY <2>1, <2>2, RestOfBlock
<1>5. /\ Len(Coming(h)') <= objs[objOf[h]].pos /\ objs[objOf[h]].pos - Len(Coming(h)') = Reached(h) + 1
      /\ LiesAt(Coming(h)', Content(h), Reached(h) + 1)
  <2>1. LiesAt(Coming(h), Content(h), Reached(h))
    BY <1>3 DEF BlocksOK, LiesAt
  <2>2. p \in Nat /\ Len(b) \in Nat /\ p < Len(b)
    BY <1>2
  <2> HIDE DEF b, p
  <2> QED
    BY <1>2, <1>3, <1>4, <2>1, <2>2, OneFurther
<1>6. Reached(h)' = Reached(h) + 1
  BY <1>1, <1>5 DEF Reached
<1>7. Content(h)' = Content(h)
  BY <1>1 DEF Content
<1>8. \A i \in 1 .. Len(Coming(h)') : Coming(h)'[i] = Content(h)'[Reached(h)' + i]
  BY <1>5, <1>6, <1>7 DEF LiesAt
<1>9. BlocksOK(h)'
  <2>1. str[h].streamState = STATE_OK
    BY <1>3 DEF BlocksOK
  <2>2. STATE_OK # STATE_SOURCE_ENDED
    BY DEF STATE_OK, STATE_SOURCE_ENDED
  <2> QED
    BY <1>1, <1>5, <1>8, <2>1, <2>2 DEF BlocksOK
<1>10. ASSUME NEW skip \in BOOLEAN
       PROVE  Cut(h, skip)' = AddToLines(program[h], lineEnd, Cut(h, skip), b[p + 1])
  <2>1. Cut(h, skip)' = LinesOf(program[h], lineEnd, SubSeq(Content(h), 1, Reached(h) + 1), skip)
    BY <1>1, <1>6, <1>7 DEF Cut, lineEnd
  <2>2. LinesOf(program[h], lineEnd, SubSeq(Content(h), 1, Reached(h) + 1), skip) =
          AddToLines(program[h], lineEnd, Cut(h, skip), b[p + 1])
    BY NextCharacter
  <2> QED
    BY <2>1, <2>2
<1> QED
  BY <1>9, <1>10

(* A read goes on ...                                                      *)
LEMMA Continued ==
  ASSUME StreamsInv, NEW h \in Handles, Busy({"read"}, h), NEW s, NEW out, NEW skip, continue(s, out, skip)
  PROVE  /\ Busy({"read"}, h)' /\ op'.out = out /\ op'.skipLineEnd = skip
         /\ str'[h] = s /\ passed'[h] = passed[h]
<1>1. op.fn = "read" /\ op.h = h
  BY DEF Busy
<1>2. /\ op \in [fn : {"read"}, h : Handles, out : Seq(Byte), skipLineEnd : BOOLEAN]
      /\ str \in [Handles -> {NoStream} \cup Structures]
  BY <1>1, OpTypes DEF StreamsInv, ValuesOK
<1>3. op' = [op EXCEPT !.out = out, !.skipLineEnd = skip] /\ str' = [str EXCEPT ![h] = s] /\ passed' = passed
  BY <1>1 DEF continue
<1>4. op'.fn = "read" /\ op'.h = h /\ op'.out = out /\ op'.skipLineEnd = skip
  BY <1>1, <1>2, <1>3
<1>5. str'[h] = s
  BY <1>2, <1>3
<1> QED
  BY <1>3, <1>4, <1>5 DEF Busy

(* ... or returns a line.                                                  *)
LEMMA LineReturned ==
  ASSUME StreamsInv, NEW h \in Handles, Busy({"read"}, h), TextSource(h),
         NEW s \in Structures, NEW out, return(s, out)
  PROVE  /\ ~(Busy({"read"}, h)') /\ passed'[h] = Append(passed[h], out)
         /\ str'[h].buffer = s.buffer /\ str'[h].bufPos = s.bufPos /\ str'[h].streamState = s.streamState
         /\ str'[h].lastLineWasBufferEnd = (~program[h].keepNL /\ Len(out) = limit(h))
<1>1. op.fn = "read" /\ op.h = h
  BY DEF Busy
<1>2. /\ str \in [Handles -> {NoStream} \cup Structures]
      /\ passed \in [Handles -> Seq(Byte) \cup Seq(Seq(Byte))]
  BY DEF StreamsInv, ValuesOK
<1> DEFINE last == TextSource(h) /\ ~program[h].keepNL /\ Len(out) = limit(h)
<1>3. /\ op' = NoOp /\ str' = [str EXCEPT ![h] = [s EXCEPT !.lastLineWasBufferEnd = last]]
      /\ passed' = [passed EXCEPT ![h] = Append(@, out)]
  BY <1>1 DEF return, keepNL
<1>4. last = (~program[h].keepNL /\ Len(out) = limit(h))
  OBVIOUS
<1> HIDE DEF last
<1>5. str'[h] = [s EXCEPT !.lastLineWasBufferEnd = last] /\ passed'[h] = Append(passed[h], out)
  BY <1>2, <1>3
<1>6. ~(Busy({"read"}, h)')
  BY <1>3 DEF Busy, NoOp
<1>7. /\ str'[h].buffer = s.buffer /\ str'[h].bufPos = s.bufPos /\ str'[h].streamState = s.streamState
      /\ str'[h].lastLineWasBufferEnd = last
  BY <1>5 DEF Structures
<1> QED
  BY <1>4, <1>5, <1>6, <1>7

(* The text whose read goes on, before and after a step of the client.     *)
LEMMA ReadingText ==
  ASSUME StreamsInv, NEW h \in Handles, TextOK(h), op.fn = "read", h = op.h,
         localStep, UNCHANGED <<lineEndMode, objOf>>, Text(h)',
         ASSUME Text(h), TextSource(h), Busy({"read"}, h),
                objs[objOf[h]].state \in {STATE_OK, STATE_SOURCE_ENDED},
                UNCHANGED <<program, objs>>
         PROVE  BlocksOK(h)' /\ \A skip \in BOOLEAN : LinesOK(h, Cut(h, skip)) => LinesOK(h, Cut(h, skip))'
  PROVE  TextOK(h)'
<1>1. UNCHANGED <<program, objs, failed>>
  BY DEF localStep, remoteVars
<1>2. str[h].open
  BY AtWork
<1>3. Text(h) /\ TextSource(h) /\ Busy({"read"}, h)
  BY <1>1, <1>2 DEF Text, TextSource, Busy
<1>4. /\ lineEndMode \in 0 .. 3
      /\ objs[objOf[h]].state \in {STATE_OK, STATE_SOURCE_ENDED} =>
           BlocksOK(h) /\ \E skip \in BOOLEAN : LinesOK(h, Cut(h, skip))
  BY <1>3 DEF TextOK, Text
<1>5. ASSUME objs[objOf[h]].state \in {STATE_OK, STATE_SOURCE_ENDED}
      PROVE  BlocksOK(h)' /\ \E skip \in BOOLEAN : LinesOK(h, Cut(h, skip))'
  <2>1. PICK skip \in BOOLEAN : LinesOK(h, Cut(h, skip))
    BY <1>4, <1>5
  <2>2. BlocksOK(h)' /\ \A sk \in BOOLEAN : LinesOK(h, Cut(h, sk)) => LinesOK(h, Cut(h, sk))'
    BY <1>1, <1>3, <1>5
  <2> QED
    BY <2>1, <2>2
<1> QED
  BY <1>1, <1>4, <1>5 DEF TextOK

(* A read takes a character of the text.                                   *)
LEMMA TakeByteText ==
  ASSUME StreamsInv, NEW h \in Handles, TextOK(h), takeByte, h = op.h
  PROVE  TextOK(h)'
<1> SUFFICES ASSUME Text(h)'
             PROVE  TextOK(h)'
  BY DEF TextOK, Text
<1>1. /\ op.fn = "read" /\ localStep /\ UNCHANGED <<lineEndMode, objOf>> /\ ~Returned /\ ~Returned'
      /\ Len(op.out) < limit(h) /\ ~BufferRead(h)
  BY DEF takeByte, Returned, NoCall
<1> SUFFICES ASSUME Text(h), TextSource(h), Busy({"read"}, h),
                    objs[objOf[h]].state \in {STATE_OK, STATE_SOURCE_ENDED},
                    UNCHANGED <<program, objs>>
             PROVE  BlocksOK(h)' /\ \A skip \in BOOLEAN : LinesOK(h, Cut(h, skip)) => LinesOK(h, Cut(h, skip))'
  BY <1>1, ReadingText
<1> DEFINE s == [str[h] EXCEPT !.bufPos = @ + 1]
           c == s.buffer[s.bufPos]
<1>2. /\ str[h] \in Structures /\ str[h].buffer \in Seq(Byte) /\ str[h].bufPos \in Nat
      /\ limit(h) = program[h].len - 1 /\ program[h].len \in Nat /\ KeepsOrNot(program[h])
  BY TextFacts
<1>3. op.out \in Seq(Byte) /\ op.skipLineEnd \in BOOLEAN /\ lineEnd \in {LF, CR}
  <2>1. op \in Ops
    BY DEF StreamsInv, ValuesOK
  <2> QED
    BY <1>1, <2>1, OpTypes DEF lineEnd
<1>4. /\ s \in Structures /\ s.bufPos = str[h].bufPos + 1 /\ s.buffer = str[h].buffer
      /\ s.streamState = str[h].streamState
  <2>1. str[h].bufPos + 1 \in Nat
    BY <1>2
  <2> QED
    BY <1>2, <2>1, MovedStructure
<1>5. c = str[h].buffer[str[h].bufPos + 1] /\ str[h].bufPos < Len(str[h].buffer)
  <2>1. Len(str[h].buffer) \in Nat
    BY <1>2
  <2> QED
    BY <1>1, <1>2, <1>4, <2>1 DEF BufferRead
<1>6. \/ c = lineEnd /\ op.skipLineEnd /\ continue(s, op.out, FALSE)
      \/ c = lineEnd /\ ~op.skipLineEnd /\ return(s, IF program[h].keepNL THEN Append(op.out, LF) ELSE op.out)
      \/ c \in {LF, CR} \ {lineEnd} /\ continue(s, op.out, op.skipLineEnd)
      \/ c \notin {LF, CR} /\ continue(s, Append(op.out, c), FALSE)
  BY DEF takeByte, keepNL
<1> HIDE DEF s, c
<1>7. str'[h].buffer = s.buffer /\ str'[h].bufPos = s.bufPos /\ str'[h].streamState = s.streamState
  <2>1. (\E out, skip : continue(s, out, skip)) \/ \E out : return(s, out)
    BY <1>6, Zenon
  <2>2. ASSUME NEW out, NEW skip, continue(s, out, skip)
        PROVE  str'[h] = s
    BY <2>2, Continued
  <2>3. ASSUME NEW out, return(s, out)
        PROVE  str'[h].buffer = s.buffer /\ str'[h].bufPos = s.bufPos /\ str'[h].streamState = s.streamState
    BY <1>4, <2>3, LineReturned
  <2> QED
    BY <2>1, <2>2, <2>3
<1>8. BlocksOK(h)' /\ \A skip \in BOOLEAN : Cut(h, skip)' = AddToLines(program[h], lineEnd, Cut(h, skip), c)
  BY <1>1, <1>4, <1>5, <1>7, TakenCharacter
<1>9. ASSUME NEW skip \in BOOLEAN, LinesOK(h, Cut(h, skip))
      PROVE  LinesOK(h, Cut(h, skip))'
  <2>0. Len(op.out) # limit(h)
    BY <1>1, <1>2, <1>3
  <2>1. Cut(h, skip) = [lines |-> passed[h], cur |-> op.out, skip |-> op.skipLineEnd]
    BY <1>9, <2>0 DEF LinesOK
  <2>2. Cut(h, skip)' = AddToLines(program[h], lineEnd, Cut(h, skip), c)
    BY <1>8
  <2>3. limit(h)' = limit(h) /\ program'[h] = program[h]
    BY DEF limit
  <2>4. LineBecomes(Cut(h, skip)', program[h], lineEnd, passed[h], op.out, op.skipLineEnd, c)
    BY <1>3, <2>1, <2>2, LineStep
  <2>5. CASE c = lineEnd /\ op.skipLineEnd /\ continue(s, op.out, FALSE)
    <3>1. /\ Busy({"read"}, h)' /\ op'.out = op.out /\ op'.skipLineEnd = FALSE /\ passed'[h] = passed[h]
      BY <2>5, Continued
    <3>2. Cut(h, skip)' = [lines |-> passed[h], cur |-> op.out, skip |-> FALSE]
      BY <2>4, <2>5 DEF LineBecomes
    <3>3. Len(op'.out) < limit(h)' /\ Len(op'.out) # limit(h)'
      BY <1>1, <2>3, <2>0, <3>1
    <3> QED
      BY <3>1, <3>2, <3>3 DEF LinesOK
  <2>6. CASE c = lineEnd /\ ~op.skipLineEnd /\ return(s, IF program[h].keepNL THEN Append(op.out, LF) ELSE op.out)
    <3> DEFINE out == IF program[h].keepNL THEN Append(op.out, LF) ELSE op.out
    <3>1. /\ ~(Busy({"read"}, h)') /\ passed'[h] = Append(passed[h], out)
          /\ str'[h].lastLineWasBufferEnd = (~program[h].keepNL /\ Len(out) = limit(h))
      BY <1>4, <2>6, LineReturned
    <3>2. (~program[h].keepNL /\ Len(out) = limit(h)) = FALSE
      BY <1>1, <1>2, <1>3
    <3>3. Cut(h, skip)' = [lines |-> Append(passed[h], out), cur |-> <<>>, skip |-> FALSE]
      BY <2>4, <2>6 DEF LineBecomes
    <3> HIDE DEF out
    <3> QED
      BY <3>1, <3>2, <3>3 DEF LinesOK
  <2>7. CASE c \in {LF, CR} \ {lineEnd} /\ continue(s, op.out, op.skipLineEnd)
    <3>1. /\ Busy({"read"}, h)' /\ op'.out = op.out /\ op'.skipLineEnd = op.skipLineEnd /\ passed'[h] = passed[h]
      BY <2>7, Continued
    <3>2. Cut(h, skip)' = [lines |-> passed[h], cur |-> op.out, skip |-> op.skipLineEnd]
      BY <2>4, <2>7 DEF LineBecomes
    <3>3. Len(op'.out) < limit(h)' /\ Len(op'.out) # limit(h)'
      BY <1>1, <2>3, <2>0, <3>1
    <3> QED
      BY <3>1, <3>2, <3>3 DEF LinesOK
  <2>8. CASE c \notin {LF, CR} /\ continue(s, Append(op.out, c), FALSE)
    <3> DEFINE out == Append(op.out, c)
    <3>1. /\ Busy({"read"}, h)' /\ op'.out = out /\ op'.skipLineEnd = FALSE /\ passed'[h] = passed[h]
      BY <2>8, Continued
    <3>2. Cut(h, skip)' = IF Len(out) = program[h].len - 1
                          THEN [lines |-> Append(passed[h], out), cur |-> <<>>, skip |-> ~program[h].keepNL]
                          ELSE [lines |-> passed[h], cur |-> out, skip |-> FALSE]
      BY <2>4, <2>8 DEF LineBecomes
    <3>3. Len(out) = Len(op.out) + 1 /\ Len(op.out) \in Nat
      BY <1>3
    <3> HIDE DEF out
    <3>4. Len(out) = limit(h) \/ Len(out) < limit(h)
      BY <1>1, <1>2, <3>3
    <3> QED
      BY <1>2, <2>3, <3>1, <3>2, <3>4 DEF LinesOK
  <2> QED
    BY <1>6, <2>5, <2>6, <2>7, <2>8
<1> QED
  BY <1>8, <1>9

(* A read returns with its buffer full.                                    *)
LEMMA EndReadText ==
  ASSUME StreamsInv, NEW h \in Handles, TextOK(h), endRead, h = op.h
  PROVE  TextOK(h)'
<1> SUFFICES ASSUME Text(h)'
             PROVE  TextOK(h)'
  BY DEF TextOK, Text
<1>1. /\ op.fn = "read" /\ localStep /\ UNCHANGED <<lineEndMode, objOf>> /\ ~Returned /\ ~Returned'
      /\ Len(op.out) = limit(h) \/ str[h].streamState # STATE_OK
      /\ return(str[h], op.out)
  BY DEF endRead, Returned, NoCall
<1> SUFFICES ASSUME Text(h), TextSource(h), Busy({"read"}, h),
                    objs[objOf[h]].state \in {STATE_OK, STATE_SOURCE_ENDED},
                    UNCHANGED <<program, objs>>
             PROVE  BlocksOK(h)' /\ \A skip \in BOOLEAN : LinesOK(h, Cut(h, skip)) => LinesOK(h, Cut(h, skip))'
  BY <1>1, ReadingText
<1>2. str[h] \in Structures /\ KeepsOrNot(program[h])
  BY TextFacts
<1>3. BlocksOK(h)
  BY TextBlocks
<1>4. Len(op.out) = limit(h)
  BY <1>1, <1>3 DEF BlocksOK
<1>5. /\ ~(Busy({"read"}, h)') /\ passed'[h] = Append(passed[h], op.out)
      /\ str'[h].buffer = str[h].buffer /\ str'[h].bufPos = str[h].bufPos
      /\ str'[h].streamState = str[h].streamState
      /\ str'[h].lastLineWasBufferEnd = (~program[h].keepNL /\ Len(op.out) = limit(h))
  BY <1>1, <1>2, LineReturned
<1>6. Coming(h)' = Coming(h)
  <2>1. Unread(h)' = Unread(h)
    BY <1>5, Zenon DEF Unread
  <2> QED
    BY <1>1, <2>1 DEF Coming
<1>7. Reached(h)' = Reached(h) /\ Content(h)' = Content(h)
  BY <1>1, <1>6 DEF Reached, Content
<1>8. BlocksOK(h)'
  BY <1>1, <1>3, <1>5, <1>6, <1>7 DEF BlocksOK
<1>9. ASSUME NEW skip \in BOOLEAN, LinesOK(h, Cut(h, skip))
      PROVE  LinesOK(h, Cut(h, skip))'
  <2>1. Cut(h, skip) = [lines |-> Append(passed[h], op.out), cur |-> <<>>, skip |-> ~program[h].keepNL]
    BY <1>4, <1>9 DEF LinesOK
  <2>2. Cut(h, skip)' = Cut(h, skip)
    BY <1>1, <1>7 DEF Cut, lineEnd
  <2>3. str'[h].lastLineWasBufferEnd = ~program[h].keepNL
    BY <1>2, <1>4, <1>5 DEF KeepsOrNot
  <2> QED
    BY <1>5, <2>1, <2>2, <2>3 DEF LinesOK
<1> QED
  BY <1>8, <1>9

(* A read of the text has its block, or the end of the file.               *)
LEMMA HaveBlockText ==
  ASSUME StreamsInv, NEW h \in Handles, TextOK(h), haveBlock, h = op.h
  PROVE  TextOK(h)'
<1> SUFFICES ASSUME Text(h)'
             PROVE  TextOK(h)'
  BY DEF TextOK, Text
<1>1. /\ op.fn = "read" /\ localStep /\ UNCHANGED <<lineEndMode, objOf>> /\ Returned /\ ~Returned'
  BY DEF haveBlock, Returned, NoCall
<1> SUFFICES ASSUME Text(h), TextSource(h), Busy({"read"}, h),
                    objs[objOf[h]].state \in {STATE_OK, STATE_SOURCE_ENDED},
                    UNCHANGED <<program, objs>>
             PROVE  BlocksOK(h)' /\ \A skip \in BOOLEAN : LinesOK(h, Cut(h, skip)) => LinesOK(h, Cut(h, skip))'
  BY <1>1, ReadingText
<1> SUFFICES ASSUME NEW s, s = afterRead
             PROVE  BlocksOK(h)' /\ \A skip \in BOOLEAN : LinesOK(h, Cut(h, skip)) => LinesOK(h, Cut(h, skip))'
  OBVIOUS
<1>2. str[h] \in Structures /\ KeepsOrNot(program[h])
  BY TextFacts
<1>3. BlocksOK(h)
  BY TextBlocks
<1>4. call.rc = "ok" /\ call.data \in Seq(Byte) /\ call.word2 \in States /\ op.out \in Seq(Byte)
  <2>1. CallOK /\ ReadingOK /\ call \in Calls /\ op \in Ops /\ h \notin failed
    BY DEF StreamsInv, ValuesOK, CallOK, Text
  <2>2. call.rc # "failed"
    BY <1>1, <2>1 DEF CallOK
  <2> QED
    BY <1>1, <2>1, <2>2, CallTypes, OpTypes DEF ReadingOK, Returned
<1>5. /\ s \in Structures /\ s.bufPos = 0 /\ s.buffer = call.data /\ s.streamState = call.word2
  <2>1. s = [str[h] EXCEPT !.buffer = call.data, !.bufPos = 0, !.streamState = call.word2,
                           !.nerr = str[h].nerr]
    BY <1>4 DEF afterRead
  <2> DEFINE e == str[h].nerr
  <2>2. s = Refill(str[h], call.data, call.word2, e)
    BY <2>1, Zenon DEF Refill
  <2>3. e \in {"none", "comm", "misuse"}
    BY <1>2 DEF Structures
  <2>4. str[h] \in Structures /\ call.data \in Seq(Byte) /\ call.word2 \in States
    BY <1>2, <1>4
  <2> HIDE DEF e
  <2> QED
    BY <2>2, <2>3, <2>4, Refilled
<1>6. /\ str[h].streamState = STATE_OK /\ call.word2 = objs[objOf[h]].state
      /\ call.data = <<>> <=> objs[objOf[h]].state # STATE_OK
      /\ Len(call.data) <= objs[objOf[h]].pos
      /\ \A i \in 1 .. Len(call.data) : call.data[i] = Content(h)[Reached(h) + i]
      /\ Coming(h) = call.data
  <2>1. Coming(h) = call.data
    BY <1>1 DEF Coming
  <2> QED
    BY <1>1, <1>3, <2>1 DEF BlocksOK
<1>7. \/ s.buffer # <<>> /\ continue(s, op.out, op.skipLineEnd)
      \/ s.buffer = <<>> /\ op.out = <<>> /\ str' = [str EXCEPT ![h] = s] /\ op' = NoOp /\ UNCHANGED passed
      \/ s.buffer = <<>> /\ return(s, op.out) /\ (op.out # <<>> \/ s.streamState = STATE_OK)
  BY DEF haveBlock
<1>8. str'[h].buffer = s.buffer /\ str'[h].bufPos = s.bufPos /\ str'[h].streamState = s.streamState
  <2>1. str \in [Handles -> {NoStream} \cup Structures]
    BY DEF StreamsInv, ValuesOK
  <2>2. CASE continue(s, op.out, op.skipLineEnd)
    BY <2>2, Continued
  <2>3. CASE return(s, op.out)
    BY <1>5, <2>3, LineReturned
  <2> QED
    BY <1>7, <2>1, <2>2, <2>3
<1>9. Coming(h)' = call.data
  <2>1. Coming(h)' = SubSeq(call.data, 0 + 1, Len(call.data))
    BY <1>1, <1>5, <1>8 DEF Coming, Unread
  <2> QED
    BY <1>4, <2>1
<1>10. Reached(h)' = Reached(h) /\ Content(h)' = Content(h)
  BY <1>1, <1>6, <1>9 DEF Reached, Content
<1>11. Busy({"read"}, h)' <=> s.buffer # <<>>
  <2>1. CASE s.buffer # <<>>
    BY <1>7, <2>1, Continued
  <2>2. CASE s.buffer = <<>> /\ op' = NoOp
    BY <2>2 DEF Busy, NoOp
  <2>3. CASE s.buffer = <<>> /\ return(s, op.out)
    BY <1>5, <2>3, LineReturned
  <2> QED
    BY <1>7, <2>1, <2>2, <2>3
<1>12. BlocksOK(h)'
  <2>1. /\ str'[h].streamState \in {STATE_OK, STATE_SOURCE_ENDED}
        /\ str'[h].streamState = STATE_SOURCE_ENDED => str'[h].buffer = <<>>
        /\ Busy({"read"}, h)' => str'[h].streamState = STATE_OK
    BY <1>5, <1>6, <1>8, <1>11 DEF STATE_OK, STATE_SOURCE_ENDED
  <2> QED
    BY <1>1, <1>6, <1>9, <1>10, <2>1 DEF BlocksOK
<1>13. ASSUME NEW skip \in BOOLEAN, LinesOK(h, Cut(h, skip))
       PROVE  LinesOK(h, Cut(h, skip))'
  <2>1. Cut(h, skip)' = Cut(h, skip)
    BY <1>1, <1>10 DEF Cut, lineEnd
  <2>2. limit(h)' = limit(h) /\ program' = program
    BY DEF limit
  <2>3. CASE s.buffer # <<>> /\ continue(s, op.out, op.skipLineEnd)
    <3>1. Busy({"read"}, h)' /\ op'.out = op.out /\ op'.skipLineEnd = op.skipLineEnd /\ passed'[h] = passed[h]
      BY <2>3, Continued
    <3> QED
      BY <1>13, <2>1, <2>2, <3>1 DEF LinesOK
  <2>4. s.buffer = <<>> => BufferRead(h)' /\ str'[h].streamState = STATE_SOURCE_ENDED
    <3> SUFFICES ASSUME s.buffer = <<>>
                 PROVE  BufferRead(h)' /\ str'[h].streamState = STATE_SOURCE_ENDED
      OBVIOUS
    <3>1. str'[h].streamState = STATE_SOURCE_ENDED
      BY <1>5, <1>6, <1>8
    <3>2. str'[h].bufPos = 0 /\ str'[h].buffer = <<>>
      BY <1>5, <1>8
    <3> QED
      BY <3>1, <3>2 DEF BufferRead
  <2>5. CASE s.buffer = <<>> /\ op.out = <<>> /\ op' = NoOp /\ UNCHANGED passed
    <3>1. Cut(h, skip) = [lines |-> passed[h], cur |-> <<>>, skip |-> op.skipLineEnd]
      <4>1. limit(h) \in Nat /\ limit(h) # 0 /\ Len(op.out) = 0
        BY <2>5, TextFacts
      <4> QED
        BY <1>13, <2>5, <4>1 DEF LinesOK
    <3>2. AllLines(Cut(h, skip)) = passed[h]
      BY <3>1 DEF AllLines
    <3>3. ~(Busy({"read"}, h)')
      BY <2>5 DEF Busy, NoOp
    <3> QED
      BY <2>1, <2>4, <2>5, <3>2, <3>3 DEF LinesOK
  <2>6. CASE s.buffer = <<>> /\ return(s, op.out) /\ (op.out # <<>> \/ s.streamState = STATE_OK)
    <3>1. /\ ~(Busy({"read"}, h)') /\ passed'[h] = Append(passed[h], op.out)
          /\ str'[h].lastLineWasBufferEnd = (~program[h].keepNL /\ Len(op.out) = limit(h))
      BY <1>5, <2>6, LineReturned
    <3>2. CASE Len(op.out) = limit(h)
      <4>1. Cut(h, skip) = [lines |-> Append(passed[h], op.out), cur |-> <<>>, skip |-> ~program[h].keepNL]
        BY <1>13, <3>2 DEF LinesOK
      <4>2. str'[h].lastLineWasBufferEnd = ~program[h].keepNL
        BY <1>2, <3>1, <3>2 DEF KeepsOrNot
      <4> QED
        BY <2>1, <3>1, <4>1, <4>2 DEF LinesOK
    <3>3. CASE Len(op.out) # limit(h)
      <4>1. Cut(h, skip) = [lines |-> passed[h], cur |-> op.out, skip |-> op.skipLineEnd]
        BY <1>13, <3>3 DEF LinesOK
      <4>2. CASE op.out # <<>>
        <5>1. AllLines(Cut(h, skip)) = passed'[h]
          BY <3>1, <4>1, <4>2 DEF AllLines
        <5> QED
          BY <2>1, <2>4, <2>6, <3>1, <5>1 DEF LinesOK
      <4>3. op.out # <<>>
        BY <1>5, <1>6, <2>6
      <4> QED
        BY <4>2, <4>3
    <3> QED
      BY <3>2, <3>3
  <2> QED
    BY <1>7, <2>3, <2>5, <2>6
<1> QED
  BY <1>12, <1>13

(* What an InputStream gives of a text: a block, or nothing at its end.    *)
LEMMA NextOfText ==
  ASSUME NEW o \in Objects, ObjectOK(o), NEW after \in nextBlocks(o),
         after.state \in {STATE_OK, STATE_SOURCE_ENDED}
  PROVE  /\ o.state \in {STATE_OK, STATE_SOURCE_ENDED}
         /\ after.pos = o.pos <=> after.state # STATE_OK
<1>1. o.content \in Seq(Byte) /\ o.pos \in Nat /\ o.state \in States
  BY DEF Objects
<1>2. STATE_OK # STATE_SOURCE_ENDED /\ STATE_ERROR \notin {STATE_OK, STATE_SOURCE_ENDED}
  BY DEF STATE_OK, STATE_SOURCE_ENDED, STATE_ERROR
<1>3. CASE o.state # STATE_OK
  <2>1. after = o
    BY <1>3, Zenon DEF nextBlocks
  <2> QED
    BY <1>3, <2>1
<1>4. CASE o.state = STATE_OK
  <2>1. \/ after \in {[o EXCEPT !.pos = o.pos + n] :
                        n \in {k \in 1 .. STREAM_BUFFER_LEN : o.pos + k <= Len(o.content)}}
        \/ after = [o EXCEPT !.state = STATE_ERROR]
        \/ AtEnd(o) /\ after = [o EXCEPT !.state = STATE_SOURCE_ENDED]
    BY <1>4, Zenon DEF nextBlocks
  <2>2. ASSUME NEW n \in 1 .. STREAM_BUFFER_LEN, after = [o EXCEPT !.pos = o.pos + n]
        PROVE  after.pos = o.pos <=> after.state # STATE_OK
    <3>1. n \in Nat /\ n > 0
      BY StreamBounds
    <3>2. after.pos = o.pos + n /\ after.state = STATE_OK
      BY <1>4, <2>2 DEF Objects
    <3> QED
      BY <1>1, <3>1, <3>2
  <2>3. CASE after = [o EXCEPT !.state = STATE_ERROR]
    <3>1. after.state = STATE_ERROR
      BY <2>3 DEF Objects
    <3> QED
      BY <1>2, <3>1
  <2>4. CASE after = [o EXCEPT !.state = STATE_SOURCE_ENDED]
    <3>1. after.state = STATE_SOURCE_ENDED /\ after.pos = o.pos
      BY <2>4 DEF Objects
    <3> QED
      BY <1>2, <1>4, <3>1
  <2>5. CASE after \in {[o EXCEPT !.pos = o.pos + n] :
                          n \in {k \in 1 .. STREAM_BUFFER_LEN : o.pos + k <= Len(o.content)}}
    <3>1. \E n \in 1 .. STREAM_BUFFER_LEN : after = [o EXCEPT !.pos = o.pos + n]
      BY <2>5, Zenon
    <3> QED
      BY <2>2, <3>1
  <2> QED
    BY <1>4, <2>1, <2>3, <2>4, <2>5
<1> QED
  BY <1>3, <1>4

(* d is the bytes of c from p to n.                                        *)
IsBlock(d, c, p, n) ==
  d \in Seq(Byte) /\ Len(d) = n - p /\ LiesAt(d, c, p) /\ (d = <<>> <=> n = p)

(* The bytes of a block.                                                   *)
LEMMA BlockBytes ==
  ASSUME NEW c \in Seq(Byte), NEW p \in Nat, NEW n \in Nat, p <= n, n <= Len(c)
  PROVE  IsBlock(SubSeq(c, p + 1, n), c, p, n)
<1> DEFINE d == SubSeq(c, p + 1, n)
<1> SUFFICES /\ d \in Seq(Byte) /\ Len(d) = n - p /\ LiesAt(d, c, p)
             /\ d = <<>> <=> n = p
  BY Zenon DEF IsBlock
<1>1. Len(c) \in Nat
  OBVIOUS
<1>2. CASE n = p
  <2>1. d = <<>>
    BY <1>2, SubSeqEmpty
  <2> QED
    BY <1>2, <2>1 DEF LiesAt
<1>3. CASE n # p
  <2>1. p + 1 \in 1 .. Len(c) /\ n \in 1 .. Len(c) /\ p + 1 <= n
    BY <1>1, <1>3
  <2>2. d \in Seq(Byte) /\ Len(d) = n - p
    BY <1>1, <2>1
  <2>3. ASSUME NEW i \in 1 .. n - p
        PROVE  d[i] = c[p + i]
    BY <1>1, <2>1
  <2>4. d # <<>>
    BY <1>3, <2>2
  <2> HIDE DEF d
  <2>5. LiesAt(d, c, p)
    BY <2>2, <2>3 DEF LiesAt
  <2> QED
    BY <1>3, <2>2, <2>4, <2>5
<1> QED
  BY <1>2, <1>3

(* The next block of the text is read from the file.                       *)
LEMMA NextBlockText ==
  ASSUME StreamsInv, NEW h \in Handles, TextOK(h), getNextBlock, h = op.h
  PROVE  TextOK(h)'
<1> SUFFICES ASSUME NEW i, i = bulkSources[call.id], NEW o, o = objs[i],
                    NEW after \in nextBlocks(o), ObjectSet(i, after),
                    call' = Answer("ok", after.state, SubSeq(o.content, o.pos + 1, after.pos)),
                    Text(h)'
             PROVE  TextOK(h)'
  BY DEF getNextBlock, remoteStep, ObjectSet, TextOK, Text
<1>0. /\ call.state = "sent" /\ call.cmd = "BULKSRC_READ" /\ call.id \in DOMAIN bulkSources
      /\ UNCHANGED <<program, str, opened, op, lineEndMode, passed, objOf, failed>>
  BY DEF getNextBlock, Asked, remoteStep, clientVars
<1>1. op.fn = "read" /\ call.id = str[h].streamId /\ ~Returned /\ call # NoCall
  BY <1>0, AskedBy
<1>2. /\ str[h].open /\ program[h].isSource /\ Text(h) /\ Busy({"read"}, h)
  <2>1. str[h].open /\ program[h].isSource
    BY <1>1, AtWork
  <2> QED
    BY <1>0, <1>1, <2>1 DEF Text, TextSource, Busy
<1>3. /\ i = objOf[h] /\ i \in DOMAIN objs /\ o \in Objects /\ ObjectOK(o) /\ Content(h) = o.content
      /\ str[h].buffer \in Seq(Byte) /\ str[h].bufPos \in Nat /\ str[h].bufPos <= Len(str[h].buffer)
  <2>1. str[h].streamId \in DOMAIN Table(h) /\ i = Table(h)[str[h].streamId]
    BY <1>0, <1>1, <1>2 DEF Table
  <2>2. i = objOf[h] /\ i \in DOMAIN objs
    BY <1>0, <1>2, <2>1, Found, TextFacts DEF Text
  <2>3. ObjectOK(o)
    BY <2>2 DEF StreamsInv
  <2> QED
    BY <1>2, <2>2, <2>3, TextFacts DEF Content
<1>4. /\ after \in Objects /\ after.content = o.content /\ o.pos <= after.pos
      /\ after.pos <= Len(after.content)
  BY <1>3, NextBlocks DEF ObjectOK
<1>5. objs'[objOf'[h]] = after
  <2>1. objs \in Seq(Objects)
    BY DEF StreamsInv, ValuesOK
  <2> QED
    BY <1>0, <1>3, <2>1 DEF ObjectSet
<1>6. lineEndMode' \in 0 .. 3
  BY <1>0, <1>2 DEF TextOK, Text
<1> SUFFICES ASSUME after.state \in {STATE_OK, STATE_SOURCE_ENDED}
             PROVE  BlocksOK(h)' /\ \E skip \in BOOLEAN : LinesOK(h, Cut(h, skip))'
  BY <1>5, <1>6 DEF TextOK
<1>7. /\ o.state \in {STATE_OK, STATE_SOURCE_ENDED}
      /\ after.pos = o.pos <=> after.state # STATE_OK
  BY <1>3, NextOfText
<1>8. BlocksOK(h) /\ \E skip \in BOOLEAN : LinesOK(h, Cut(h, skip))
  BY <1>2, <1>3, <1>7, TextBlocks
<1> DEFINE d == SubSeq(o.content, o.pos + 1, after.pos)
<1>9. o.content \in Seq(Byte) /\ o.pos \in Nat /\ after.pos \in Nat /\ after.pos <= Len(o.content)
  BY <1>3, <1>4 DEF Objects
<1>10. Len(d) = after.pos - o.pos /\ LiesAt(d, o.content, o.pos) /\ (d = <<>> <=> after.pos = o.pos)
  <2>1. IsBlock(d, o.content, o.pos, after.pos)
    BY <1>4, <1>9, BlockBytes
  <2> HIDE DEF d
  <2> QED
    BY <2>1, Zenon DEF IsBlock
<1>11. Returned' /\ call'.word2 = after.state /\ call'.data = d
  BY DEF Answer, Returned
<1> HIDE DEF d
<1>12. Coming(h) = <<>> /\ Reached(h) = o.pos
  <2>1. BufferRead(h)
    BY <1>1 DEF StreamsInv, CallOK, ReadingOK
  <2>2. str[h].bufPos = Len(str[h].buffer)
    BY <1>3, <2>1 DEF BufferRead
  <2>3. Unread(h) = <<>>
    <3>1. Remains(Unread(h), str[h].buffer, str[h].bufPos)
      BY <1>3, RestOfBlock DEF Unread
    <3> QED
      BY <2>2, <3>1 DEF Remains
  <2>4. Coming(h) = <<>>
    BY <1>1, <2>3 DEF Coming
  <2> QED
    BY <1>3, <1>9, <2>4 DEF Reached
<1>13. Coming(h)' = d /\ Reached(h)' = o.pos /\ Content(h)' = Content(h)
  <2>1. Busy({"read"}, h)'
    BY <1>0, <1>2 DEF Busy
  <2>2. Coming(h)' = d
    BY <1>11, <2>1 DEF Coming
  <2>3. Reached(h)' = o.pos
    BY <1>5, <1>9, <1>10, <2>2 DEF Reached
  <2>4. Content(h)' = Content(h)
    BY <1>3, <1>4, <1>5 DEF Content
  <2> QED
    BY <2>2, <2>3, <2>4
<1>14. BlocksOK(h)'
  <2>1. Len(d) <= after.pos
    BY <1>9, <1>10
  <2>4. ASSUME NEW k \in 1 .. Len(d)
        PROVE  d[k] = Content(h)[o.pos + k]
    BY <1>3, <1>10, Zenon DEF LiesAt
  <2>2. d = <<>> <=> after.state # STATE_OK
    BY <1>7, <1>10
  <2>3. str[h].streamState = STATE_OK /\ STATE_OK # STATE_SOURCE_ENDED
    BY <1>2, <1>8 DEF BlocksOK, STATE_OK, STATE_SOURCE_ENDED
  <2> QED
    BY <1>0, <1>5, <1>11, <1>13, <2>1, <2>2, <2>3, <2>4 DEF BlocksOK
<1>15. ASSUME NEW skip \in BOOLEAN, LinesOK(h, Cut(h, skip))
       PROVE  LinesOK(h, Cut(h, skip))'
  <2>1. Cut(h, skip)' = Cut(h, skip)
    BY <1>0, <1>12, <1>13 DEF Cut, lineEnd
  <2>2. Busy({"read"}, h)' /\ limit(h)' = limit(h)
    BY <1>0, <1>2 DEF Busy, limit
  <2> QED
    BY <1>0, <1>2, <1>15, <2>1, <2>2 DEF LinesOK
<1> QED
  BY <1>8, <1>14, <1>15

(* A stream of the service is opened as a text: nothing is read yet.       *)
LEMMA NewText ==
  ASSUME StreamsInv, NEW h \in Handles, ncfbid2s, h = op.h
  PROVE  TextOK(h)'
<1> SUFFICES ASSUME Text(h)'
             PROVE  TextOK(h)'
  BY DEF TextOK, Text
<1>1. /\ op.fn = "open" /\ Returned /\ op' = NoOp /\ call' = NoCall /\ UNCHANGED <<opened, passed>>
      /\ UNCHANGED <<program, objs, failed>>
  BY DEF ncfbid2s, localStep, remoteVars
<1>2. ~str[h].open /\ objOf[h] = 0 /\ passed[h] = <<>> /\ h \in 1 .. opened
  BY <1>1, AtOpen
<1>3. str'[h].open /\ TextSource(h) /\ program[h].isText
  BY <1>1 DEF Text, TextSource
<1>4. call.rc = "new"
  BY <1>2, <1>3 DEF ncfbid2s
<1>5. Opened
  BY <1>1, <1>4 DEF StreamsInv, CallOK, OpenOK
<1>6. /\ str \in [Handles -> {NoStream} \cup Structures] /\ objOf \in [Handles -> {0} \cup DOMAIN objs]
      /\ objs \in Seq(Objects) /\ ValuesOK /\ lineEndMode \in {-1} \cup Platforms
  BY DEF StreamsInv, ValuesOK
<1>7. lineEndMode' \in 0 .. 3
  <2>1. Platforms \subseteq 0 .. 3
    BY StreamBounds
  <2>2. IF lineEndMode < 0 THEN lineEndMode' \in Platforms ELSE lineEndMode' = lineEndMode
    BY <1>3, <1>4 DEF ncfbid2s
  <2>3. CASE lineEndMode < 0
    BY <2>1, <2>2, <2>3
  <2>4. CASE ~(lineEndMode < 0)
    <3>1. lineEndMode \in {-1} \cup Platforms
      BY <1>6
    <3>2. lineEndMode \in Platforms
      BY <2>4, <3>1
    <3> QED
      BY <2>1, <2>2, <2>4, <3>2
  <2> QED
    BY <2>3, <2>4
<1>8. PICK garbage \in BOOLEAN :
        str' = [str EXCEPT ![h] =
          [open |-> TRUE, streamId |-> call.word2,
           isSourceStream |-> program[h].isSource,
           lastLineWasBufferEnd |-> TextSource(h) /\ garbage,
           streamState |-> STATE_OK, nerr |-> "none",
           buffer |-> <<>>, bufPos |-> 0]]
  BY <1>4 DEF ncfbid2s
<1>9. /\ str'[h].lastLineWasBufferEnd = garbage /\ str'[h].streamState = STATE_OK
      /\ str'[h].buffer = <<>> /\ str'[h].bufPos = 0
  <2>1. (TextSource(h) /\ garbage) = garbage
    BY <1>3
  <2> QED
    BY <1>6, <1>8, <2>1
<1>10. objs'[objOf'[h]] = objs[Len(objs)]
  <2>1. objOf' = [objOf EXCEPT ![h] = Len(objs)]
    BY <1>4 DEF ncfbid2s
  <2> QED
    BY <1>1, <1>6, <2>1
<1>11. /\ objs[Len(objs)].pos = 0 /\ objs[Len(objs)].state = STATE_OK /\ objs[Len(objs)].content \in Seq(Byte)
  <2>1. Len(objs) \in DOMAIN objs
    BY <1>5, <1>6 DEF Opened
  <2> QED
    BY <1>5, <1>6, <2>1, ObjectTypes DEF Opened
<1>12. ~(Busy({"read"}, h)') /\ ~Returned'
  BY <1>1 DEF Busy, NoOp, Returned, NoCall
<1>13. Coming(h)' = <<>> /\ Reached(h)' = 0
  <2>1. SubSeq(<<>>, 0 + 1, Len(<<>>)) = <<>>
    OBVIOUS
  <2>2. Coming(h)' = <<>>
    BY <1>9, <1>12, <2>1 DEF Coming, Unread
  <2>3. Reached(h)' = objs'[objOf'[h]].pos - Len(Coming(h)')
    BY DEF Reached
  <2>4. objs'[objOf'[h]].pos = 0
    BY <1>10, <1>11
  <2>5. Len(Coming(h)') = 0
    BY <2>2
  <2>6. Reached(h)' = 0 - 0
    BY <2>3, <2>4, <2>5, Zenon
  <2>7. Reached(h)' = 0
    BY <2>6
  <2> QED
    BY <2>2, <2>7
<1>14. BlocksOK(h)'
  <2>1. Len(<<>>) = 0 /\ 1 .. 0 = {} /\ STATE_OK # STATE_SOURCE_ENDED
    BY DEF STATE_OK, STATE_SOURCE_ENDED
  <2> QED
    BY <1>9, <1>10, <1>11, <1>12, <1>13, <2>1 DEF BlocksOK
<1>15. LinesOK(h, Cut(h, garbage))'
  <2>1. KeepsOrNot(program[h])
    BY <1>2, <1>3, <1>6, TextTypes
  <2>2. Content(h)' \in Seq(Byte)
    BY <1>10, <1>11 DEF Content
  <2>3. SubSeq(Content(h)', 1, 0) \in Seq(Byte) /\ Len(SubSeq(Content(h)', 1, 0)) = 0
    BY <2>2
  <2>4. Cut(h, garbage)' = NoLines(garbage)
    <3>1. Cut(h, garbage)' = LinesOf(program[h], lineEnd', SubSeq(Content(h)', 1, 0), garbage)
      BY <1>1, <1>13 DEF Cut
    <3> QED
      BY <2>1, <2>3, <3>1, NothingCut
  <2> QED
    BY <1>1, <1>2, <1>9, <1>12, <2>4 DEF LinesOK, NoLines
<1> QED
  BY <1>7, <1>14, <1>15 DEF TextOK

(* No text is open at first.                                               *)
LEMMA TextInitInv ==
  ASSUME StreamsInit
  PROVE  TextInv
BY DEF StreamsInit, TextInv, TextOK, NoStream

(* Each step keeps the lines of the texts.                                 *)
LEMMA TextNextInv ==
  ASSUME StreamsInv, TextInv, [StreamsNext]_streamVars
  PROVE  TextInv'
<1> SUFFICES ASSUME NEW h \in Handles
             PROVE  TextOK(h)'
  BY DEF TextInv, Handles
<1>0. TextOK(h)
  BY DEF TextInv
<1>1. CASE Begin
  <2>1. CASE startRead(h)
    BY <1>0, <2>1, StartReadText
  <2>2. CASE ~startRead(h)
    BY <1>0, <1>1, <2>2, BeginText
  <2> QED
    BY <2>1, <2>2
<1>2. CASE Proceed
  <2>1. CASE h = op.h /\ ncfbid2s
    BY <2>1, NewText
  <2>2. CASE h = op.h /\ takeByte
    BY <1>0, <2>2, TakeByteText
  <2>3. CASE h = op.h /\ haveBlock
    BY <1>0, <2>3, HaveBlockText
  <2>4. CASE h = op.h /\ endRead
    BY <1>0, <2>4, EndReadText
  <2>5. CASE h = op.h => ~ncfbid2s /\ ~takeByte /\ ~haveBlock /\ ~endRead
    BY <1>0, <1>2, <2>5, ProceedText
  <2> QED
    BY <2>1, <2>2, <2>3, <2>4, <2>5
<1>3. CASE Serve
  <2>1. CASE h = op.h /\ getNextBlock
    BY <1>0, <2>1, NextBlockText
  <2>2. CASE h = op.h => ~getNextBlock
    BY <1>0, <1>3, <2>2, ServeText
  <2> QED
    BY <2>1, <2>2
<1>4. CASE refuse \/ reconnect
  BY <1>0, <1>4, FailureText
<1>5. CASE UNCHANGED streamVars
  <2>1. UNCHANGED <<program, str, op, lineEndMode, passed, objOf, call, objs, failed>>
    BY <1>5 DEF streamVars, clientVars, remoteVars
  <2>2. /\ BlocksOK(h)' <=> BlocksOK(h)
        /\ \A skip : Cut(h, skip)' = Cut(h, skip)
        /\ \A skip : LinesOK(h, Cut(h, skip))' <=> LinesOK(h, Cut(h, skip))
    <3>1. /\ Coming(h)' = Coming(h) /\ Reached(h)' = Reached(h) /\ Content(h)' = Content(h)
          /\ Busy({"read"}, h)' <=> Busy({"read"}, h)
          /\ Returned' <=> Returned
      BY <2>1 DEF Coming, Reached, Content, Unread, Busy, Returned
    <3>2. \A skip : Cut(h, skip)' = Cut(h, skip)
      BY <2>1, <3>1 DEF Cut, lineEnd
    <3> QED
      BY <2>1, <3>1, <3>2 DEF BlocksOK, LinesOK, limit, BufferRead
  <2> QED
    BY <1>0, <2>1, <2>2 DEF TextOK, TextSource
<1> QED
  BY <1>1, <1>2, <1>3, <1>4, <1>5 DEF StreamsNext

(* ngetstr on a stream none of whose requests has failed: the lines its    *)
(* calls have returned are the lines of the text taken so far, wherever    *)
(* the blocks and the buffers end (ncfbases.c, ngetstr).                   *)
THEOREM TextsComeInLines ==
  StreamsSpec => []TextInLines
<1>1. StreamsInit => TextInv
  BY TextInitInv
<1>2. StreamsInv /\ TextInv /\ [StreamsNext]_streamVars => TextInv'
  BY TextNextInv
<1>3. StreamsInv /\ TextInv => TextInLines
  <2> SUFFICES ASSUME StreamsInv, TextInv, NEW h \in Handles \ failed,
                      str[h].open, TextSource(h), Idle, objs[objOf[h]].state # STATE_ERROR
               PROVE  \E skip \in BOOLEAN :
                        passed[h] = AllLines(LinesOf(program[h], lineEnd, Taken(h), skip))
    BY DEF TextInLines
  <2>1. Text(h) /\ TextOK(h) /\ ~Busy({"read"}, h) /\ ~Busy({"closing"}, h)
    BY DEF TextInv, Text, Idle, NoOp, Busy
  <2>2. objs[objOf[h]].state \in {STATE_OK, STATE_SOURCE_ENDED}
    <3>1. IdOK(h) /\ TablesOK
      BY DEF StreamsInv, IdsOK
    <3>2. str[h].streamId \in DOMAIN Table(h) /\ Table(h)[str[h].streamId] = objOf[h]
      BY <2>1, <3>1 DEF IdOK
    <3>3. Table(h) = bulkSources
      BY DEF Table, TextSource
    <3>4. objs[objOf[h]].state # STATE_CLOSED
      BY <3>1, <3>2, <3>3 DEF TablesOK, EntriesOK
    <3>5. objs[objOf[h]].state \in States
      BY <2>1, TextFacts
    <3> QED
      BY <3>4, <3>5 DEF States
  <2>3. PICK skip \in BOOLEAN : LinesOK(h, Cut(h, skip))
    BY <2>1, <2>2, TextBlocks
  <2>4. Cut(h, skip) = LinesOf(program[h], lineEnd, Taken(h), skip)
    BY <2>1 DEF Cut, Taken, Reached, Coming
  <2>5. passed[h] = AllLines(Cut(h, skip))
    BY <2>1, <2>3 DEF LinesOK, AllLines
  <2> QED
    BY <2>4, <2>5
<1> QED
  BY <1>1, <1>2, <1>3, StreamsInvariant, PTL DEF StreamsSpec
=============================================================================
