----------------------------- MODULE MCStreams ------------------------------
(* Small instances of Streams for TLC.                                     *)
EXTENDS Streams

SeqsUpTo(S, n) == UNION {[1 .. k -> S] : k \in 0 .. n}

TextSources ==
  [isSource : {TRUE}, isText : {TRUE}, keepNL : BOOLEAN, len : 2 .. 3,
   content : SeqsUpTo({"x", LF, CR}, 3)]

BinSource == [isSource |-> TRUE, isText |-> FALSE, len |-> 2, content |-> <<1, 2, 3>>]
Short == [BinSource EXCEPT !.content = <<1, 2>>]
BinSink == [isSource |-> FALSE, isText |-> FALSE]
TextSink == [isSource |-> FALSE, isText |-> TRUE]

(* One text, two streams at the same time, or three, of which two may get  *)
(* the same id from two dispatchers and the third one has its own.         *)
MCPrograms ==
  {<<s>> : s \in TextSources}
    \cup {<<BinSource, s>> : s \in {BinSource, BinSink, TextSink}}
    \cup {<<Short, Short, Short>>, <<BinSink, BinSink, [Short EXCEPT !.content = <<1>>]>>}

(* The second dispatcher gives out the same ids as the first, or others.   *)
MCFirstIds == <<0, 0>>
MCApartIds == <<0, 10>>

=============================================================================
