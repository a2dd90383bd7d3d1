----------------------------- MODULE CodecProofs ----------------------------
(***************************************************************************)
(* What holds of the encodings of the packets, whatever their bytes are    *)
(* and for each length of the data up to MAX_PACKET_LEN: the inside proxy  *)
(* takes from its buffer the packet that the outside proxy has put on the  *)
(* line (PacketsArrive), and the text mode has only seven bits in each     *)
(* character and fits into the buffer (WireIsText).                        *)
(*                                                                         *)
(* Encoder, decoder, and what doubles the bytes 0xFF and undoes it, are    *)
(* recursive functions along their input.  Each gets the values it runs    *)
(* through (Recursion), and an invariant by induction along them           *)
(* (Inductive): EncAt says which chunks the encoder has written and what   *)
(* is in the one that is begun; DecAt, for the decoder, which works in the *)
(* buffer that it reads, which bytes are decoded and which ones are still  *)
(* as they were; Taken what the telnet connection has passed on.           *)
(***************************************************************************)
EXTENDS Codec, SequenceTheorems, WellFoundedInduction, TLAPS

-----------------------------------------------------------------------------
(* Induction and recursion up to a number.                                 *)

(* Every set of natural numbers has a least element.                       *)
LEMMA LeastNat ==
  ASSUME NEW T, T \subseteq Nat, T # {}
  PROVE  \E x \in T : \A y \in T : x <= y
<1>1. IsWellFoundedOn(OpToRel(<, Nat), Nat)
  BY NatLessThanWellFounded
<1>2. PICK x \in T : \A y \in T : <<y, x>> \notin OpToRel(<, Nat)
  BY <1>1, WFMin
<1>3. \A y \in T : ~(y < x)
  BY <1>2 DEF OpToRel
<1> QED
  BY <1>3

(* Induction up to n, over a set.                                          *)
LEMMA Inductive ==
  ASSUME NEW n \in Nat, NEW T, 0 \in T, \A i \in 0 .. n - 1 : i \in T => i + 1 \in T
  PROVE  \A i \in 0 .. n : i \in T
<1> DEFINE Bad == {i \in 0 .. n : i \notin T}
<1> SUFFICES ASSUME Bad # {} PROVE FALSE
  OBVIOUS
<1>1. Bad \subseteq Nat
  OBVIOUS
<1>2. PICK x \in Bad : \A y \in Bad : x <= y
  BY <1>1, LeastNat
<1>3. x # 0 /\ x \in 0 .. n /\ x - 1 \in 0 .. n - 1 /\ x - 1 \notin Bad
  BY <1>2
<1>4. x - 1 \in T /\ (x - 1) + 1 = x
  BY <1>3
<1> QED
  BY <1>2, <1>3, <1>4

(* The steps of a computation along 1 .. n with values in S, and the       *)
(* values it runs through from b on.                                       *)
StepsIn(n, S) == [(1 .. n) \X S -> S]
RunsThrough(w, n, b, g) == w[0] = b /\ \A i \in 1 .. n : w[i] = g[<<i, w[i - 1]>>]

(* Every such computation has its values.                                  *)
LEMMA Recursion ==
  ASSUME NEW n \in Nat, NEW S, NEW b \in S, NEW g \in StepsIn(n, S)
  PROVE  \E w \in [0 .. n -> S] : RunsThrough(w, n, b, g)
<1> USE DEF StepsIn, RunsThrough
<1> DEFINE Upto(m, w) == w[0] = b /\ \A i \in 1 .. m : w[i] = g[<<i, w[i - 1]>>]
           T == {m \in 0 .. n : \E w \in [0 .. m -> S] : Upto(m, w)}
<1>1. 0 \in T
  <2> DEFINE w == [i \in 0 .. 0 |-> b]
  <2>1. w \in [0 .. 0 -> S] /\ w[0] = b /\ 1 .. 0 = {}
    OBVIOUS
  <2> HIDE DEF w
  <2>2. \E v \in [0 .. 0 -> S] : Upto(0, v)
    BY <2>1
  <2> QED
    BY <2>2
<1>2. ASSUME NEW m \in 0 .. n - 1, m \in T PROVE m + 1 \in T
  <2>1. PICK w \in [0 .. m -> S] : Upto(m, w)
    BY <1>2
  <2> DEFINE v == [i \in 0 .. m + 1 |-> IF i = m + 1 THEN g[<<m + 1, w[m]>>] ELSE w[i]]
  <2>2. g[<<m + 1, w[m]>>] \in S
    BY <2>1
  <2>3. v \in [0 .. m + 1 -> S]
    BY <2>2
  <2>4. v[0] = b /\ v[m + 1] = g[<<m + 1, w[m]>>] /\ \A i \in 0 .. m : v[i] = w[i]
    BY <2>1
  <2> HIDE DEF v
  <2>5. ASSUME NEW i \in 1 .. m + 1 PROVE v[i] = g[<<i, v[i - 1]>>]
    <3>1. CASE i = m + 1
      <4>1. v[i - 1] = w[m] /\ v[i] = g[<<m + 1, w[m]>>]
        BY <2>4, <3>1
      <4> QED
        BY <3>1, <4>1
    <3>2. CASE i # m + 1
      <4>1. i \in 1 .. m /\ v[i] = w[i] /\ v[i - 1] = w[i - 1]
        BY <3>2, <2>4
      <4>2. w[i] = g[<<i, w[i - 1]>>]
        BY <2>1, <4>1
      <4> QED
        BY <4>1, <4>2
    <3> QED
      BY <3>1, <3>2
  <2>6. m + 1 \in 0 .. n
    OBVIOUS
  <2> QED
    BY <2>3, <2>4, <2>5, <2>6
<1>3. \A m \in 0 .. n - 1 : m \in T => m + 1 \in T
  BY <1>2
<1> HIDE DEF T
<1>4. n \in T
  BY <1>1, <1>3, Inductive
<1> QED
  BY <1>4 DEF T

-----------------------------------------------------------------------------
(* Bytes and bits.                                                         *)

Byte  == 0 .. 255
Bytes == Seq(Byte)

(* The bit of the escape byte for the byte r of a chunk, counted from 0,   *)
(* and the escape byte with the bits b.                                    *)
Mask(r) ==
  IF r = 0 THEN 64 ELSE IF r = 1 THEN 32 ELSE IF r = 2 THEN 16 ELSE IF r = 3 THEN 8
  ELSE IF r = 4 THEN 4 ELSE IF r = 5 THEN 2 ELSE 1

Escape(b) == 64 * b[0] + 32 * b[1] + 16 * b[2] + 8 * b[3] + 4 * b[4] + 2 * b[5] + b[6]

Bits == [0 .. 6 -> {0, 1}]

(* A bit is found again by its mask.                                       *)
LEMMA BitFound ==
  ASSUME NEW b \in Bits, NEW r \in 0 .. 6
  PROVE  (Escape(b) \div Mask(r)) % 2 = 1 <=> b[r] = 1
<1> DEFINE x == Escape(b)
<1>1. \A t \in 0 .. 6 : b[t] = 0 \/ b[t] = 1
  BY DEF Bits
<1>2. /\ b[0] \in {0, 1} /\ b[1] \in {0, 1} /\ b[2] \in {0, 1} /\ b[3] \in {0, 1}
      /\ b[4] \in {0, 1} /\ b[5] \in {0, 1} /\ b[6] \in {0, 1}
  BY <1>1
<1>3. CASE r = 0
  BY <1>2, <1>3 DEF Escape, Mask
<1>4. CASE r = 1
  BY <1>2, <1>4 DEF Escape, Mask
<1>5. CASE r = 2
  BY <1>2, <1>5 DEF Escape, Mask
<1>6. CASE r = 3
  BY <1>2, <1>6 DEF Escape, Mask
<1>7. CASE r = 4
  BY <1>2, <1>7 DEF Escape, Mask
<1>8. CASE r = 5
  BY <1>2, <1>8 DEF Escape, Mask
<1>9. CASE r = 6
  BY <1>2, <1>9 DEF Escape, Mask
<1> QED
  BY <1>3, <1>4, <1>5, <1>6, <1>7, <1>8, <1>9

(* The escape byte has seven bits.                                         *)
LEMMA EscapeType ==
  ASSUME NEW b \in Bits
  PROVE  Escape(b) \in 0 .. 127
<1>1. /\ b[0] \in {0, 1} /\ b[1] \in {0, 1} /\ b[2] \in {0, 1} /\ b[3] \in {0, 1}
      /\ b[4] \in {0, 1} /\ b[5] \in {0, 1} /\ b[6] \in {0, 1}
  BY DEF Bits
<1> QED
  BY <1>1 DEF Escape

(* A bit is set by adding its mask.                                        *)
LEMMA BitSet ==
  ASSUME NEW a \in Bits, NEW b \in Bits, NEW r \in 0 .. 6, a[r] = 0,
         \A t \in 0 .. 6 : t # r => b[t] = a[t]
  PROVE  Escape(b) = IF b[r] = 1 THEN Escape(a) + Mask(r) ELSE Escape(a)
<1>1. /\ a[0] \in {0, 1} /\ a[1] \in {0, 1} /\ a[2] \in {0, 1} /\ a[3] \in {0, 1}
      /\ a[4] \in {0, 1} /\ a[5] \in {0, 1} /\ a[6] \in {0, 1}
  BY DEF Bits
<1>2. b[r] \in {0, 1}
  BY DEF Bits
<1>3. \A t \in 0 .. 6 : t # r => b[t] = a[t]
  OBVIOUS
<1>4. CASE r = 0
  BY <1>1, <1>2, <1>3, <1>4 DEF Escape, Mask
<1>5. CASE r = 1
  BY <1>1, <1>2, <1>3, <1>5 DEF Escape, Mask
<1>6. CASE r = 2
  BY <1>1, <1>2, <1>3, <1>6 DEF Escape, Mask
<1>7. CASE r = 3
  BY <1>1, <1>2, <1>3, <1>7 DEF Escape, Mask
<1>8. CASE r = 4
  BY <1>1, <1>2, <1>3, <1>8 DEF Escape, Mask
<1>9. CASE r = 5
  BY <1>1, <1>2, <1>3, <1>9 DEF Escape, Mask
<1>10. CASE r = 6
  BY <1>1, <1>2, <1>3, <1>10 DEF Escape, Mask
<1> QED
  BY <1>4, <1>5, <1>6, <1>7, <1>8, <1>9, <1>10

-----------------------------------------------------------------------------
(* The encoder.                                                            *)

EncStates == [out : Seq(Nat), encodedBytes : Seq(Nat), escapeByte : Nat, escapeMask : Nat]

(* An empty chunk is a state of it.                                        *)
LEMMA ResetType ==
  ASSUME NEW out \in Seq(Nat)
  PROVE  resetEncoder(out) \in EncStates
BY EmptySeq DEF resetEncoder, EncStates

(* What a byte makes of the state of the encoder.                          *)
LEMMA WriteType ==
  ASSUME NEW e \in EncStates, NEW b \in Nat
  PROVE  write(e, b) \in EncStates
<1> DEFINE f == [out |-> e.out, encodedBytes |-> Append(e.encodedBytes, b % 128),
                 escapeByte |-> IF b >= 128 THEN e.escapeByte + e.escapeMask ELSE e.escapeByte,
                 escapeMask |-> e.escapeMask \div 2]
<1>1. e.out \in Seq(Nat) /\ e.encodedBytes \in Seq(Nat) /\ e.escapeByte \in Nat /\ e.escapeMask \in Nat
  BY DEF EncStates
<1>2. f \in EncStates
  <2>1. b % 128 \in Nat /\ e.escapeMask \div 2 \in Nat /\ e.escapeByte + e.escapeMask \in Nat
    BY <1>1
  <2>2. Append(e.encodedBytes, b % 128) \in Seq(Nat)
    BY <1>1, <2>1
  <2> QED
    BY <1>1, <2>1, <2>2 DEF EncStates
<1> HIDE DEF f
<1>3. endChunk(f) \in EncStates
  <2>1. f.out \in Seq(Nat) /\ f.encodedBytes \in Seq(Nat) /\ f.escapeByte \in Nat
    BY <1>2 DEF EncStates
  <2>2. f.out \o f.encodedBytes \o <<f.escapeByte>> \in Seq(Nat)
    BY <2>1
  <2> QED
    BY <2>2, ResetType DEF endChunk
<1>4. write(e, b) = IF Len(f.encodedBytes) >= 7 THEN endChunk(f) ELSE f
  BY DEF write, f
<1> QED
  BY <1>2, <1>3, <1>4

(* The states the encoder runs through.                                    *)
Encodes(w, c) ==
  w[0] = resetEncoder(<<>>) /\ \A i \in 1 .. Len(c) : w[i] = write(w[i - 1], c[i])

(* There are such states, and the last one is the result.                  *)
LEMMA Encoding ==
  ASSUME NEW c \in Seq(Nat)
  PROVE  \E w : Encodes(w, c) /\ encoded(c) = w[Len(c)]
<1> DEFINE n == Len(c)
           V == EncStates
           b == resetEncoder(<<>>)
           Step(x, i) == write(x, c[i])
           g == [x \in (1 .. n) \X V |-> Step(x[2], x[1])]
           Def(w) == [i \in 0 .. n |-> IF i = 0 THEN b ELSE Step(w[i - 1], i)]
           e == CHOOSE w : w = Def(w)
<1>1. n \in Nat /\ b \in V
  <2>1. n \in Nat
    OBVIOUS
  <2>2. <<>> \in Seq(Nat)
    BY EmptySeq
  <2> QED
    BY <2>1, <2>2, ResetType
<1>2. ASSUME NEW i \in 1 .. n, NEW x \in V PROVE Step(x, i) \in V
  <2>1. c[i] \in Nat
    OBVIOUS
  <2> QED
    BY <2>1, WriteType
<1>3. g \in StepsIn(n, V)
  <2> HIDE DEF n, V, Step
  <2> QED
    BY <1>2 DEF StepsIn
<1>4. PICK v \in [0 .. n -> V] : RunsThrough(v, n, b, g)
  <2> HIDE DEF n, V, b, g
  <2> QED
    BY <1>1, <1>3, Recursion
<1>5. ASSUME NEW i \in 1 .. n PROVE v[i] = Step(v[i - 1], i)
  <2> HIDE DEF n, V, b, Step
  <2>1. i - 1 \in 0 .. n
    BY <1>1
  <2>2. <<i, v[i - 1]>> \in (1 .. n) \X V
    BY <2>1
  <2>3. g[<<i, v[i - 1]>>] = Step(v[i - 1], i)
    BY <2>2
  <2> QED
    BY <1>4, <2>3 DEF RunsThrough
<1>6. v = Def(v)
  <2>1. v = [i \in 0 .. n |-> v[i]]
    OBVIOUS
  <2>2. \A i \in 0 .. n : v[i] = IF i = 0 THEN b ELSE Step(v[i - 1], i)
    <3> HIDE DEF n, V, b, g, Step
    <3>1. v[0] = b
      BY <1>4, Zenon DEF RunsThrough
    <3>2. ASSUME NEW i \in 0 .. n, i # 0 PROVE v[i] = Step(v[i - 1], i)
      <4>1. i \in 1 .. n
        BY <1>1, <3>2
      <4> QED
        BY <4>1, <1>5
    <3> QED
      BY <3>1, <3>2
  <2> HIDE DEF n, V, b, g, Step
  <2> QED
    BY <2>1, <2>2
<1>7. e = Def(e)
  <2> HIDE DEF n, V, b, g, Step
  <2> QED
    BY <1>6
<1>8. encoded(c) = e[n]
  BY DEF encoded
<1> HIDE DEF n, V, b, g, e, Step
<1>9. e[0] = b /\ \A i \in 1 .. n : e[i] = Step(e[i - 1], i)
  BY <1>1, <1>7
<1> QED
  BY <1>8, <1>9 DEF n, b, Step, Encodes

-----------------------------------------------------------------------------
(* What it writes: chunk q of the bytes c has its seven bytes from 7 * q   *)
(* on, the last one fewer, and is written behind 8 * q.                    *)

(* The highest bits of k bytes of c behind s.                              *)
High(c, s, k) == [r \in 0 .. 6 |-> IF r < k /\ c[s + r + 1] >= 128 THEN 1 ELSE 0]

(* The chunk of these bytes, behind p in w.                                *)
Chunk(w, p, c, s, k) ==
  /\ \A r \in 0 .. 6 : w[p + r + 1] = IF r < k THEN c[s + r + 1] % 128 ELSE 0
  /\ w[p + 8] = Escape(High(c, s, k))

(* q full chunks.                                                          *)
Chunks(w, c, q) == Len(w) = 8 * q /\ \A j \in 0 .. q - 1 : Chunk(w, 8 * j, c, 7 * j, 7)

(* The chunk that is begun, with r bytes of c behind s.                    *)
Open(e, c, s, r) ==
  /\ Len(e.encodedBytes) = r
  /\ \A t \in 0 .. r - 1 : e.encodedBytes[t + 1] = c[s + t + 1] % 128
  /\ e.escapeByte = Escape(High(c, s, r))
  /\ e.escapeMask = Mask(r)

EncAt(e, c, q, r) == e \in EncStates /\ Chunks(e.out, c, q) /\ Open(e, c, 7 * q, r)

(* They are bits.                                                          *)
LEMMA HighType ==
  ASSUME NEW c, NEW s, NEW k
  PROVE  High(c, s, k) \in Bits
BY DEF High, Bits

(* One more byte in the chunk.                                             *)
LEMMA HighNext ==
  ASSUME NEW c, NEW s \in Nat, NEW k \in 0 .. 6
  PROVE  Escape(High(c, s, k + 1)) =
           IF c[s + k + 1] >= 128 THEN Escape(High(c, s, k)) + Mask(k) ELSE Escape(High(c, s, k))
<1> DEFINE a == High(c, s, k)
           b == High(c, s, k + 1)
<1>1. a \in Bits /\ b \in Bits
  BY HighType
<1>2. a[k] = 0
  BY DEF High
<1>3. b[k] = 1 <=> c[s + k + 1] >= 128
  BY DEF High
<1>4. ASSUME NEW t \in 0 .. 6, t # k PROVE b[t] = a[t]
  <2>1. t < k + 1 <=> t < k
    BY <1>4
  <2> QED
    BY <2>1 DEF High
<1> HIDE DEF a, b
<1>5. Escape(b) = IF b[k] = 1 THEN Escape(a) + Mask(k) ELSE Escape(a)
  BY <1>1, <1>2, <1>4, BitSet
<1> QED
  BY <1>3, <1>5 DEF a, b

(* Nothing of a chunk.                                                     *)
LEMMA HighNone ==
  ASSUME NEW c, NEW s \in Nat
  PROVE  Escape(High(c, s, 0)) = 0
BY DEF High, Escape

(* A chunk is kept where the output goes on.                               *)
SameEight(v, w, p) == \A i \in p + 1 .. p + 8 : v[i] = w[i]

(* Nothing is changed in it then.                                          *)
LEMMA ChunkKept ==
  ASSUME NEW w, NEW v, NEW p \in Nat, NEW c, NEW s, NEW k, Chunk(w, p, c, s, k), SameEight(v, w, p)
  PROVE  Chunk(v, p, c, s, k)
<1>1. v[p + 8] = w[p + 8]
  BY DEF SameEight
<1>2. \A r \in 0 .. 6 : v[p + r + 1] = w[p + r + 1]
  <2> TAKE r \in 0 .. 6
  <2>1. p + r + 1 \in p + 1 .. p + 8
    OBVIOUS
  <2> QED
    BY <2>1 DEF SameEight
<1> QED
  BY <1>1, <1>2 DEF Chunk

(* One sequence behind another.                                            *)
Joined(v, a, b) ==
  /\ v \in Seq(Nat) /\ Len(v) = Len(a) + Len(b)
  /\ \A i \in 1 .. Len(a) : v[i] = a[i]
  /\ \A i \in 1 .. Len(b) : v[Len(a) + i] = b[i]

(* It is \o.                                                               *)
LEMMA Joining ==
  ASSUME NEW a \in Seq(Nat), NEW b \in Seq(Nat)
  PROVE  Joined(a \o b, a, b)
<1>1. a \o b \in Seq(Nat) /\ Len(a \o b) = Len(a) + Len(b) /\ Len(a) \in Nat /\ Len(b) \in Nat
  OBVIOUS
<1>2. \A i \in 1 .. Len(a) : (a \o b)[i] = a[i]
  OBVIOUS
<1>3. \A i \in 1 .. Len(b) : (a \o b)[Len(a) + i] = b[i]
  OBVIOUS
<1> QED
  BY <1>1, <1>2, <1>3 DEF Joined

(* One number more.                                                        *)
Grown(v, a, b) ==
  v \in Seq(Nat) /\ Len(v) = Len(a) + 1 /\ v[Len(a) + 1] = b /\ \A i \in 1 .. Len(a) : v[i] = a[i]

(* It is Append.                                                           *)
LEMMA Growing ==
  ASSUME NEW a \in Seq(Nat), NEW b \in Nat
  PROVE  Grown(Append(a, b), a, b)
<1>1. Append(a, b) \in Seq(Nat) /\ Len(Append(a, b)) = Len(a) + 1 /\ Append(a, b)[Len(a) + 1] = b
  OBVIOUS
<1>2. \A i \in 1 .. Len(a) : Append(a, b)[i] = a[i]
  OBVIOUS
<1> QED
  BY <1>1, <1>2 DEF Grown

(* Seven numbers and one behind out.                                       *)
EightBehind(w, out, x, y) ==
  /\ w \in Seq(Nat) /\ Len(w) = Len(out) + 8
  /\ \A i \in 1 .. Len(out) : w[i] = out[i]
  /\ \A i \in 1 .. 7 : w[Len(out) + i] = x[i]
  /\ w[Len(out) + 8] = y

(* A chunk behind out.                                                     *)
LEMMA EightMore ==
  ASSUME NEW out \in Seq(Nat), NEW x \in Seq(Nat), Len(x) = 7, NEW y \in Nat, NEW w,
         w = out \o x \o <<y>>
  PROVE  EightBehind(w, out, x, y)
<1> DEFINE v == out \o x
           z == <<y>>
<1>1. z \in Seq(Nat) /\ Len(z) = 1 /\ z[1] = y /\ Len(out) \in Nat
  OBVIOUS
<1>2. Joined(v, out, x)
  BY Joining
<1>3. w = v \o z
  OBVIOUS
<1> HIDE DEF v, z
<1>4. v \in Seq(Nat) /\ Len(v) = Len(out) + 7
  BY <1>2 DEF Joined
<1>5. Joined(w, v, z)
  BY <1>1, <1>3, <1>4, Joining
<1>6. w \in Seq(Nat) /\ Len(w) = Len(out) + 8
  BY <1>1, <1>4, <1>5 DEF Joined
<1>7. w[Len(out) + 8] = y
  <2>1. w[Len(v) + 1] = z[1]
    BY <1>1, <1>5 DEF Joined
  <2>2. Len(v) + 1 = Len(out) + 8
    BY <1>1, <1>4
  <2> QED
    BY <1>1, <2>1, <2>2
<1>8. \A i \in 1 .. Len(v) : w[i] = v[i]
  BY <1>5 DEF Joined
<1>9. ASSUME NEW i \in 1 .. Len(out) PROVE w[i] = out[i]
  <2>1. i \in 1 .. Len(v)
    BY <1>1, <1>4
  <2>2. v[i] = out[i]
    BY <1>2 DEF Joined
  <2> QED
    BY <1>8, <2>1, <2>2
<1>10. ASSUME NEW i \in 1 .. 7 PROVE w[Len(out) + i] = x[i]
  <2>1. Len(out) + i \in 1 .. Len(v)
    BY <1>1, <1>4
  <2>2. v[Len(out) + i] = x[i]
    BY <1>2 DEF Joined
  <2> QED
    BY <1>8, <2>1, <2>2
<1> QED
  BY <1>6, <1>7, <1>9, <1>10 DEF EightBehind

(* Chunk q behind the full ones, with k bytes.                             *)
ChunkAt(w, c, q, k) ==
  /\ w \in Seq(Nat) /\ Len(w) = 8 * (q + 1)
  /\ \A j \in 0 .. q - 1 : Chunk(w, 8 * j, c, 7 * j, 7)
  /\ Chunk(w, 8 * q, c, 7 * q, k)

(* A chunk is written.                                                     *)
LEMMA ChunkAdded ==
  ASSUME NEW out \in Seq(Nat), NEW x \in Seq(Nat), NEW y \in Nat, NEW c, NEW q \in Nat, NEW k,
         Chunks(out, c, q), Len(x) = 7, y = Escape(High(c, 7 * q, k)),
         \A t \in 0 .. 6 : x[t + 1] = IF t < k THEN c[7 * q + t + 1] % 128 ELSE 0
  PROVE  ChunkAt(out \o x \o <<y>>, c, q, k)
<1> DEFINE w == out \o x \o <<y>>
<1>1. Len(out) = 8 * q
  BY DEF Chunks
<1>2. /\ w \in Seq(Nat) /\ Len(w) = 8 * (q + 1)
      /\ \A i \in 1 .. 8 * q : w[i] = out[i]
      /\ \A i \in 1 .. 7 : w[8 * q + i] = x[i]
      /\ w[8 * q + 8] = y
  <2> HIDE DEF w
  <2>1. w = out \o x \o <<y>>
    BY DEF w
  <2>2. EightBehind(w, out, x, y)
    BY <2>1, EightMore
  <2>3. 8 * q + 8 = 8 * (q + 1)
    OBVIOUS
  <2> QED
    BY <1>1, <2>2, <2>3 DEF EightBehind
<1> HIDE DEF w
<1>3. ASSUME NEW j \in 0 .. q - 1 PROVE Chunk(w, 8 * j, c, 7 * j, 7)
  <2>1. 8 * j \in Nat /\ \A i \in 8 * j + 1 .. 8 * j + 8 : i \in 1 .. 8 * q
    OBVIOUS
  <2>2. Chunk(out, 8 * j, c, 7 * j, 7)
    BY DEF Chunks
  <2>3. SameEight(w, out, 8 * j)
    BY <1>2, <2>1 DEF SameEight
  <2> QED
    BY <2>1, <2>2, <2>3, ChunkKept
<1>4. Chunk(w, 8 * q, c, 7 * q, k)
  <2>1. ASSUME NEW r \in 0 .. 6
        PROVE  w[8 * q + r + 1] = IF r < k THEN c[7 * q + r + 1] % 128 ELSE 0
    <3>1. r + 1 \in 1 .. 7 /\ 8 * q + r + 1 = 8 * q + (r + 1)
      OBVIOUS
    <3>2. w[8 * q + (r + 1)] = x[r + 1]
      BY <1>2, <3>1
    <3>3. w[8 * q + r + 1] = x[r + 1]
      BY <3>1, <3>2, Zenon
    <3> QED
      BY <3>3
  <2> QED
    BY <1>2, <2>1 DEF Chunk
<1> QED
  BY <1>2, <1>3, <1>4 DEF w, ChunkAt

(* A byte of a sequence of bytes.                                          *)
LEMMA ByteAt ==
  ASSUME NEW c \in Bytes, NEW i \in 1 .. Len(c)
  PROVE  c[i] \in 0 .. 255
<1>1. c \in Seq(Byte)
  BY DEF Bytes
<1>2. c[i] \in Byte
  BY <1>1
<1> QED
  BY <1>2 DEF Byte

(* A byte is written into the chunk that is begun ...                      *)
OneMore(f, e, c, s, r) ==
  /\ f \in EncStates /\ f.out = e.out
  /\ Len(f.encodedBytes) = r + 1
  /\ \A t \in 0 .. r : f.encodedBytes[t + 1] = c[s + t + 1] % 128
  /\ f.escapeByte = Escape(High(c, s, r + 1))
  /\ r < 6 => f.escapeMask = Mask(r + 1)

(* ... and this is what the encoder does then.                             *)
LEMMA WriteOne ==
  ASSUME NEW e \in EncStates, NEW c \in Bytes, NEW s \in Nat, NEW r \in 0 .. 6, Open(e, c, s, r),
         s + r + 1 <= Len(c), NEW f,
         f = [out |-> e.out, encodedBytes |-> Append(e.encodedBytes, c[s + r + 1] % 128),
              escapeByte |-> IF c[s + r + 1] >= 128 THEN e.escapeByte + e.escapeMask ELSE e.escapeByte,
              escapeMask |-> e.escapeMask \div 2]
  PROVE  OneMore(f, e, c, s, r)
<1> DEFINE b == c[s + r + 1]
<1>0. b \in 0 .. 255
  <2>1. s + r + 1 \in 1 .. Len(c)
    OBVIOUS
  <2> QED
    BY <2>1, ByteAt
<1>1. /\ e.out \in Seq(Nat) /\ e.encodedBytes \in Seq(Nat) /\ e.escapeByte \in Nat /\ e.escapeMask \in Nat
      /\ Len(e.encodedBytes) = r /\ e.escapeByte = Escape(High(c, s, r)) /\ e.escapeMask = Mask(r)
  BY DEF EncStates, Open
<1>2. f.escapeByte = Escape(High(c, s, r + 1))
  <2>1. f.escapeByte = IF b >= 128 THEN Escape(High(c, s, r)) + Mask(r) ELSE Escape(High(c, s, r))
    BY <1>1
  <2> QED
    BY <2>1, HighNext
<1>3. r < 6 => f.escapeMask = Mask(r + 1)
  <2>1. f.escapeMask = Mask(r) \div 2
    BY <1>1
  <2>2. r < 6 => Mask(r) \div 2 = Mask(r + 1)
    BY DEF Mask
  <2> QED
    BY <2>1, <2>2
<1>4. b % 128 \in Nat /\ f.escapeMask \in Nat /\ f.escapeByte \in Nat
  <2>1. b % 128 \in Nat
    <3> HIDE DEF b
    <3> QED
      BY <1>0
  <2>2. f.escapeMask \in Nat
    <3> DEFINE m == e.escapeMask
    <3>1. m \in Nat /\ f.escapeMask = m \div 2
      BY <1>1
    <3> HIDE DEF m
    <3> QED
      BY <3>1
  <2>3. f.escapeByte \in Nat
    BY <1>1
  <2> QED
    BY <2>1, <2>2, <2>3
<1> HIDE DEF b
<1>5. f.encodedBytes = Append(e.encodedBytes, b % 128)
  BY DEF b
<1>6. /\ f.encodedBytes \in Seq(Nat) /\ Len(f.encodedBytes) = r + 1 /\ f.encodedBytes[r + 1] = b % 128
      /\ \A i \in 1 .. r : f.encodedBytes[i] = e.encodedBytes[i]
  <2>1. Grown(f.encodedBytes, e.encodedBytes, b % 128)
    BY <1>1, <1>4, <1>5, Growing
  <2> QED
    BY <1>1, <2>1 DEF Grown
<1>7. ASSUME NEW t \in 0 .. r PROVE f.encodedBytes[t + 1] = c[s + t + 1] % 128
  <2>1. CASE t = r
    BY <1>6, <2>1 DEF b
  <2>2. CASE t # r
    <3>1. t \in 0 .. r - 1 /\ t + 1 \in 1 .. r
      BY <2>2
    <3>2. e.encodedBytes[t + 1] = c[s + t + 1] % 128
      BY <3>1 DEF Open
    <3> QED
      BY <1>6, <3>1, <3>2
  <2> QED
    BY <2>1, <2>2
<1>8. f \in EncStates
  BY <1>1, <1>4, <1>6 DEF EncStates
<1> QED
  BY <1>2, <1>3, <1>6, <1>7, <1>8 DEF OneMore

(* Bytes are numbers.                                                      *)
LEMMA BytesNat == ASSUME NEW c \in Bytes PROVE c \in Seq(Nat) /\ Len(c) \in Nat
<1>1. c \in Seq(Byte) /\ Len(c) \in Nat
  BY DEF Bytes
<1>2. ASSUME NEW i \in 1 .. Len(c) PROVE c[i] \in Nat
  <2> DEFINE b == c[i]
  <2>1. b \in 0 .. 255
    BY ByteAt
  <2> HIDE DEF b
  <2>2. b \in Nat
    BY <2>1
  <2> QED
    BY <2>2 DEF b
<1>3. c \in [1 .. Len(c) -> Nat]
  BY <1>1, <1>2
<1> QED
  BY <1>1, <1>3

(* ... and ends it, or not.                                                *)
LEMMA WriteStep ==
  ASSUME NEW c \in Bytes, NEW q \in Nat, NEW r \in 0 .. 6, NEW e, EncAt(e, c, q, r),
         7 * q + r + 1 <= Len(c)
  PROVE  /\ r < 6 => EncAt(write(e, c[7 * q + r + 1]), c, q, r + 1)
         /\ r = 6 => EncAt(write(e, c[7 * q + r + 1]), c, q + 1, 0)
<1> DEFINE s == 7 * q
           b == c[s + r + 1]
           f == [out |-> e.out, encodedBytes |-> Append(e.encodedBytes, b % 128),
                 escapeByte |-> IF b >= 128 THEN e.escapeByte + e.escapeMask ELSE e.escapeByte,
                 escapeMask |-> e.escapeMask \div 2]
<1>1. e \in EncStates /\ Chunks(e.out, c, q) /\ Open(e, c, s, r) /\ s \in Nat
  BY DEF EncAt
<1>2. write(e, b) = IF Len(f.encodedBytes) >= 7 THEN endChunk(f) ELSE f
  BY DEF write, f
<1>3. /\ f \in EncStates /\ f.out = e.out
      /\ Len(f.encodedBytes) = r + 1
      /\ \A t \in 0 .. r : f.encodedBytes[t + 1] = c[s + t + 1] % 128
      /\ f.escapeByte = Escape(High(c, s, r + 1))
      /\ r < 6 => f.escapeMask = Mask(r + 1)
  <2>1. s + r + 1 <= Len(c)
    OBVIOUS
  <2> HIDE DEF s
  <2>2. OneMore(f, e, c, s, r)
    BY <1>1, <2>1, WriteOne
  <2> HIDE DEF f
  <2> QED
    BY <2>2, Zenon DEF OneMore
<1>4. CASE r < 6
  <2>1. write(e, b) = f
    BY <1>2, <1>3, <1>4
  <2> HIDE DEF f
  <2>2. Open(f, c, s, r + 1)
    <3>1. (r + 1) - 1 = r
      OBVIOUS
    <3> QED
      BY <1>3, <1>4, <3>1 DEF Open
  <2> QED
    BY <1>1, <1>3, <1>4, <2>1, <2>2 DEF EncAt
<1>5. CASE r = 6
  <2>1. write(e, b) = endChunk(f)
    BY <1>2, <1>3, <1>5
  <2> HIDE DEF f
  <2> DEFINE x == f.encodedBytes
             y == f.escapeByte
             w == e.out \o x \o <<y>>
  <2>2. endChunk(f) = resetEncoder(w)
    BY <1>3 DEF endChunk
  <2>3. e.out \in Seq(Nat) /\ x \in Seq(Nat) /\ y \in Nat
    BY <1>1, <1>3 DEF EncStates
  <2>4. Len(x) = 7 /\ y = Escape(High(c, s, 7))
        /\ \A t \in 0 .. 6 : x[t + 1] = IF t < 7 THEN c[s + t + 1] % 128 ELSE 0
    BY <1>3, <1>5
  <2> HIDE DEF x, y
  <2>5. /\ w \in Seq(Nat) /\ Len(w) = 8 * (q + 1)
        /\ \A j \in 0 .. q - 1 : Chunk(w, 8 * j, c, 7 * j, 7)
        /\ Chunk(w, 8 * q, c, s, 7)
    <3>1. ChunkAt(w, c, q, 7)
      BY <1>1, <2>3, <2>4, ChunkAdded
    <3> HIDE DEF w
    <3> QED
      BY <3>1 DEF ChunkAt
  <2> HIDE DEF w
  <2>6. Chunks(w, c, q + 1)
    <3>1. ASSUME NEW j \in 0 .. (q + 1) - 1 PROVE Chunk(w, 8 * j, c, 7 * j, 7)
      <4>1. CASE j = q
        BY <2>5, <4>1
      <4>2. CASE j # q
        BY <2>5, <4>2
      <4> QED
        BY <4>1, <4>2
    <3> QED
      BY <2>5, <3>1 DEF Chunks
  <2> DEFINE g == resetEncoder(w)
  <2>7. g.out = w /\ g.encodedBytes = <<>> /\ g.escapeByte = 0 /\ g.escapeMask = 64
    BY DEF resetEncoder
  <2>8. g \in EncStates
    BY <2>5, ResetType
  <2> HIDE DEF g
  <2>9. Open(g, c, 7 * (q + 1), 0)
    <3>1. Len(g.encodedBytes) = 0 /\ 0 .. 0 - 1 = {}
      BY <2>7
    <3>2. Escape(High(c, 7 * (q + 1), 0)) = 0
      BY HighNone
    <3>3. Mask(0) = 64
      BY DEF Mask
    <3> QED
      BY <2>7, <3>1, <3>2, <3>3 DEF Open
  <2>10. EncAt(g, c, q + 1, 0)
    BY <2>6, <2>7, <2>8, <2>9 DEF EncAt
  <2>11. write(e, b) = g
    BY <2>1, <2>2 DEF g
  <2> QED
    BY <1>5, <2>10, <2>11
<1> QED
  BY <1>4, <1>5

(* Where the encoder is after i bytes.                                     *)
EncUpto(e, c, i) == \E q \in Nat, r \in 0 .. 6 : i = 7 * q + r /\ EncAt(e, c, q, r)

(* At the end it is behind all of c (by induction).                        *)
LEMMA EncodedUpto ==
  ASSUME NEW c \in Bytes
  PROVE  EncUpto(encoded(c), c, Len(c))
<1> DEFINE n == Len(c)
<1>1. c \in Seq(Nat) /\ n \in Nat
  BY BytesNat
<1>2. PICK w : Encodes(w, c) /\ encoded(c) = w[n]
  BY <1>1, Encoding
<1> DEFINE T == {i \in 0 .. n : EncUpto(w[i], c, i)}
<1>3. 0 \in T
  <2> DEFINE g == resetEncoder(<<>>)
  <2>1. w[0] = g
    BY <1>2 DEF Encodes
  <2>2. g.out = <<>> /\ g.encodedBytes = <<>> /\ g.escapeByte = 0 /\ g.escapeMask = 64
    BY DEF resetEncoder
  <2>3. g \in EncStates
    BY EmptySeq, ResetType
  <2> HIDE DEF g
  <2>4. Open(g, c, 7 * 0, 0)
    <3>1. Len(g.encodedBytes) = 0 /\ 0 .. 0 - 1 = {}
      BY <2>2
    <3>2. Escape(High(c, 7 * 0, 0)) = 0
      BY HighNone
    <3>3. Mask(0) = 64
      BY DEF Mask
    <3> QED
      BY <2>2, <3>1, <3>2, <3>3 DEF Open
  <2>5. Chunks(g.out, c, 0)
    BY <2>2 DEF Chunks
  <2>6. EncAt(g, c, 0, 0)
    BY <2>3, <2>4, <2>5 DEF EncAt
  <2>7. EncUpto(g, c, 0)
    BY <2>6 DEF EncUpto
  <2> QED
    BY <1>1, <2>1, <2>7
<1>4. ASSUME NEW i \in 0 .. n - 1, i \in T PROVE i + 1 \in T
  <2>1. PICK q \in Nat, r \in 0 .. 6 : i = 7 * q + r /\ EncAt(w[i], c, q, r)
    BY <1>4 DEF EncUpto
  <2>2. i + 1 \in 1 .. n /\ (i + 1) - 1 = i /\ i + 1 = 7 * q + r + 1 /\ 7 * q + r + 1 <= Len(c)
    BY <1>1, <2>1
  <2>3. w[i + 1] = write(w[i], c[7 * q + r + 1])
    BY <1>2, <2>2 DEF Encodes
  <2>4. /\ r < 6 => EncAt(w[i + 1], c, q, r + 1)
        /\ r = 6 => EncAt(w[i + 1], c, q + 1, 0)
    BY <2>1, <2>2, <2>3, WriteStep
  <2>5. EncUpto(w[i + 1], c, i + 1)
    <3>1. CASE r < 6
      <4>1. r + 1 \in 0 .. 6 /\ i + 1 = 7 * q + (r + 1)
        BY <2>2, <3>1
      <4> QED
        BY <2>4, <3>1, <4>1 DEF EncUpto
    <3>2. CASE r = 6
      <4>1. q + 1 \in Nat /\ 0 \in 0 .. 6 /\ i + 1 = 7 * (q + 1) + 0
        BY <2>2, <3>2
      <4> QED
        BY <2>4, <3>2, <4>1 DEF EncUpto
    <3> QED
      BY <3>1, <3>2
  <2> QED
    BY <1>1, <2>2, <2>5
<1>5. \A i \in 0 .. n - 1 : i \in T => i + 1 \in T
  BY <1>4
<1>6. n \in T
  <2> HIDE DEF T
  <2>1. \A i \in 0 .. n : i \in T
    BY <1>1, <1>3, <1>5, Inductive
  <2> QED
    BY <1>1, <2>1
<1> QED
  BY <1>2, <1>6

(* What goes on the line: all of the bytes, with the last chunk filled up. *)
Wire(w, c, q, r) == Len(c) = 7 * q + r /\ ChunkAt(w, c, q, r)

(* A chunk that is filled up has seven bytes.                              *)
LEMMA SevenLong ==
  ASSUME NEW x \in [1 .. 7 -> Nat]
  PROVE  x \in Seq(Nat) /\ Len(x) = 7
<1>1. x \in Seq(Nat)
  BY SeqDef
<1>2. Len(x) \in Nat /\ DOMAIN x = 1 .. Len(x)
  BY <1>1, LenProperties
<1>3. DOMAIN x = 1 .. 7
  OBVIOUS
<1>4. \A n \in Nat : 1 .. n = 1 .. 7 => n = 7
  <2> TAKE n \in Nat
  <2> HAVE 1 .. n = 1 .. 7
  <2>1. 7 \in 1 .. n /\ (n \in 1 .. n => n \in 1 .. 7)
    OBVIOUS
  <2> QED
    BY <2>1
<1>5. Len(x) = 7
  BY <1>2, <1>3, <1>4
<1> QED
  BY <1>1, <1>5

(* It is written behind the full ones.                                     *)
LEMMA FlushChunk ==
  ASSUME NEW c, NEW q \in Nat, NEW r \in 0 .. 6, NEW e, EncAt(e, c, q, r), NEW f,
         f = [e EXCEPT !.encodedBytes =
                [i \in 1 .. 7 |-> IF i <= Len(@) THEN @[i] ELSE 0]]
  PROVE  ChunkAt(f.out \o f.encodedBytes \o <<f.escapeByte>>, c, q, r)
<1> DEFINE s == 7 * q
           v == e.encodedBytes
           x == [i \in 1 .. 7 |-> IF i <= Len(v) THEN v[i] ELSE 0]
<1>1. /\ e \in EncStates /\ Chunks(e.out, c, q) /\ Open(e, c, s, r) /\ s \in Nat
      /\ e.out \in Seq(Nat) /\ v \in Seq(Nat) /\ e.escapeByte \in Nat
  <2>1. e \in EncStates /\ Chunks(e.out, c, q) /\ Open(e, c, s, r)
    BY DEF EncAt
  <2>2. s \in Nat
    OBVIOUS
  <2>3. e.out \in Seq(Nat) /\ v \in Seq(Nat) /\ e.escapeByte \in Nat
    BY <2>1 DEF EncStates
  <2> QED
    BY <2>1, <2>2, <2>3
<1>2. f.out = e.out /\ f.encodedBytes = x /\ f.escapeByte = e.escapeByte
  BY <1>1 DEF EncStates
<1>3. Len(v) = r /\ \A t \in 0 .. r - 1 : v[t + 1] = c[s + t + 1] % 128
  BY <1>1 DEF Open
<1>4. e.escapeByte = Escape(High(c, s, r))
  BY <1>1 DEF Open
<1> HIDE DEF v
<1>5. x \in Seq(Nat) /\ Len(x) = 7
  <2>1. ASSUME NEW i \in 1 .. 7 PROVE (IF i <= Len(v) THEN v[i] ELSE 0) \in Nat
    <3>1. CASE i <= Len(v)
      <4>1. v \in Seq(Nat) /\ i \in 1 .. Len(v)
        BY <1>1, <3>1
      <4> QED
        BY <3>1, <4>1
    <3>2. CASE ~(i <= Len(v))
      BY <3>2
    <3> QED
      BY <3>1, <3>2
  <2>2. x \in [1 .. 7 -> Nat]
    BY <2>1
  <2> HIDE DEF x
  <2> QED
    BY <2>2, SevenLong
<1>6. ASSUME NEW t \in 0 .. 6
      PROVE  x[t + 1] = IF t < r THEN c[s + t + 1] % 128 ELSE 0
  <2>1. t + 1 \in 1 .. 7 /\ (t + 1 <= r <=> t < r)
    OBVIOUS
  <2>2. x[t + 1] = IF t + 1 <= r THEN v[t + 1] ELSE 0
    BY <1>3, <2>1
  <2> HIDE DEF x
  <2>3. CASE t < r
    <3>1. t \in 0 .. r - 1
      BY <2>3
    <3>2. v[t + 1] = c[s + t + 1] % 128
      BY <1>3, <3>1
    <3> QED
      BY <2>1, <2>2, <2>3, <3>2, Zenon
  <2>4. CASE ~(t < r)
    BY <2>1, <2>2, <2>4, Zenon
  <2> QED
    BY <2>3, <2>4
<1> HIDE DEF x, s
<1>7. ChunkAt(e.out \o x \o <<e.escapeByte>>, c, q, r)
  <2>1. /\ Chunks(e.out, c, q) /\ e.escapeByte = Escape(High(c, 7 * q, r))
        /\ \A t \in 0 .. 6 : x[t + 1] = IF t < r THEN c[7 * q + t + 1] % 128 ELSE 0
    BY <1>1, <1>4, <1>6 DEF s
  <2> QED
    BY <1>1, <1>5, <2>1, ChunkAdded
<1> QED
  BY <1>2, <1>7

(* So what is sent has all of c in chunks.                                 *)
LEMMA Flushed ==
  ASSUME NEW c \in Bytes
  PROVE  \E q \in Nat, r \in 0 .. 6 : Wire(flush(encoded(c)).out, c, q, r)
<1> DEFINE e == encoded(c)
           f == [e EXCEPT !.encodedBytes = [i \in 1 .. 7 |-> IF i <= Len(@) THEN @[i] ELSE 0]]
<1>1. PICK q \in Nat, r \in 0 .. 6 : Len(c) = 7 * q + r /\ EncAt(e, c, q, r)
  BY EncodedUpto DEF EncUpto
<1>2. flush(e).out = f.out \o f.encodedBytes \o <<f.escapeByte>>
  BY DEF flush, endChunk, resetEncoder
<1>3. ChunkAt(f.out \o f.encodedBytes \o <<f.escapeByte>>, c, q, r)
  <2> HIDE DEF e
  <2>1. f = [e EXCEPT !.encodedBytes = [i \in 1 .. 7 |-> IF i <= Len(@) THEN @[i] ELSE 0]]
    OBVIOUS
  <2> HIDE DEF f
  <2> QED
    BY <1>1, <2>1, FlushChunk
<1> HIDE DEF e, f
<1>4. Wire(flush(e).out, c, q, r)
  BY <1>1, <1>2, <1>3 DEF Wire
<1> QED
  BY <1>4 DEF e

-----------------------------------------------------------------------------
(* The decoder.                                                            *)

DecStates ==
  [buffer : Seq(Nat), dest : Nat, block : Nat, blockModif : Nat, mask : Nat, dlen : Int]

(* A byte of the buffer, or what is behind it.                             *)
LEMMA AtType ==
  ASSUME NEW buffer \in Seq(Nat), NEW i \in Nat
  PROVE  at(buffer, i) \in Nat /\ (i < Len(buffer) => at(buffer, i) = buffer[i + 1])
<1>1. CASE i < Len(buffer)
  <2>1. i + 1 \in 1 .. Len(buffer)
    BY <1>1
  <2>2. buffer[i + 1] \in Nat
    BY <2>1
  <2> QED
    BY <1>1, <2>2 DEF at
<1>2. CASE ~(i < Len(buffer))
  BY <1>2 DEF at
<1> QED
  BY <1>1, <1>2

(* A byte of the buffer is replaced.                                       *)
ReplacedAt(u, v, i, b) ==
  /\ u \in Seq(Nat) /\ Len(u) = Len(v)
  /\ i \in 1 .. Len(v) => u[i] = b
  /\ \A k \in 1 .. Len(v) : k # i => u[k] = v[k]

(* It is EXCEPT.                                                           *)
LEMMA Replaced ==
  ASSUME NEW v \in Seq(Nat), NEW i \in Nat, NEW b \in Nat, NEW u, u = [v EXCEPT ![i] = b]
  PROVE  ReplacedAt(u, v, i, b)
<1>1. CASE i \in 1 .. Len(v)
  <2>1. /\ u \in Seq(Nat) /\ Len(u) = Len(v)
        /\ \A j \in 1 .. Len(v) : u[j] = IF j = i THEN b ELSE v[j]
    BY <1>1, ExceptSeq
  <2> QED
    BY <2>1 DEF ReplacedAt
<1>2. CASE i \notin 1 .. Len(v)
  <2>1. u = v
    <3>1. v \in [1 .. Len(v) -> Nat] /\ i \notin DOMAIN v
      BY <1>2, LenProperties
    <3> QED
      BY <3>1
  <2> QED
    BY <1>2, <2>1 DEF ReplacedAt
<1> QED
  BY <1>1, <1>2

(* The byte that is stored.                                                *)
Stored(d) ==
  LET b == at(d.buffer, d.block)
  IN IF (d.blockModif \div d.mask) % 2 = 1 /\ b < 128 THEN b + 128 ELSE b

(* It is a number.                                                         *)
LEMMA StoredType == ASSUME NEW d \in DecStates PROVE Stored(d) \in Nat
<1> DEFINE b == at(d.buffer, d.block)
<1>1. b \in Nat
  BY AtType DEF DecStates
<1> HIDE DEF b
<1>2. b + 128 \in Nat
  BY <1>1
<1> QED
  BY <1>1, <1>2 DEF Stored, b

(* What is behind the bytes that are decoded, and what is not.             *)
DecStep(d, e) ==
  IF d.dlen <= 0 THEN e = d
  ELSE /\ e.buffer = [d.buffer EXCEPT ![d.dest + 1] = Stored(d)]
       /\ e.dest = d.dest + 1
       /\ IF d.mask > 1
          THEN e.block = d.block + 1 /\ e.blockModif = d.blockModif /\ e.mask = d.mask \div 2
               /\ e.dlen = d.dlen
          ELSE e.block = d.block + 2 /\ e.blockModif = at(e.buffer, d.block + 9) /\ e.mask = 64
               /\ e.dlen = d.dlen - 8

(* A step of the decoder has this effect.                                  *)
LEMMA DecodeByte ==
  ASSUME NEW d \in DecStates
  PROVE  decodeByte(d) \in DecStates /\ DecStep(d, decodeByte(d))
<1> DEFINE buf  == [d.buffer EXCEPT ![d.dest + 1] = Stored(d)]
           next == [buffer |-> buf, dest |-> d.dest + 1, block |-> d.block + 1,
                    blockModif |-> d.blockModif, mask |-> d.mask \div 2, dlen |-> d.dlen]
           last == [next EXCEPT !.block = @ + 1, !.blockModif = at(next.buffer, next.block + 8),
                                !.mask = 64, !.dlen = @ - 8]
<1>1. /\ d.buffer \in Seq(Nat) /\ d.dest \in Nat /\ d.block \in Nat /\ d.blockModif \in Nat
      /\ d.mask \in Nat /\ d.dlen \in Int
  BY DEF DecStates
<1>2. Stored(d) \in Nat
  BY StoredType
<1>3. decodeByte(d) = IF d.dlen <= 0 THEN d ELSE IF d.mask > 1 THEN next ELSE last
  BY DEF decodeByte, Stored
<1>4. buf \in Seq(Nat) /\ d.dest + 1 \in Nat /\ d.block + 1 \in Nat /\ d.mask \div 2 \in Nat
  <2>1. d.dest + 1 \in Nat /\ d.block + 1 \in Nat /\ d.mask \div 2 \in Nat
    BY <1>1
  <2> QED
    BY <1>1, <1>2, <2>1, Replaced DEF ReplacedAt
<1> HIDE DEF buf
<1>5. /\ next \in DecStates
      /\ next.buffer = buf /\ next.dest = d.dest + 1 /\ next.block = d.block + 1
      /\ next.blockModif = d.blockModif /\ next.mask = d.mask \div 2 /\ next.dlen = d.dlen
  BY <1>1, <1>4 DEF DecStates
<1> HIDE DEF next
<1> DEFINE modif == at(next.buffer, next.block + 8)
<1>6. modif \in Nat /\ modif = at(buf, d.block + 9)
  <2> DEFINE i == next.block + 8
  <2>1. i \in Nat /\ i = d.block + 9
    <3>1. d.block \in Nat
      BY <1>1
    <3>2. next.block = d.block + 1
      BY <1>5
    <3> QED
      BY <3>1, <3>2
  <2> HIDE DEF i
  <2>2. at(buf, i) \in Nat
    BY <1>4, <2>1, AtType
  <2> QED
    BY <1>5, <2>1, <2>2 DEF i
<1> HIDE DEF modif
<1>7. last = [next EXCEPT !.block = @ + 1, !.blockModif = modif, !.mask = 64, !.dlen = @ - 8]
  BY DEF modif
<1>8. /\ last \in DecStates
      /\ last.buffer = next.buffer /\ last.dest = next.dest /\ last.block = next.block + 1
      /\ last.blockModif = modif /\ last.mask = 64 /\ last.dlen = next.dlen - 8
  <2> DEFINE blk == next.block + 1
             len == next.dlen - 8
  <2>1. blk \in Nat /\ len \in Int
    <3>1. next.block \in Nat /\ next.dlen \in Int
      BY <1>5 DEF DecStates
    <3> QED
      BY <3>1
  <2>2. last = [next EXCEPT !.block = blk, !.blockModif = modif, !.mask = 64, !.dlen = len]
    BY <1>7
  <2> HIDE DEF blk, len
  <2>3. last = [next EXCEPT !.block = blk, !.blockModif = modif, !.mask = 64, !.dlen = len]
    BY <2>2
  <2> HIDE DEF last
  <2>4. 64 \in Nat
    OBVIOUS
  <2>5. last \in DecStates
    BY <1>5, <1>6, <2>1, <2>3, <2>4 DEF DecStates
  <2>6. /\ last.buffer = next.buffer /\ last.dest = next.dest /\ last.block = blk
        /\ last.blockModif = modif /\ last.mask = 64 /\ last.dlen = len
    BY <1>5, <2>3 DEF DecStates
  <2> QED
    BY <2>5, <2>6 DEF blk, len
<1> HIDE DEF last
<1>9. CASE d.dlen <= 0
  BY <1>3, <1>9 DEF DecStep
<1>10. CASE ~(d.dlen <= 0) /\ d.mask > 1
  <2>1. decodeByte(d) = next
    BY <1>3, <1>10
  <2>2. DecStep(d, next)
    BY <1>5, <1>10 DEF DecStep, buf
  <2> QED
    BY <1>5, <2>1, <2>2
<1>11. CASE ~(d.dlen <= 0) /\ ~(d.mask > 1)
  <2>1. decodeByte(d) = last
    BY <1>3, <1>11
  <2>2. last.block = d.block + 2
    BY <1>1, <1>5, <1>8
  <2>3. DecStep(d, last)
    BY <1>5, <1>6, <1>8, <1>11, <2>2 DEF DecStep, buf
  <2> QED
    BY <1>8, <2>1, <2>3
<1> QED
  BY <1>9, <1>10, <1>11

(* The states the decoder runs through.                                    *)
DecStart(buffer) ==
  [buffer |-> buffer, dest |-> 0, block |-> 0, blockModif |-> at(buffer, 7),
   mask |-> 64, dlen |-> Len(buffer)]

(* It starts in a state of its own.                                        *)
LEMMA StartType ==
  ASSUME NEW buffer \in Seq(Nat)
  PROVE  DecStart(buffer) \in DecStates
<1>1. at(buffer, 7) \in Nat /\ Len(buffer) \in Int
  BY AtType
<1> QED
  BY <1>1 DEF DecStart, DecStates

Decodes(w, buffer) ==
  w[0] = DecStart(buffer) /\ \A i \in 1 .. Len(buffer) : w[i] = decodeByte(w[i - 1])

(* There are such states, and the buffer of the last one is the result.    *)
LEMMA Decoding ==
  ASSUME NEW buffer \in Seq(Nat)
  PROVE  \E w : Decodes(w, buffer) /\ decode(buffer) = w[Len(buffer)].buffer
<1> DEFINE n == Len(buffer)
           V == DecStates
           b == DecStart(buffer)
           Step(x) == decodeByte(x)
           g == [x \in (1 .. n) \X V |-> Step(x[2])]
           Def(w) == [i \in 0 .. n |-> IF i = 0 THEN b ELSE Step(w[i - 1])]
           e == CHOOSE w : w = Def(w)
<1>1. n \in Nat /\ b \in V
  BY StartType
<1>2. ASSUME NEW x \in V PROVE Step(x) \in V
  BY DecodeByte
<1>3. g \in StepsIn(n, V)
  <2> HIDE DEF n, V, Step
  <2> QED
    BY <1>2 DEF StepsIn
<1>4. PICK v \in [0 .. n -> V] : RunsThrough(v, n, b, g)
  <2> HIDE DEF n, V, b, g
  <2> QED
    BY <1>1, <1>3, Recursion
<1>5. ASSUME NEW i \in 1 .. n PROVE v[i] = Step(v[i - 1])
  <2> HIDE DEF n, V, b, Step
  <2>1. i - 1 \in 0 .. n
    BY <1>1
  <2>2. <<i, v[i - 1]>> \in (1 .. n) \X V
    BY <2>1
  <2>3. g[<<i, v[i - 1]>>] = Step(v[i - 1])
    BY <2>2
  <2> QED
    BY <1>4, <2>3 DEF RunsThrough
<1>6. v = Def(v)
  <2>1. v = [i \in 0 .. n |-> v[i]]
    OBVIOUS
  <2>2. \A i \in 0 .. n : v[i] = IF i = 0 THEN b ELSE Step(v[i - 1])
    <3> HIDE DEF n, V, b, g, Step
    <3>1. v[0] = b
      BY <1>4, Zenon DEF RunsThrough
    <3>2. ASSUME NEW i \in 0 .. n, i # 0 PROVE v[i] = Step(v[i - 1])
      <4>1. i \in 1 .. n
        BY <1>1, <3>2
      <4> QED
        BY <4>1, <1>5
    <3> QED
      BY <3>1, <3>2
  <2> HIDE DEF n, V, b, g, Step
  <2> QED
    BY <2>1, <2>2
<1>7. e = Def(e)
  <2> HIDE DEF n, V, b, g, Step
  <2> QED
    BY <1>6
<1>8. decode(buffer) = e[n].buffer
  BY DEF decode, DecStart
<1> HIDE DEF n, V, b, g, e, Step
<1>9. e[0] = b /\ \A i \in 1 .. n : e[i] = Step(e[i - 1])
  BY <1>1, <1>7
<1> QED
  BY <1>8, <1>9 DEF n, b, Step, Decodes

(* A byte is as it was before it was encoded.                              *)
Restored(modif, t, b) == IF (modif \div Mask(t)) % 2 = 1 /\ b < 128 THEN b + 128 ELSE b

(* b is the byte t of the chunk.                                           *)
ByteIn(w, p, c, s, k, t, b) ==
  /\ p \in Nat /\ s \in Nat /\ t \in 0 .. 6 /\ t < k
  /\ Chunk(w, p, c, s, k) /\ s + t + 1 <= Len(c) /\ b = w[p + t + 1]

(* Then it is decoded to what it was.                                      *)
LEMMA DecodedByte ==
  ASSUME NEW c \in Bytes, NEW w, NEW p, NEW s, NEW k, NEW t, NEW b, ByteIn(w, p, c, s, k, t, b)
  PROVE  Restored(w[p + 8], t, b) = c[s + t + 1]
<1> USE DEF ByteIn
<1> DEFINE x == c[s + t + 1]
           a == High(c, s, k)
<1>1. x \in 0 .. 255
  <2>1. s + t + 1 \in 1 .. Len(c)
    OBVIOUS
  <2> QED
    BY <2>1, ByteAt
<1>2. b = x % 128
  BY DEF Chunk
<1>3. w[p + 8] = Escape(a)
  BY DEF Chunk
<1>4. a \in Bits
  BY HighType
<1>5. a[t] = 1 <=> x >= 128
  BY DEF High
<1> HIDE DEF x, a
<1>6. (w[p + 8] \div Mask(t)) % 2 = 1 <=> x >= 128
  BY <1>3, <1>4, <1>5, BitFound
<1>7. (IF x >= 128 /\ b < 128 THEN b + 128 ELSE b) = x
  BY <1>1, <1>2
<1> QED
  BY <1>6, <1>7 DEF x, Restored

(* The chunk that a byte of c is in.                                       *)
LEMMA ChunkOf ==
  ASSUME NEW c, NEW w, NEW q \in Nat, NEW r \in 0 .. 6, Wire(w, c, q, r), NEW j \in 0 .. q
  PROVE  \E k \in 0 .. 7 :
           Chunk(w, 8 * j, c, 7 * j, k) /\ \A t \in 0 .. 6 : 7 * j + t + 1 <= Len(c) <=> t < k
<1>1. Len(c) = 7 * q + r /\ ChunkAt(w, c, q, r)
  BY DEF Wire
<1>2. CASE j < q
  <2>1. Chunk(w, 8 * j, c, 7 * j, 7)
    BY <1>1, <1>2 DEF ChunkAt
  <2>2. \A t \in 0 .. 6 : 7 * j + t + 1 <= Len(c) <=> t < 7
    BY <1>1, <1>2
  <2> QED
    BY <2>1, <2>2
<1>3. CASE j = q
  <2>1. Chunk(w, 8 * j, c, 7 * j, r)
    BY <1>1, <1>3 DEF ChunkAt
  <2>2. \A t \in 0 .. 6 : 7 * j + t + 1 <= Len(c) <=> t < r
    BY <1>1, <1>3
  <2> QED
    BY <2>1, <2>2
<1> QED
  BY <1>2, <1>3

(* The first n bytes of the buffer are those of c.                         *)
Prefix(v, c, n) == \A i \in 1 .. n : i <= Len(c) => v[i] = c[i]

(* Where the decoder is: in chunk j, behind t of its bytes; what it has    *)
(* not come to is not overwritten ...                                      *)
DecAt(d, w, c, q, j, t) ==
  /\ d \in DecStates /\ Len(d.buffer) = 8 * (q + 1)
  /\ d.dest = 7 * j + t /\ d.block = 8 * j + t /\ d.mask = Mask(t)
  /\ d.dlen = 8 * (q + 1 - j) /\ d.blockModif = w[8 * j + 8]
  /\ Prefix(d.buffer, c, 7 * j + t)
  /\ \A i \in 8 * j + t + 1 .. 8 * (q + 1) : d.buffer[i] = w[i]

(* ... or behind all of them.                                              *)
DecDone(d, c, q) ==
  d \in DecStates /\ Len(d.buffer) = 8 * (q + 1) /\ d.dlen = 0 /\ Prefix(d.buffer, c, Len(c))

(* The buffer after a step.                                                *)
Stepped(e, d, w, c, q, j, t) ==
  /\ Len(e.buffer) = 8 * (q + 1)
  /\ Prefix(e.buffer, c, 7 * j + t + 1)
  /\ \A i \in 8 * j + t + 2 .. 8 * (q + 1) : e.buffer[i] = w[i]

(* A step has this effect on the buffer.                                   *)
LEMMA BufferStep ==
  ASSUME NEW c \in Bytes, NEW w, NEW q \in Nat, NEW r \in 0 .. 6, Wire(w, c, q, r),
         NEW j \in 0 .. q, NEW t \in 0 .. 6, NEW d, DecAt(d, w, c, q, j, t), NEW e,
         e.buffer = [d.buffer EXCEPT ![d.dest + 1] = Stored(d)]
  PROVE  Stepped(e, d, w, c, q, j, t)
<1> DEFINE v == d.buffer
           x == 7 * j + t + 1
           y == 8 * j + t + 1
           n == 8 * (q + 1)
           s == Stored(d)
<1>1. /\ d \in DecStates /\ v \in Seq(Nat) /\ Len(v) = n /\ d.dest + 1 = x /\ d.block + 1 = y
      /\ d.block \in Nat /\ d.block < n
      /\ x \in 1 .. n /\ y \in 1 .. n /\ x <= y /\ x \in Nat
  <2>1. d \in DecStates /\ Len(v) = n /\ d.dest = 7 * j + t /\ d.block = 8 * j + t
    BY DEF DecAt
  <2>2. v \in Seq(Nat)
    BY <2>1 DEF DecStates
  <2>3. d.dest + 1 = x /\ d.block + 1 = y /\ d.block \in Nat /\ d.block < n
    BY <2>1
  <2>4. x \in 1 .. n /\ y \in 1 .. n /\ x <= y /\ x \in Nat
    OBVIOUS
  <2> QED
    BY <2>1, <2>2, <2>3, <2>4
<1>2. \A i \in y .. n : v[i] = w[i]
  BY DEF DecAt
<1>3. Prefix(v, c, x - 1)
  <2>1. x - 1 = 7 * j + t
    OBVIOUS
  <2>2. Prefix(v, c, 7 * j + t)
    BY DEF DecAt
  <2> HIDE DEF v, x
  <2> QED
    BY <2>1, <2>2
<1>4. s \in Nat
  BY <1>1, StoredType
<1>5. x <= Len(c) => s = c[x]
  <2> HAVE x <= Len(c)
  <2> DEFINE b == at(v, d.block)
  <2>1. b = v[y]
    <3> HIDE DEF v, y, n
    <3>1. b = v[d.block + 1]
      BY <1>1, AtType
    <3> QED
      BY <1>1, <3>1
  <2>2. b = w[y]
    <3>1. y \in y .. n
      BY <1>1
    <3> HIDE DEF v, y, n, b
    <3> QED
      BY <1>2, <2>1, <3>1
  <2>3. PICK k \in 0 .. 7 :
          Chunk(w, 8 * j, c, 7 * j, k) /\ \A u \in 0 .. 6 : 7 * j + u + 1 <= Len(c) <=> u < k
    BY ChunkOf
  <2>4. t < k
    BY <2>3
  <2>5. s = Restored(w[8 * j + 8], t, b)
    BY DEF Stored, DecAt, Restored
  <2> HIDE DEF b, s
  <2>6. 7 * j \in Nat /\ 8 * j \in Nat
    OBVIOUS
  <2>7. Restored(w[8 * j + 8], t, b) = c[7 * j + t + 1]
    <3> DEFINE p == 8 * j
               m == 7 * j
    <3>1. ByteIn(w, p, c, m, k, t, b)
      BY <2>2, <2>3, <2>4, <2>6 DEF ByteIn
    <3>2. Restored(w[p + 8], t, b) = c[m + t + 1]
      <4> HIDE DEF p, m
      <4> QED
        BY <3>1, DecodedByte
    <3> QED
      BY <3>2 DEF p, m
  <2> QED
    BY <2>5, <2>7
<1>6. e.buffer = [v EXCEPT ![x] = s]
  BY <1>1
<1> HIDE DEF v, n, s
<1>7. /\ e.buffer \in Seq(Nat) /\ Len(e.buffer) = n
      /\ e.buffer[x] = s
      /\ \A k \in 1 .. n : k # x => e.buffer[k] = v[k]
  <2> HIDE DEF x, y
  <2>1. ReplacedAt(e.buffer, v, x, s)
    BY <1>1, <1>4, <1>6, Replaced
  <2> QED
    BY <1>1, <2>1 DEF ReplacedAt
<1>8. Prefix(e.buffer, c, x)
  <2> SUFFICES ASSUME NEW i \in 1 .. x, i <= Len(c) PROVE e.buffer[i] = c[i]
    BY DEF Prefix
  <2> HIDE DEF x, y
  <2>1. CASE i = x
    BY <1>5, <1>7, <2>1
  <2>2. CASE i # x
    <3>1. i \in 1 .. x - 1 /\ i \in 1 .. n
      BY <1>1, <2>2
    <3>2. v[i] = c[i]
      BY <1>3, <3>1 DEF Prefix
    <3>3. e.buffer[i] = v[i]
      BY <1>7, <2>2, <3>1
    <3> QED
      BY <3>2, <3>3
  <2> QED
    BY <2>1, <2>2
<1>9. \A i \in y + 1 .. n : e.buffer[i] = w[i]
  <2> HIDE DEF x, y
  <2> TAKE i \in y + 1 .. n
  <2>1. i \in 1 .. n /\ i # x /\ i \in y .. n
    BY <1>1
  <2>2. e.buffer[i] = v[i]
    BY <1>7, <2>1
  <2>3. v[i] = w[i]
    BY <1>2, <2>1
  <2> QED
    BY <2>2, <2>3
<1>10. y + 1 = 8 * j + t + 2
  OBVIOUS
<1> HIDE DEF y
<1> QED
  BY <1>7, <1>8, <1>9, <1>10 DEF Stepped, x, n

(* A step goes on in the chunk, or to the next one, or to the end.         *)
LEMMA DecStepAt ==
  ASSUME NEW c \in Bytes, NEW w, NEW q \in Nat, NEW r \in 0 .. 6, Wire(w, c, q, r),
         NEW j \in 0 .. q, NEW t \in 0 .. 6, NEW d, DecAt(d, w, c, q, j, t), NEW e,
         e \in DecStates, DecStep(d, e)
  PROVE  /\ t < 6 => DecAt(e, w, c, q, j, t + 1)
         /\ t = 6 /\ j < q => DecAt(e, w, c, q, j + 1, 0)
         /\ t = 6 /\ j = q => DecDone(e, c, q)
<1>1. /\ d \in DecStates /\ d.dest = 7 * j + t /\ d.block = 8 * j + t /\ d.mask = Mask(t)
      /\ d.dlen = 8 * (q + 1 - j) /\ d.blockModif = w[8 * j + 8]
  BY DEF DecAt
<1>2. ~(d.dlen <= 0)
  BY <1>1
<1>3. /\ e.buffer = [d.buffer EXCEPT ![d.dest + 1] = Stored(d)]
      /\ e.dest = 7 * j + t + 1
      /\ IF d.mask > 1
         THEN e.block = d.block + 1 /\ e.blockModif = d.blockModif /\ e.mask = d.mask \div 2
              /\ e.dlen = d.dlen
         ELSE e.block = d.block + 2 /\ e.blockModif = at(e.buffer, d.block + 9) /\ e.mask = 64
              /\ e.dlen = d.dlen - 8
  BY <1>1, <1>2 DEF DecStep
<1>4. /\ Len(e.buffer) = 8 * (q + 1)
      /\ Prefix(e.buffer, c, 7 * j + t + 1)
      /\ \A i \in 8 * j + t + 2 .. 8 * (q + 1) : e.buffer[i] = w[i]
  <2>1. e.buffer = [d.buffer EXCEPT ![d.dest + 1] = Stored(d)]
    BY <1>3
  <2>2. Stepped(e, d, w, c, q, j, t)
    BY <2>1, BufferStep
  <2> QED
    BY <2>2 DEF Stepped
<1>5. CASE t < 6
  <2>1. d.mask > 1 /\ d.mask \div 2 = Mask(t + 1)
    BY <1>1, <1>5 DEF Mask
  <2>2. /\ e.dest = 7 * j + (t + 1) /\ e.block = 8 * j + (t + 1) /\ e.mask = Mask(t + 1)
        /\ e.dlen = 8 * (q + 1 - j) /\ e.blockModif = w[8 * j + 8]
    BY <1>1, <1>3, <2>1
  <2>3. Prefix(e.buffer, c, 7 * j + (t + 1))
    <3>1. 7 * j + t + 1 = 7 * j + (t + 1)
      OBVIOUS
    <3> QED
      BY <1>4, <3>1
  <2>4. \A i \in 8 * j + (t + 1) + 1 .. 8 * (q + 1) : e.buffer[i] = w[i]
    <3>1. 8 * j + t + 2 = 8 * j + (t + 1) + 1
      OBVIOUS
    <3> QED
      BY <1>4, <3>1
  <2> QED
    BY <1>4, <1>5, <2>2, <2>3, <2>4 DEF DecAt
<1>6. CASE t = 6
  <2>1. ~(d.mask > 1)
    BY <1>1, <1>6 DEF Mask
  <2>2. /\ e.dest = 7 * (j + 1) /\ e.block = 8 * (j + 1) /\ e.mask = 64
        /\ e.dlen = 8 * (q + 1 - (j + 1)) /\ e.blockModif = at(e.buffer, 8 * j + 15)
    <3>1. d.block + 9 = 8 * j + 15 /\ d.block + 2 = 8 * (j + 1)
      BY <1>1, <1>6
    <3>2. 7 * j + t + 1 = 7 * (j + 1) /\ d.dlen - 8 = 8 * (q + 1 - (j + 1))
      BY <1>1, <1>6
    <3> QED
      BY <1>3, <2>1, <3>1, <3>2
  <2>3. Prefix(e.buffer, c, 7 * (j + 1))
    <3>1. 7 * j + t + 1 = 7 * (j + 1)
      BY <1>6
    <3> QED
      BY <1>4, <3>1
  <2>4. CASE j < q
    <3>1. 64 = Mask(0)
      BY DEF Mask
    <3>2. e.buffer \in Seq(Nat)
      BY DEF DecStates
    <3> DEFINE i == 8 * j + 15
               v == e.buffer
    <3>3. i \in Nat /\ i < Len(v) /\ i + 1 = 8 * (j + 1) + 8 /\ i + 1 \in 8 * j + t + 2 .. 8 * (q + 1)
      BY <1>4, <1>6, <2>4
    <3>4. at(v, i) = w[8 * (j + 1) + 8]
      <4> HIDE DEF i, v
      <4>1. at(v, i) = v[i + 1]
        BY <3>2, <3>3, AtType DEF v
      <4>2. v[i + 1] = w[i + 1]
        BY <1>4, <3>3 DEF v
      <4> QED
        BY <3>3, <4>1, <4>2
    <3>5. \A k \in 8 * (j + 1) + 0 + 1 .. 8 * (q + 1) : e.buffer[k] = w[k]
      <4>1. 8 * j + t + 2 <= 8 * (j + 1) + 0 + 1
        BY <1>6
      <4> QED
        BY <1>4, <4>1
    <3>6. 7 * (j + 1) + 0 = 7 * (j + 1) /\ 8 * (j + 1) + 0 = 8 * (j + 1)
      OBVIOUS
    <3>7. Prefix(e.buffer, c, 7 * (j + 1) + 0)
      BY <2>3, <3>6
    <3>8. /\ e.dest = 7 * (j + 1) + 0 /\ e.block = 8 * (j + 1) + 0 /\ e.mask = Mask(0)
          /\ e.blockModif = w[8 * (j + 1) + 8]
      BY <2>2, <3>1, <3>4, <3>6
    <3>9. e.dlen = 8 * (q + 1 - (j + 1)) /\ Len(e.buffer) = 8 * (q + 1)
      BY <1>4, <2>2
    <3>10. DecAt(e, w, c, q, j + 1, 0)
      BY <3>5, <3>7, <3>8, <3>9 DEF DecAt
    <3> QED
      BY <1>6, <2>4, <3>10
  <2>5. CASE j = q
    <3>1. e.dlen = 0
      BY <2>2, <2>5
    <3>2. Len(c) = 7 * q + r
      BY DEF Wire
    <3>3. Prefix(e.buffer, c, Len(c))
      <4>1. \A i \in 1 .. Len(c) : i \in 1 .. 7 * (j + 1)
        BY <2>5, <3>2
      <4> QED
        BY <2>3, <4>1 DEF Prefix
    <3> QED
      BY <1>4, <1>6, <2>5, <3>1, <3>3 DEF DecDone
  <2> QED
    BY <1>6, <2>4, <2>5
<1> QED
  BY <1>5, <1>6

(* Where the decoder is after i steps.                                     *)
DecUpto(d, w, c, q, i) ==
  \/ \E j \in 0 .. q, t \in 0 .. 6 : i = 7 * j + t /\ DecAt(d, w, c, q, j, t)
  \/ i >= 7 * (q + 1) /\ DecDone(d, c, q)

(* The same for one more step, also behind the end.                        *)
LEMMA DecUptoStep ==
  ASSUME NEW c \in Bytes, NEW w, NEW q \in Nat, NEW r \in 0 .. 6, Wire(w, c, q, r),
         NEW i \in Nat, NEW d, DecUpto(d, w, c, q, i)
  PROVE  DecUpto(decodeByte(d), w, c, q, i + 1)
<1> DEFINE e == decodeByte(d)
<1>1. d \in DecStates
  BY DEF DecUpto, DecAt, DecDone
<1>2. e \in DecStates /\ DecStep(d, e)
  BY <1>1, DecodeByte
<1> HIDE DEF e
<1>3. ASSUME NEW j \in 0 .. q, NEW t \in 0 .. 6, i = 7 * j + t, DecAt(d, w, c, q, j, t)
      PROVE  DecUpto(e, w, c, q, i + 1)
  <2>1. /\ t < 6 => DecAt(e, w, c, q, j, t + 1)
        /\ t = 6 /\ j < q => DecAt(e, w, c, q, j + 1, 0)
        /\ t = 6 /\ j = q => DecDone(e, c, q)
    BY <1>2, <1>3, DecStepAt
  <2>2. CASE t < 6
    <3>1. t + 1 \in 0 .. 6 /\ i + 1 = 7 * j + (t + 1)
      BY <1>3, <2>2
    <3> QED
      BY <2>1, <2>2, <3>1 DEF DecUpto
  <2>3. CASE t = 6 /\ j < q
    <3>1. j + 1 \in 0 .. q /\ 0 \in 0 .. 6 /\ i + 1 = 7 * (j + 1) + 0
      BY <1>3, <2>3
    <3> QED
      BY <2>1, <2>3, <3>1 DEF DecUpto
  <2>4. CASE t = 6 /\ j = q
    <3>1. i + 1 >= 7 * (q + 1)
      BY <1>3, <2>4
    <3> QED
      BY <2>1, <2>4, <3>1 DEF DecUpto
  <2> QED
    BY <2>2, <2>3, <2>4
<1>4. ASSUME i >= 7 * (q + 1), DecDone(d, c, q) PROVE DecUpto(e, w, c, q, i + 1)
  <2>1. e = d
    BY <1>2, <1>4 DEF DecStep, DecDone
  <2>2. i + 1 >= 7 * (q + 1)
    BY <1>4
  <2> QED
    BY <1>4, <2>1, <2>2 DEF DecUpto
<1> QED
  BY <1>3, <1>4 DEF DecUpto, e

(* The packet is in the buffer.                                            *)
Holds(buffer, c) == \A i \in 1 .. Len(c) : buffer[i] = c[i]

(* At the end the decoder has all of c in the buffer (by induction).       *)
LEMMA DecodedWire ==
  ASSUME NEW c \in Bytes, NEW w, NEW q \in Nat, NEW r \in 0 .. 6, Wire(w, c, q, r)
  PROVE  decode(w) \in Seq(Nat) /\ Len(decode(w)) >= Len(c) /\ Holds(decode(w), c)
<1> DEFINE n == 8 * (q + 1)
<1>1. w \in Seq(Nat) /\ Len(w) = n
  BY DEF Wire, ChunkAt
<1>2. PICK v : Decodes(v, w) /\ decode(w) = v[n].buffer
  <2> HIDE DEF n
  <2> QED
    BY <1>1, Decoding
<1> DEFINE T == {i \in 0 .. n : DecUpto(v[i], w, c, q, i)}
<1>3. 0 \in T
  <2> DEFINE d == DecStart(w)
  <2>1. d \in DecStates
    BY <1>1, StartType
  <2>2. /\ d.buffer = w /\ d.dest = 0 /\ d.block = 0 /\ d.blockModif = at(w, 7) /\ d.mask = 64
        /\ d.dlen = n
    BY <1>1 DEF DecStart
  <2> HIDE DEF d
  <2>3. at(w, 7) = w[8 * 0 + 8]
    <3>1. 7 < Len(w) /\ 7 + 1 = 8 * 0 + 8
      BY <1>1
    <3> HIDE DEF n
    <3>2. at(w, 7) = w[7 + 1]
      BY <1>1, <3>1, AtType
    <3> QED
      BY <3>1, <3>2
  <2>4. Mask(0) = 64
    BY DEF Mask
  <2>5. Prefix(d.buffer, c, 7 * 0 + 0)
    BY DEF Prefix
  <2>6. DecAt(d, w, c, q, 0, 0)
    <3>1. 7 * 0 + 0 = 0 /\ 8 * 0 + 0 = 0 /\ n = 8 * (q + 1 - 0)
      OBVIOUS
    <3> QED
      BY <1>1, <2>1, <2>2, <2>3, <2>4, <2>5, <3>1 DEF DecAt
  <2>7. DecUpto(d, w, c, q, 0)
    <3>1. 0 \in 0 .. q /\ 0 \in 0 .. 6 /\ 0 = 7 * 0 + 0
      OBVIOUS
    <3> QED
      BY <2>6, <3>1 DEF DecUpto
  <2>8. v[0] = d
    BY <1>2 DEF Decodes, d
  <2> QED
    BY <2>7, <2>8
<1>4. ASSUME NEW i \in 0 .. n - 1, i \in T PROVE i + 1 \in T
  <2>1. i \in Nat /\ i + 1 \in 1 .. n /\ (i + 1) - 1 = i /\ i + 1 \in 0 .. n
    OBVIOUS
  <2>2. v[i + 1] = decodeByte(v[i])
    BY <1>1, <1>2, <2>1 DEF Decodes
  <2>3. DecUpto(decodeByte(v[i]), w, c, q, i + 1)
    BY <1>4, <2>1, DecUptoStep
  <2> QED
    BY <2>1, <2>2, <2>3
<1>5. DecUpto(v[n], w, c, q, n)
  <2> HIDE DEF T
  <2>1. n \in Nat
    OBVIOUS
  <2>2. \A i \in 0 .. n - 1 : i \in T => i + 1 \in T
    BY <1>4
  <2>3. \A i \in 0 .. n : i \in T
    <3> HIDE DEF n
    <3> QED
      BY <1>3, <2>1, <2>2, Inductive
  <2>4. n \in T
    BY <2>1, <2>3
  <2> QED
    BY <2>4 DEF T
<1>6. DecDone(v[n], c, q)
  <2>1. \A j \in 0 .. q, t \in 0 .. 6 : n # 7 * j + t
    OBVIOUS
  <2> QED
    BY <1>5, <2>1 DEF DecUpto
<1> DEFINE d == v[n]
           buffer == d.buffer
<1>7. decode(w) = buffer
  BY <1>2
<1>8. DecDone(d, c, q)
  BY <1>6
<1> HIDE DEF d
<1>9. buffer \in Seq(Nat) /\ Len(buffer) = 8 * (q + 1) /\ Prefix(buffer, c, Len(c))
  BY <1>8 DEF DecDone, DecStates
<1> HIDE DEF buffer
<1>10. Holds(buffer, c)
  BY <1>9 DEF Prefix, Holds
<1>11. Len(buffer) >= Len(c)
  <2>1. Len(c) = 7 * q + r
    BY DEF Wire
  <2> QED
    BY <1>9, <2>1
<1> QED
  BY <1>7, <1>9, <1>10, <1>11

-----------------------------------------------------------------------------
(* The binary mode: a byte more, or two.                                   *)
Escaped(x, u, b) ==
  /\ x \in Seq(Nat) /\ u \in Seq(Nat)
  /\ \A k \in 1 .. Len(u) : x[k] = u[k]
  /\ x[Len(u) + 1] = b
  /\ IF b = 255 THEN Len(x) = Len(u) + 2 /\ x[Len(u) + 2] = 255 ELSE Len(x) = Len(u) + 1

(* The binary mode writes a byte like this.                                *)
LEMMA WriteBinary ==
  ASSUME NEW u \in Seq(Nat), NEW b \in Nat
  PROVE  Escaped(writeBinary(u, b), u, b)
<1>1. CASE b = 255
  <2> DEFINE y == <<255, 255>>
             x == u \o y
  <2>1. y \in Seq(Nat) /\ Len(y) = 2 /\ y[1] = 255 /\ y[2] = 255 /\ Len(u) \in Nat
    OBVIOUS
  <2> HIDE DEF y
  <2>2. Joined(x, u, y)
    BY <2>1, Joining
  <2> HIDE DEF x
  <2>3. /\ x \in Seq(Nat) /\ Len(x) = Len(u) + 2
        /\ \A k \in 1 .. Len(u) : x[k] = u[k]
        /\ x[Len(u) + 1] = 255 /\ x[Len(u) + 2] = 255
    BY <2>1, <2>2 DEF Joined
  <2>4. writeBinary(u, b) = x
    BY <1>1 DEF writeBinary, x, y
  <2> QED
    BY <1>1, <2>3, <2>4 DEF Escaped
<1>2. CASE b # 255
  <2> DEFINE x == Append(u, b)
  <2>1. Grown(x, u, b)
    BY Growing
  <2>2. writeBinary(u, b) = x
    BY <1>2 DEF writeBinary
  <2> HIDE DEF x
  <2> QED
    BY <1>2, <2>1, <2>2 DEF Escaped, Grown
<1> QED
  BY <1>1, <1>2

Escapes(v, c) ==
  v[0] = <<>> /\ \A i \in 1 .. Len(c) : v[i] = writeBinary(v[i - 1], c[i])

(* There are such values, and the last one is the result.                  *)
LEMMA Escaping ==
  ASSUME NEW c \in Seq(Nat)
  PROVE  \E w : Escapes(w, c) /\ escaped(c) = w[Len(c)]
<1> DEFINE n == Len(c)
           V == Seq(Nat)
           b == <<>>
           Step(x, i) == writeBinary(x, c[i])
           g == [x \in (1 .. n) \X V |-> Step(x[2], x[1])]
           Def(w) == [i \in 0 .. n |-> IF i = 0 THEN b ELSE Step(w[i - 1], i)]
           e == CHOOSE w : w = Def(w)
<1>1. n \in Nat /\ b \in V
  BY EmptySeq
<1>2. ASSUME NEW i \in 1 .. n, NEW x \in V PROVE Step(x, i) \in V
  <2>1. c[i] \in Nat
    OBVIOUS
  <2>2. Escaped(Step(x, i), x, c[i])
    BY <2>1, WriteBinary
  <2> HIDE DEF Step
  <2> QED
    BY <2>2 DEF Escaped
<1>3. g \in StepsIn(n, V)
  <2> HIDE DEF n, V, Step
  <2> QED
    BY <1>2 DEF StepsIn
<1>4. PICK v \in [0 .. n -> V] : RunsThrough(v, n, b, g)
  <2> HIDE DEF n, V, b, g
  <2> QED
    BY <1>1, <1>3, Recursion
<1>5. ASSUME NEW i \in 1 .. n PROVE v[i] = Step(v[i - 1], i)
  <2> HIDE DEF n, V, b, Step
  <2>1. i - 1 \in 0 .. n
    BY <1>1
  <2>2. <<i, v[i - 1]>> \in (1 .. n) \X V
    BY <2>1
  <2>3. g[<<i, v[i - 1]>>] = Step(v[i - 1], i)
    BY <2>2
  <2> QED
    BY <1>4, <2>3 DEF RunsThrough
<1>6. v = Def(v)
  <2>1. v = [i \in 0 .. n |-> v[i]]
    OBVIOUS
  <2>2. \A i \in 0 .. n : v[i] = IF i = 0 THEN b ELSE Step(v[i - 1], i)
    <3> HIDE DEF n, V, b, g, Step
    <3>1. v[0] = b
      BY <1>4, Zenon DEF RunsThrough
    <3>2. ASSUME NEW i \in 0 .. n, i # 0 PROVE v[i] = Step(v[i - 1], i)
      <4>1. i \in 1 .. n
        BY <1>1, <3>2
      <4> QED
        BY <4>1, <1>5
    <3> QED
      BY <3>1, <3>2
  <2> HIDE DEF n, V, b, g, Step
  <2> QED
    BY <2>1, <2>2
<1>7. e = Def(e)
  <2> HIDE DEF n, V, b, g, Step
  <2> QED
    BY <1>6
<1>8. escaped(c) = e[n]
  BY DEF escaped
<1> HIDE DEF n, V, b, g, e, Step
<1>9. e[0] = b /\ \A i \in 1 .. n : e[i] = Step(e[i - 1], i)
  BY <1>1, <1>7
<1> QED
  BY <1>8, <1>9 DEF n, b, Step, Escapes

(* The connection of the device.                                           *)
TelnetStates == [out : Seq(Nat), esc : BOOLEAN]

(* y is x behind one more byte.                                            *)
Unescaped(y, x, b) ==
  /\ y \in TelnetStates
  /\ b = 255 /\ x.esc => y.out = x.out /\ ~y.esc
  /\ ~x.esc => y.out = Append(x.out, b) /\ (y.esc <=> b = 255)

(* The connection takes a byte like this.                                  *)
LEMMA UnescapeByte ==
  ASSUME NEW x \in TelnetStates, NEW b \in Nat
  PROVE  Unescaped(unescapeByte(x, b), x, b)
<1>1. x.out \in Seq(Nat) /\ Append(x.out, b) \in Seq(Nat)
  BY DEF TelnetStates
<1> DEFINE y == Append(x.out, b)
           z == b = 255
<1>2. z \in BOOLEAN /\ y \in Seq(Nat)
  BY <1>1
<1>3. unescapeByte(x, b) = IF z /\ x.esc THEN [out |-> x.out, esc |-> FALSE]
                           ELSE [out |-> y, esc |-> z]
  BY DEF unescapeByte
<1> HIDE DEF y, z
<1>4. CASE z /\ x.esc
  BY <1>1, <1>3, <1>4 DEF TelnetStates, z, Unescaped
<1>5. CASE ~(z /\ x.esc)
  <2> DEFINE e == unescapeByte(x, b)
  <2>1. e = [out |-> y, esc |-> z]
    BY <1>3, <1>5
  <2> HIDE DEF e
  <2>2. e \in TelnetStates
    BY <1>2, <2>1 DEF TelnetStates
  <2>3. e.out = y /\ e.esc = z
    BY <2>1, Zenon
  <2>4. ~(b = 255 /\ x.esc) /\ e.out = Append(x.out, b) /\ (e.esc <=> b = 255)
    BY <1>5, <2>3, Zenon DEF y, z
  <2> QED
    BY <2>2, <2>4, Zenon DEF e, Unescaped
<1> QED
  BY <1>4, <1>5

TelnetStart == [out |-> <<>>, esc |-> FALSE]

Unescapes(v, wire) ==
  v[0] = TelnetStart /\ \A i \in 1 .. Len(wire) : v[i] = unescapeByte(v[i - 1], wire[i])

(* There are such states, and the last one has the result.                 *)
LEMMA Unescaping ==
  ASSUME NEW c \in Seq(Nat)
  PROVE  \E w : Unescapes(w, c) /\ unescape(c) = w[Len(c)].out
<1> DEFINE n == Len(c)
           V == TelnetStates
           b == TelnetStart
           Step(x, i) == unescapeByte(x, c[i])
           g == [x \in (1 .. n) \X V |-> Step(x[2], x[1])]
           Def(w) == [i \in 0 .. n |-> IF i = 0 THEN b ELSE Step(w[i - 1], i)]
           e == CHOOSE w : w = Def(w)
<1>1. n \in Nat /\ b \in V
  BY EmptySeq DEF TelnetStart, TelnetStates
<1>2. ASSUME NEW i \in 1 .. n, NEW x \in V PROVE Step(x, i) \in V
  <2>1. c[i] \in Nat
    OBVIOUS
  <2> QED
    BY <2>1, UnescapeByte DEF Unescaped
<1>3. g \in StepsIn(n, V)
  <2> HIDE DEF n, V, Step
  <2> QED
    BY <1>2 DEF StepsIn
<1>4. PICK v \in [0 .. n -> V] : RunsThrough(v, n, b, g)
  <2> HIDE DEF n, V, b, g
  <2> QED
    BY <1>1, <1>3, Recursion
<1>5. ASSUME NEW i \in 1 .. n PROVE v[i] = Step(v[i - 1], i)
  <2> HIDE DEF n, V, b, Step
  <2>1. i - 1 \in 0 .. n
    BY <1>1
  <2>2. <<i, v[i - 1]>> \in (1 .. n) \X V
    BY <2>1
  <2>3. g[<<i, v[i - 1]>>] = Step(v[i - 1], i)
    BY <2>2
  <2> QED
    BY <1>4, <2>3 DEF RunsThrough
<1>6. v = Def(v)
  <2>1. v = [i \in 0 .. n |-> v[i]]
    OBVIOUS
  <2>2. \A i \in 0 .. n : v[i] = IF i = 0 THEN b ELSE Step(v[i - 1], i)
    <3> HIDE DEF n, V, b, g, Step
    <3>1. v[0] = b
      BY <1>4, Zenon DEF RunsThrough
    <3>2. ASSUME NEW i \in 0 .. n, i # 0 PROVE v[i] = Step(v[i - 1], i)
      <4>1. i \in 1 .. n
        BY <1>1, <3>2
      <4> QED
        BY <4>1, <1>5
    <3> QED
      BY <3>1, <3>2
  <2> HIDE DEF n, V, b, g, Step
  <2> QED
    BY <2>1, <2>2
<1>7. e = Def(e)
  <2> HIDE DEF n, V, b, g, Step
  <2> QED
    BY <1>6
<1>8. unescape(c) = e[n].out
  BY DEF unescape, TelnetStart
<1> HIDE DEF n, V, b, g, e, Step
<1>9. e[0] = b /\ \A i \in 1 .. n : e[i] = Step(e[i - 1], i)
  BY <1>1, <1>7
<1> QED
  BY <1>8, <1>9 DEF n, b, Step, Unescapes

(* The bytes that are written stay.                                        *)
Begins(u, w) ==
  /\ u \in Seq(Nat) /\ w \in Seq(Nat) /\ Len(u) <= Len(w)
  /\ \A k \in 1 .. Len(u) : w[k] = u[k]

(* It is transitive.                                                       *)
LEMMA BeginsOn ==
  ASSUME NEW u, NEW v, NEW w, Begins(u, v), Begins(v, w)
  PROVE  Begins(u, w)
<1>1. \A k \in 1 .. Len(u) : k \in 1 .. Len(v)
  BY DEF Begins
<1>2. Len(u) <= Len(w)
  BY DEF Begins
<1> QED
  BY <1>1, <1>2 DEF Begins

(* So does each step of the binary mode.                                   *)
LEMMA EscapedBegins ==
  ASSUME NEW x, NEW u, NEW b, Escaped(x, u, b)
  PROVE  Begins(u, x)
<1>1. Len(u) <= Len(x)
  BY DEF Escaped
<1> QED
  BY <1>1 DEF Escaped, Begins

(* What is written first stays to the end (by induction).                  *)
LEMMA EscapesGrow ==
  ASSUME NEW c \in Seq(Nat), NEW v, Escapes(v, c)
  PROVE  \A i \in 0 .. Len(c) : v[i] \in Seq(Nat) /\ \A h \in 0 .. i : Begins(v[h], v[i])
<1> DEFINE n == Len(c)
           P(i) == v[i] \in Seq(Nat) /\ \A h \in 0 .. i : Begins(v[h], v[i])
           T == {i \in 0 .. n : P(i)}
<1>1. n \in Nat
  OBVIOUS
<1>2. 0 \in T
  <2>1. v[0] = <<>> /\ v[0] \in Seq(Nat)
    BY EmptySeq DEF Escapes
  <2>2. Begins(v[0], v[0])
    BY <2>1 DEF Begins
  <2>3. \A h \in 0 .. 0 : h = 0
    OBVIOUS
  <2>4. P(0)
    BY <2>1, <2>2, <2>3
  <2>5. 0 \in 0 .. n
    BY <1>1
  <2> HIDE DEF P, n
  <2> QED
    BY <2>4, <2>5
<1>3. ASSUME NEW i \in 0 .. n - 1, i \in T PROVE i + 1 \in T
  <2>1. i + 1 \in 1 .. n /\ (i + 1) - 1 = i /\ i + 1 \in 0 .. n
    BY <1>1
  <2>2. v[i + 1] = writeBinary(v[i], c[i + 1]) /\ c[i + 1] \in Nat
    BY <2>1 DEF Escapes
  <2>3. P(i)
    BY <1>3
  <2>4. Escaped(v[i + 1], v[i], c[i + 1])
    BY <2>2, <2>3, WriteBinary
  <2>5. v[i + 1] \in Seq(Nat) /\ Begins(v[i], v[i + 1])
    <3>1. Begins(v[i], v[i + 1])
      BY <2>4, EscapedBegins
    <3> QED
      BY <3>1 DEF Begins
  <2>6. Begins(v[i + 1], v[i + 1])
    BY <2>5 DEF Begins
  <2>7. ASSUME NEW h \in 0 .. i + 1 PROVE Begins(v[h], v[i + 1])
    <3>1. CASE h = i + 1
      BY <2>6, <3>1
    <3>2. CASE h # i + 1
      <4>1. h \in 0 .. i
        BY <3>2
      <4>2. Begins(v[h], v[i])
        BY <2>3, <4>1
      <4> QED
        BY <2>5, <4>2, BeginsOn
    <3> QED
      BY <3>1, <3>2
  <2> QED
    BY <2>1, <2>5, <2>7
<1>4. \A i \in 0 .. n - 1 : i \in T => i + 1 \in T
  BY <1>3
<1>5. \A i \in 0 .. n : i \in T
  <2> HIDE DEF T, n
  <2> QED
    BY <1>1, <1>2, <1>4, Inductive
<1> QED
  BY <1>5

(* The connection has taken i bytes of c from the line.                    *)
Taken(x, c, i) ==
  /\ x \in TelnetStates /\ ~x.esc /\ Len(x.out) = i
  /\ \A k \in 1 .. i : x.out[k] = c[k]

(* It takes the next one from one byte on the line, or from two.           *)
Takes(x, y, z, c, i) ==
  /\ i \in 0 .. Len(c) - 1 /\ Taken(x, c, i)
  /\ y = unescapeByte(x, c[i + 1])
  /\ c[i + 1] = 255 => z = unescapeByte(y, 255)

TakenNext(y, z, c, i) == Taken(IF c[i + 1] = 255 THEN z ELSE y, c, i + 1)

(* Then it has taken one more.                                             *)
LEMMA TakesByte ==
  ASSUME NEW c \in Seq(Nat), NEW i, NEW x, NEW y, NEW z, Takes(x, y, z, c, i)
  PROVE  TakenNext(y, z, c, i)
<1> USE DEF Takes, TakenNext
<1> DEFINE b == c[i + 1]
<1>1. b \in Nat
  <2>1. i + 1 \in 1 .. Len(c)
    OBVIOUS
  <2> QED
    BY <2>1
<1>2. x \in TelnetStates /\ ~x.esc
  BY DEF Taken
<1> HIDE DEF b
<1>3. y \in TelnetStates /\ y.out = Append(x.out, b) /\ (y.esc <=> b = 255)
  <2>1. y = unescapeByte(x, b)
    BY DEF b
  <2>2. Unescaped(y, x, b)
    BY <1>1, <1>2, <2>1, UnescapeByte
  <2> QED
    BY <1>2, <2>2, Zenon DEF Unescaped
<1>4. y.out \in Seq(Nat) /\ Len(y.out) = i + 1 /\ \A k \in 1 .. i + 1 : y.out[k] = c[k]
  <2>1. x.out \in Seq(Nat) /\ Len(x.out) = i /\ \A k \in 1 .. i : x.out[k] = c[k]
    BY DEF Taken, TelnetStates
  <2>2. Grown(y.out, x.out, b)
    BY <1>1, <1>3, <2>1, Growing
  <2>3. /\ y.out \in Seq(Nat) /\ Len(y.out) = i + 1 /\ y.out[i + 1] = c[i + 1]
        /\ \A k \in 1 .. i : y.out[k] = x.out[k]
    BY <2>1, <2>2 DEF Grown, b
  <2>4. ASSUME NEW k \in 1 .. i + 1 PROVE y.out[k] = c[k]
    <3>1. CASE k = i + 1
      BY <2>3, <3>1
    <3>2. CASE k # i + 1
      <4>1. k \in 1 .. i
        BY <3>2
      <4> QED
        BY <2>1, <2>3, <4>1
    <3> QED
      BY <3>1, <3>2
  <2> QED
    BY <2>3, <2>4
<1>5. CASE b = 255
  <2>1. z = unescapeByte(y, 255) /\ y.esc /\ 255 \in Nat
    BY <1>3, <1>5 DEF b
  <2>2. z \in TelnetStates /\ z.out = y.out /\ ~z.esc
    <3>1. Unescaped(z, y, 255)
      BY <1>3, <2>1, UnescapeByte
    <3> QED
      BY <2>1, <3>1, Zenon DEF Unescaped
  <2>3. Taken(z, c, i + 1)
    BY <1>4, <2>2 DEF Taken
  <2> QED
    BY <1>5, <2>3 DEF b
<1>6. CASE b # 255
  <2>1. Taken(y, c, i + 1)
    BY <1>3, <1>4, <1>6 DEF Taken
  <2> QED
    BY <1>6, <2>1 DEF b
<1> QED
  BY <1>5, <1>6

(* At the end it has taken all of c (by induction).                        *)
LEMMA UnescapedWire ==
  ASSUME NEW c \in Seq(Nat)
  PROVE  LET buffer == unescape(escaped(c))
         IN buffer \in Seq(Nat) /\ Len(buffer) = Len(c) /\ Holds(buffer, c)
<1> DEFINE n == Len(c)
<1>1. PICK v : Escapes(v, c) /\ escaped(c) = v[n]
  BY Escaping
<1> DEFINE w == v[n]
<1>2. n \in Nat /\ \A i \in 0 .. n : v[i] \in Seq(Nat) /\ \A h \in 0 .. i : Begins(v[h], v[i])
  BY <1>1, EscapesGrow
<1>3. w \in Seq(Nat) /\ \A i \in 0 .. n : Begins(v[i], w)
  <2> HIDE DEF n
  <2>1. n \in 0 .. n
    BY <1>2
  <2> QED
    BY <1>2, <2>1
<1>4. PICK s : Unescapes(s, w) /\ unescape(w) = s[Len(w)].out
  <2> HIDE DEF w
  <2> QED
    BY <1>3, Unescaping
<1> DEFINE T == {i \in 0 .. n : Taken(s[Len(v[i])], c, i)}
<1>5. 0 \in T
  <2>1. s[0] = TelnetStart /\ v[0] = <<>> /\ Len(v[0]) = 0
    BY <1>1, <1>4 DEF Unescapes, Escapes
  <2>2. Taken(TelnetStart, c, 0)
    BY EmptySeq DEF TelnetStart, TelnetStates, Taken
  <2> QED
    BY <1>2, <2>1, <2>2
<1>6. ASSUME NEW i \in 0 .. n - 1, i \in T PROVE i + 1 \in T
  <2> DEFINE m == Len(v[i])
             b == c[i + 1]
             x == v[i + 1]
  <2>1. i + 1 \in 1 .. n /\ (i + 1) - 1 = i /\ i + 1 \in 0 .. n /\ i \in 0 .. n
    BY <1>2
  <2>2. x = writeBinary(v[i], b) /\ b \in Nat
    BY <1>1, <2>1 DEF Escapes
  <2>3. v[i] \in Seq(Nat) /\ Begins(x, w) /\ m \in Nat
    BY <1>2, <1>3, <2>1
  <2>4. Escaped(x, v[i], b)
    BY <2>2, <2>3, WriteBinary
  <2>5. Taken(s[m], c, i)
    BY <1>6
  <2> HIDE DEF x, b, n, w, T
  <2>6. /\ x[m + 1] = b
        /\ IF b = 255 THEN Len(x) = m + 2 /\ x[m + 2] = 255 ELSE Len(x) = m + 1
    BY <2>4 DEF Escaped
  <2> HIDE DEF m
  <2>7. w[m + 1] = b /\ m + 1 \in 1 .. Len(w) /\ (b = 255 => w[m + 2] = 255 /\ m + 2 \in 1 .. Len(w))
    <3>1. m + 1 \in 1 .. Len(x) /\ (b = 255 => m + 2 \in 1 .. Len(x))
      BY <2>3, <2>6
    <3>2. Len(x) \in Nat /\ Len(w) \in Nat /\ Len(x) <= Len(w) /\ \A k \in 1 .. Len(x) : w[k] = x[k]
      BY <2>3 DEF Begins
    <3> QED
      BY <2>6, <3>1, <3>2
  <2>8. s[m + 1] = unescapeByte(s[m], b) /\ (b = 255 => s[m + 2] = unescapeByte(s[m + 1], 255))
    <3>1. (m + 1) - 1 = m /\ (m + 2) - 1 = m + 1
      BY <2>3
    <3> QED
      BY <1>4, <2>7, <3>1 DEF Unescapes
  <2>9. Taken(IF b = 255 THEN s[m + 2] ELSE s[m + 1], c, i + 1)
    <3>1. i \in 0 .. Len(c) - 1
      BY DEF n
    <3>2. s[m + 1] = unescapeByte(s[m], c[i + 1])
          /\ (c[i + 1] = 255 => s[m + 2] = unescapeByte(s[m + 1], 255))
      BY <2>8 DEF b
    <3>3. Takes(s[m], s[m + 1], s[m + 2], c, i)
      BY <2>5, <3>1, <3>2, Zenon DEF Takes
    <3>4. TakenNext(s[m + 1], s[m + 2], c, i)
      BY <3>3, TakesByte
    <3> QED
      BY <3>4 DEF b, TakenNext
  <2>10. s[Len(x)] = IF b = 255 THEN s[m + 2] ELSE s[m + 1]
    BY <2>6
  <2> QED
    BY <2>1, <2>9, <2>10 DEF T, x
<1>7. Taken(s[Len(w)], c, n)
  <2>1. \A i \in 0 .. n - 1 : i \in T => i + 1 \in T
    BY <1>6
  <2> HIDE DEF T, n
  <2>2. \A i \in 0 .. n : i \in T
    BY <1>2, <1>5, <2>1, Inductive
  <2>3. n \in T
    BY <1>2, <2>2
  <2> QED
    BY <2>3 DEF T
<1> DEFINE buffer == s[Len(w)].out
<1>8. buffer \in Seq(Nat) /\ Len(buffer) = n /\ \A i \in 1 .. n : buffer[i] = c[i]
  BY <1>7 DEF Taken, TelnetStates
<1>9. unescape(escaped(c)) = buffer
  BY <1>1, <1>4
<1> HIDE DEF buffer
<1> QED
  BY <1>8, <1>9 DEF Holds

-----------------------------------------------------------------------------
(* The packets.                                                            *)
Fields(n) == {f \in Bytes : Len(f) = n}

Packets ==
  [slot : Fields(2), userWord1 : Fields(4), userWord2 : Fields(4),
   data : {d \in Bytes : Len(d) <= MAX_PACKET_LEN}]

(* f is in v behind its first a bytes.                                     *)
Lies(v, a, f) == a + Len(f) <= Len(v) /\ \A i \in 1 .. Len(f) : v[a + i] = f[i]

SliceOf(v, a, f, m, n) ==
  /\ v \in Seq(Nat) /\ f \in Seq(Nat) /\ a \in Nat /\ Lies(v, a, f)
  /\ m = a + 1 /\ n = a + Len(f)

(* Then it is this part of v.                                              *)
LEMMA Slice ==
  ASSUME NEW v, NEW f, NEW a, NEW m, NEW n, SliceOf(v, a, f, m, n)
  PROVE  SubSeq(v, m, n) = f
<1> USE DEF SliceOf
<1> DEFINE g == SubSeq(v, m, n)
           l == Len(f)
<1>1. l \in Nat /\ Len(v) \in Nat /\ m \in Nat /\ n \in Nat
  OBVIOUS
<1>2. \A i \in m .. n : v[i] \in Nat
  <2> TAKE i \in m .. n
  <2>1. i \in 1 .. Len(v)
    BY <1>1 DEF Lies
  <2> QED
    BY <2>1
<1>3. g \in Seq(Nat) /\ Len(g) = l /\ \A i \in 1 .. l : g[i] = v[a + i]
  <2>1. /\ g \in Seq(Nat) /\ Len(g) = IF m <= n THEN n - m + 1 ELSE 0
        /\ \A i \in 1 .. n - m + 1 : g[i] = v[m + i - 1]
    BY <1>1, <1>2, SubSeqProperties
  <2> HIDE DEF g
  <2>2. (IF m <= n THEN n - m + 1 ELSE 0) = l /\ n - m + 1 = l
    BY <1>1
  <2>3. \A i \in 1 .. l : m + i - 1 = a + i
    BY <1>1
  <2> QED
    BY <2>1, <2>2, <2>3
<1> HIDE DEF g
<1>4. \A i \in 1 .. l : g[i] = f[i]
  BY <1>3 DEF Lies
<1>5. g = f
  BY <1>3, <1>4, SeqEqual
<1> QED
  BY <1>5 DEF g

(* Where the fields are.                                                   *)
LEMMA LiesInFront ==
  ASSUME NEW v \in Seq(Nat), NEW f \in Seq(Nat), NEW g \in Seq(Nat), NEW a \in Nat, Lies(v, a, f)
  PROVE  Lies(v \o g, a, f)
<1> DEFINE w == v \o g
<1>1. Joined(w, v, g)
  BY Joining
<1> HIDE DEF w
<1>2. Len(w) = Len(v) + Len(g) /\ Len(v) \in Nat /\ Len(g) \in Nat /\ Len(f) \in Nat
      /\ \A i \in 1 .. Len(v) : w[i] = v[i]
  BY <1>1 DEF Joined
<1>3. a + Len(f) <= Len(w)
  BY <1>2 DEF Lies
<1>4. ASSUME NEW i \in 1 .. Len(f) PROVE w[a + i] = f[i]
  <2>1. a + i \in 1 .. Len(v)
    BY <1>2 DEF Lies
  <2>2. v[a + i] = f[i]
    BY DEF Lies
  <2> QED
    BY <1>2, <2>1, <2>2
<1> QED
  BY <1>3, <1>4 DEF Lies, w

(* ... and what follows is behind what was there.                          *)
LEMMA LiesBehind ==
  ASSUME NEW v \in Seq(Nat), NEW f \in Seq(Nat)
  PROVE  v \o f \in Seq(Nat) /\ Len(v \o f) = Len(v) + Len(f) /\ Lies(v \o f, Len(v), f)
<1> DEFINE w == v \o f
<1>1. Joined(w, v, f)
  BY Joining
<1> HIDE DEF w
<1>2. w \in Seq(Nat) /\ Len(w) = Len(v) + Len(f) /\ Lies(w, Len(v), f)
  <2>1. Len(v) + Len(f) <= Len(v) + Len(f)
    OBVIOUS
  <2> QED
    BY <1>1, <2>1 DEF Joined, Lies
<1> QED
  BY <1>2 DEF w

(* The bytes of the length of the data.                                    *)
Length(p) == <<Len(p.data) \div 256, Len(p.data) % 256>>

(* The fields of a packet in v.                                            *)
Contents(v, p) ==
  /\ Lies(v, 0, p.slot) /\ Lies(v, 2, p.userWord1) /\ Lies(v, 6, p.userWord2)
  /\ Lies(v, 10, Length(p)) /\ Lies(v, 12, p.data)

FieldOf(f, n) == f \in Bytes /\ f \in Seq(Nat) /\ n \in Nat /\ Len(f) = n

(* They are bytes, and give the length again.                              *)
LEMMA LengthBytes ==
  ASSUME NEW n \in Nat, n <= 2048, NEW x, x = n \div 256, NEW y, y = n % 256
  PROVE  x \in 0 .. 255 /\ y \in 0 .. 255 /\ 256 * x + y = n
<1>1. x \in Int /\ y \in 0 .. 255 /\ n = 256 * x + y
  OBVIOUS
<1> QED
  BY <1>1

PacketFields(p) ==
  /\ FieldOf(p.slot, 2) /\ FieldOf(p.userWord1, 4) /\ FieldOf(p.userWord2, 4)
  /\ FieldOf(Length(p), 2) /\ FieldOf(p.data, Len(p.data))
  /\ Len(p.data) \in Nat /\ Len(p.data) <= MAX_PACKET_LEN

(* A packet has fields like that.                                          *)
LEMMA FieldTypes ==
  ASSUME NEW p \in Packets
  PROVE  PacketFields(p)
<1>1. \A f \in Bytes : f \in Seq(Nat) /\ Len(f) \in Nat
  BY BytesNat
<1>2. FieldOf(p.slot, 2) /\ FieldOf(p.userWord1, 4) /\ FieldOf(p.userWord2, 4)
  <2>1. /\ p.slot \in Bytes /\ Len(p.slot) = 2
        /\ p.userWord1 \in Bytes /\ Len(p.userWord1) = 4
        /\ p.userWord2 \in Bytes /\ Len(p.userWord2) = 4
    BY DEF Packets, Fields
  <2> QED
    BY <1>1, <2>1 DEF FieldOf
<1>3. p.data \in Bytes /\ Len(p.data) <= MAX_PACKET_LEN
  BY DEF Packets
<1> DEFINE n == Len(p.data)
<1>4. n \in Nat /\ FieldOf(p.data, n)
  BY <1>1, <1>3 DEF FieldOf
<1>5. n <= MAX_PACKET_LEN
  BY <1>3
<1>6. FieldOf(Length(p), 2)
  <2> DEFINE x == n \div 256
             y == n % 256
  <2>1. x \in Byte /\ y \in Byte
    <3> HIDE DEF n
    <3> QED
      BY <1>4, <1>5, LengthBytes DEF Byte, MAX_PACKET_LEN
  <2> HIDE DEF x, y
  <2>2. <<x, y>> \in Seq(Byte) /\ Len(<<x, y>>) = 2
    BY <2>1
  <2>3. Length(p) = <<x, y>>
    BY DEF Length, x, y
  <2>4. Length(p) \in Bytes /\ Len(Length(p)) = 2
    BY <2>2, <2>3 DEF Bytes
  <2> QED
    BY <1>1, <2>4 DEF FieldOf
<1> QED
  BY <1>2, <1>4, <1>5, <1>6, Zenon DEF PacketFields

(* They are one behind the other in what is sent.                          *)
LEMMA ContentLies ==
  ASSUME NEW p \in Packets
  PROVE  /\ content(p) \in Bytes /\ Len(content(p)) = 12 + Len(p.data)
         /\ Contents(content(p), p)
<1> DEFINE f1 == p.slot
           f2 == p.userWord1
           f3 == p.userWord2
           f4 == Length(p)
           f5 == p.data
           c2 == f1 \o f2
           c3 == c2 \o f3
           c4 == c3 \o f4
           c5 == c4 \o f5
<1>1. /\ f1 \in Bytes /\ f1 \in Seq(Nat) /\ Len(f1) = 2
      /\ f2 \in Bytes /\ f2 \in Seq(Nat) /\ Len(f2) = 4
      /\ f3 \in Bytes /\ f3 \in Seq(Nat) /\ Len(f3) = 4
      /\ f4 \in Bytes /\ f4 \in Seq(Nat) /\ Len(f4) = 2
      /\ f5 \in Bytes /\ f5 \in Seq(Nat) /\ Len(f5) \in Nat
  <2>1. FieldOf(f1, 2) /\ FieldOf(f2, 4) /\ FieldOf(f3, 4) /\ FieldOf(f4, 2) /\ FieldOf(f5, Len(f5))
    BY FieldTypes, Zenon DEF PacketFields
  <2> HIDE DEF f1, f2, f3, f4, f5
  <2> QED
    BY <2>1 DEF FieldOf
<1>2. content(p) = c5
  BY DEF content, Length
<1> HIDE DEF f1, f2, f3, f4, f5
<1>3. Lies(f1, 0, f1)
  BY <1>1 DEF Lies
<1>4. c2 \in Seq(Nat) /\ Len(c2) = 6 /\ Lies(c2, 0, f1) /\ Lies(c2, 2, f2)
  <2>1. c2 \in Seq(Nat) /\ Len(c2) = Len(f1) + Len(f2) /\ Lies(c2, Len(f1), f2)
    BY <1>1, LiesBehind
  <2>2. Lies(c2, 0, f1)
    BY <1>1, <1>3, LiesInFront
  <2> HIDE DEF c2
  <2> QED
    BY <1>1, <2>1, <2>2
<1>5. c2 \in Seq(Byte) /\ c3 \in Seq(Byte) /\ c4 \in Seq(Byte) /\ c5 \in Seq(Byte)
  BY <1>1 DEF Bytes
<1> HIDE DEF c2
<1>6. c3 \in Seq(Nat) /\ Len(c3) = 10 /\ Lies(c3, 0, f1) /\ Lies(c3, 2, f2) /\ Lies(c3, 6, f3)
  <2>1. c3 \in Seq(Nat) /\ Len(c3) = Len(c2) + Len(f3) /\ Lies(c3, Len(c2), f3)
    BY <1>1, <1>4, LiesBehind
  <2>2. Lies(c3, 0, f1)
    BY <1>1, <1>4, LiesInFront
  <2>3. Lies(c3, 2, f2)
    BY <1>1, <1>4, LiesInFront
  <2> HIDE DEF c3
  <2> QED
    BY <1>1, <1>4, <2>1, <2>2, <2>3
<1> HIDE DEF c3
<1>7. /\ c4 \in Seq(Nat) /\ Len(c4) = 12 /\ Lies(c4, 0, f1) /\ Lies(c4, 2, f2) /\ Lies(c4, 6, f3)
      /\ Lies(c4, 10, f4)
  <2>1. c4 \in Seq(Nat) /\ Len(c4) = Len(c3) + Len(f4) /\ Lies(c4, Len(c3), f4)
    BY <1>1, <1>6, LiesBehind
  <2>2. Lies(c4, 0, f1)
    BY <1>1, <1>6, LiesInFront
  <2>3. Lies(c4, 2, f2)
    BY <1>1, <1>6, LiesInFront
  <2>4. Lies(c4, 6, f3)
    BY <1>1, <1>6, LiesInFront
  <2> HIDE DEF c4
  <2> QED
    BY <1>1, <1>6, <2>1, <2>2, <2>3, <2>4
<1> HIDE DEF c4
<1>8. /\ c5 \in Seq(Nat) /\ Len(c5) = 12 + Len(f5) /\ Lies(c5, 0, f1) /\ Lies(c5, 2, f2)
      /\ Lies(c5, 6, f3) /\ Lies(c5, 10, f4) /\ Lies(c5, 12, f5)
  <2>1. c5 \in Seq(Nat) /\ Len(c5) = Len(c4) + Len(f5) /\ Lies(c5, Len(c4), f5)
    BY <1>1, <1>7, LiesBehind
  <2>2. Lies(c5, 0, f1)
    BY <1>1, <1>7, LiesInFront
  <2>3. Lies(c5, 2, f2)
    BY <1>1, <1>7, LiesInFront
  <2>4. Lies(c5, 6, f3)
    BY <1>1, <1>7, LiesInFront
  <2>5. Lies(c5, 10, f4)
    BY <1>1, <1>7, LiesInFront
  <2> HIDE DEF c5
  <2> QED
    BY <1>1, <1>7, <2>1, <2>2, <2>3, <2>4, <2>5
<1> HIDE DEF c5
<1> QED
  BY <1>2, <1>5, <1>8 DEF Bytes, Contents, f1, f2, f3, f4, f5

(* What is taken from a buffer with recvLen bytes.                         *)
Parsed(buffer, recvLen) ==
  LET xmitDataLen == 256 * buffer[11] + buffer[12]
      recvDataLen == recvLen - 10
      len == IF recvDataLen < xmitDataLen THEN recvDataLen ELSE xmitDataLen
  IN [slot |-> SubSeq(buffer, 1, 2), userWord1 |-> SubSeq(buffer, 3, 6),
      userWord2 |-> SubSeq(buffer, 7, 10), data |-> SubSeq(buffer, 13, 12 + len)]

(* What lies in c lies in a buffer that holds c.                           *)
LEMMA HeldLies ==
  ASSUME NEW v, NEW c, Len(c) \in Nat, Len(v) \in Nat, Len(v) >= Len(c), Holds(v, c),
         NEW a \in Nat, NEW f, Len(f) \in Nat, Lies(c, a, f)
  PROVE  Lies(v, a, f)
<1>1. a + Len(f) <= Len(v)
  BY DEF Lies
<1>2. ASSUME NEW i \in 1 .. Len(f) PROVE v[a + i] = f[i]
  <2>1. a + i \in 1 .. Len(c)
    BY DEF Lies
  <2>2. c[a + i] = f[i]
    BY DEF Lies
  <2> QED
    BY <2>1, <2>2 DEF Holds
<1> QED
  BY <1>1, <1>2 DEF Lies

(* A packet is taken from a buffer that has its fields.                    *)
LEMMA ParsedPacket ==
  ASSUME NEW p \in Packets, NEW v \in Seq(Nat), Contents(v, p),
         NEW recvLen \in Nat, recvLen >= 10 + Len(p.data)
  PROVE  Parsed(v, recvLen) = p
<1> DEFINE n == Len(p.data)
           len == IF recvLen - 10 < 256 * v[11] + v[12] THEN recvLen - 10 ELSE 256 * v[11] + v[12]
<1>1. PacketFields(p)
  BY FieldTypes
<1>2. n \in Nat /\ n <= MAX_PACKET_LEN
  BY <1>1 DEF PacketFields
<1>3. 256 * v[11] + v[12] = n
  <2> DEFINE x == n \div 256
             y == n % 256
  <2>1. v[11] = x /\ v[12] = y
    <3>1. /\ Len(Length(p)) = 2 /\ Lies(v, 10, Length(p))
      BY <1>1 DEF PacketFields, FieldOf, Contents
    <3>2. Length(p)[1] = x /\ Length(p)[2] = y
      BY DEF Length
    <3>3. 1 \in 1 .. 2 /\ 2 \in 1 .. 2 /\ 10 + 1 = 11 /\ 10 + 2 = 12
      OBVIOUS
    <3> HIDE DEF x, y
    <3> QED
      BY <3>1, <3>2, <3>3 DEF Lies
  <2>2. 256 * x + y = n
    <3> HIDE DEF n
    <3> QED
      BY <1>2, LengthBytes DEF MAX_PACKET_LEN
  <2> HIDE DEF x, y, n
  <2> QED
    BY <2>1, <2>2
<1>4. len = n
  <2> DEFINE m == 256 * v[11] + v[12]
  <2>1. m = n /\ ~(recvLen - 10 < n)
    BY <1>2, <1>3
  <2>2. len = IF recvLen - 10 < m THEN recvLen - 10 ELSE m
    OBVIOUS
  <2> HIDE DEF m, n, len
  <2> QED
    BY <2>1, <2>2
<1> HIDE DEF len
<1>5. SubSeq(v, 1, 2) = p.slot
  <2> DEFINE f == p.slot
             a == 0
             i == 1
             j == 2
  <2>1. FieldOf(f, 2) /\ Lies(v, a, f)
    BY <1>1, Zenon DEF PacketFields, Contents
  <2>2. SliceOf(v, a, f, i, j)
    BY <2>1 DEF FieldOf, SliceOf
  <2> HIDE DEF f, a, i, j
  <2>3. SubSeq(v, i, j) = f
    BY <2>2, Slice, Zenon
  <2> QED
    BY <2>3, Zenon DEF f, i, j
<1>6. SubSeq(v, 3, 6) = p.userWord1
  <2> DEFINE f == p.userWord1
             a == 2
             i == 3
             j == 6
  <2>1. FieldOf(f, 4) /\ Lies(v, a, f)
    BY <1>1, Zenon DEF PacketFields, Contents
  <2>2. SliceOf(v, a, f, i, j)
    BY <2>1 DEF FieldOf, SliceOf
  <2> HIDE DEF f, a, i, j
  <2>3. SubSeq(v, i, j) = f
    BY <2>2, Slice, Zenon
  <2> QED
    BY <2>3, Zenon DEF f, i, j
<1>7. SubSeq(v, 7, 10) = p.userWord2
  <2> DEFINE f == p.userWord2
             a == 6
             i == 7
             j == 10
  <2>1. FieldOf(f, 4) /\ Lies(v, a, f)
    BY <1>1, Zenon DEF PacketFields, Contents
  <2>2. SliceOf(v, a, f, i, j)
    BY <2>1 DEF FieldOf, SliceOf
  <2> HIDE DEF f, a, i, j
  <2>3. SubSeq(v, i, j) = f
    BY <2>2, Slice, Zenon
  <2> QED
    BY <2>3, Zenon DEF f, i, j
<1>8. SubSeq(v, 13, 12 + len) = p.data
  <2> DEFINE f == p.data
             a == 12
             i == 13
             j == 12 + len
  <2>1. FieldOf(f, n) /\ Lies(v, a, f)
    BY <1>1, Zenon DEF PacketFields, Contents
  <2>2. SliceOf(v, a, f, i, j)
    BY <1>4, <2>1 DEF FieldOf, SliceOf
  <2> HIDE DEF f, a, i, j
  <2>3. SubSeq(v, i, j) = f
    BY <2>2, Slice, Zenon
  <2> QED
    BY <2>3, Zenon DEF f, i, j
<1>9. Parsed(v, recvLen) = [slot |-> p.slot, userWord1 |-> p.userWord1,
                            userWord2 |-> p.userWord2, data |-> p.data]
  BY <1>5, <1>6, <1>7, <1>8 DEF Parsed, len
<1>10. p = [slot |-> p.slot, userWord1 |-> p.userWord1, userWord2 |-> p.userWord2,
            data |-> p.data]
  BY DEF Packets
<1> QED
  BY <1>9, <1>10

(* A packet is found in a buffer that holds its content.                   *)
LEMMA HeldPacket ==
  ASSUME NEW p \in Packets, NEW v \in Seq(Nat), Len(v) >= Len(content(p)), Holds(v, content(p)),
         NEW recvLen \in Nat, recvLen >= 10 + Len(p.data)
  PROVE  Parsed(v, recvLen) = p
<1> DEFINE c == content(p)
<1>1. c \in Bytes /\ Contents(c, p)
  BY ContentLies
<1>2. Len(c) \in Nat /\ Len(v) \in Nat /\ Len(v) >= Len(c) /\ Holds(v, c)
  BY <1>1, BytesNat
<1> HIDE DEF c
<1>3. \A a \in Nat : \A f : Len(f) \in Nat /\ Lies(c, a, f) => Lies(v, a, f)
  BY <1>2, HeldLies
<1>4. PacketFields(p)
  BY FieldTypes
<1>5. /\ Len(p.slot) \in Nat /\ Len(p.userWord1) \in Nat /\ Len(p.userWord2) \in Nat
      /\ Len(Length(p)) \in Nat /\ Len(p.data) \in Nat
  BY <1>4 DEF PacketFields, FieldOf
<1>6. 0 \in Nat /\ 2 \in Nat /\ 6 \in Nat /\ 10 \in Nat /\ 12 \in Nat
  OBVIOUS
<1>7. Contents(v, p)
  BY <1>1, <1>3, <1>5, <1>6 DEF Contents
<1> QED
  BY <1>7, ParsedPacket

(* What the outside proxy sends is what the inside proxy takes, in the     *)
(* text mode and in the binary mode: the seven bits and the doubled bytes, *)
(* the decoding in place and the length that is checked.                   *)
THEOREM PacketsArrive ==
  \A p \in Packets, binary \in BOOLEAN : received(transmit(p, binary), binary) = p
<1> SUFFICES ASSUME NEW p \in Packets
             PROVE  /\ received(transmit(p, FALSE), FALSE) = p
                    /\ received(transmit(p, TRUE), TRUE) = p
  OBVIOUS
<1> DEFINE c == content(p)
<1>1. c \in Bytes /\ Len(c) = 12 + Len(p.data) /\ Len(p.data) \in Nat
  <2>1. PacketFields(p)
    BY FieldTypes
  <2> QED
    BY <2>1, ContentLies DEF PacketFields
<1>2. received(transmit(p, FALSE), FALSE) = p
  <2> DEFINE w == flush(encoded(c)).out
             v == decode(w)
             m == ((Len(w) + 7) \div 8) * 7
  <2>1. PICK q \in Nat, r \in 0 .. 6 : Wire(w, c, q, r)
    BY <1>1, Flushed
  <2>2. Len(w) = 8 * (q + 1) /\ Len(c) = 7 * q + r
    BY <2>1 DEF Wire, ChunkAt
  <2>3. transmit(p, FALSE) = w
    BY DEF transmit
  <2> HIDE DEF w
  <2>4. v \in Seq(Nat) /\ Len(v) >= Len(c) /\ Holds(v, c)
    <3> HIDE DEF c
    <3> QED
      BY <1>1, <2>1, DecodedWire
  <2>5. m \in Nat /\ m >= 10 + Len(p.data)
    <3>1. (Len(w) + 7) \div 8 = q + 1
      BY <2>2
    <3>2. m = 7 * (q + 1)
      BY <3>1
    <3> HIDE DEF m, c
    <3> QED
      BY <1>1, <2>2, <3>2
  <2>6. received(w, FALSE) = Parsed(v, m)
    BY DEF received, Parsed
  <2> HIDE DEF v, m
  <2>7. Parsed(v, m) = p
    BY <2>4, <2>5, HeldPacket
  <2> QED
    BY <2>3, <2>6, <2>7
<1>3. received(transmit(p, TRUE), TRUE) = p
  <2> DEFINE w == escaped(c)
             v == unescape(w)
             m == Len(v)
  <2>1. v \in Seq(Nat) /\ Len(v) = Len(c) /\ Holds(v, c)
    BY <1>1, BytesNat, UnescapedWire
  <2>2. transmit(p, TRUE) = w
    BY DEF transmit
  <2> HIDE DEF w
  <2>3. received(w, TRUE) = Parsed(v, m)
    BY DEF received, Parsed
  <2> HIDE DEF v
  <2>4. m \in Nat /\ m >= 10 + Len(p.data) /\ Len(v) >= Len(c)
    <3> HIDE DEF c
    <3> QED
      BY <1>1, <2>1
  <2>5. Parsed(v, m) = p
    <3> HIDE DEF m
    <3> QED
      BY <2>1, <2>4, HeldPacket
  <2> QED
    BY <2>2, <2>3, <2>5
<1> QED
  BY <1>2, <1>3

(* In the text mode there are only characters of seven bits on the line,   *)
(* and a packet of any length fits into recvBuffer.                        *)
THEOREM WireIsText ==
  \A p \in Packets :
    LET wire == transmit(p, FALSE)
    IN /\ wire \in Seq(0 .. 127)
       /\ Len(wire) = 8 * ((Len(p.data) + 12) \div 7 + 1)
       /\ NotEncoded + Len(wire) <= RecvBufferLen
<1> SUFFICES ASSUME NEW p \in Packets
             PROVE  LET wire == transmit(p, FALSE)
                    IN /\ wire \in Seq(0 .. 127)
                       /\ Len(wire) = 8 * ((Len(p.data) + 12) \div 7 + 1)
                       /\ NotEncoded + Len(wire) <= RecvBufferLen
  OBVIOUS
<1> DEFINE c == content(p)
           w == flush(encoded(c)).out
           n == Len(p.data)
<1>1. c \in Bytes /\ Len(c) = 12 + n /\ n \in Nat /\ n <= MAX_PACKET_LEN
  <2>1. PacketFields(p)
    BY FieldTypes
  <2> QED
    BY <2>1, ContentLies DEF PacketFields
<1>2. PICK q \in Nat, r \in 0 .. 6 : Wire(w, c, q, r)
  BY <1>1, Flushed
<1>3. transmit(p, FALSE) = w
  BY DEF transmit
<1> HIDE DEF w, c
<1>4. /\ Len(c) = 7 * q + r /\ w \in Seq(Nat) /\ Len(w) = 8 * (q + 1)
  BY <1>2 DEF Wire, ChunkAt
<1> HIDE DEF n
<1>5. (n + 12) \div 7 = q
  BY <1>1, <1>4
<1>6. Len(w) <= 2371
  BY <1>1, <1>4 DEF MAX_PACKET_LEN
<1>7. ASSUME NEW i \in 1 .. Len(w) PROVE w[i] \in 0 .. 127
  <2> DEFINE j == (i - 1) \div 8
             t == (i - 1) % 8
  <2>1. j \in 0 .. q /\ t \in 0 .. 7 /\ i = 8 * j + t + 1
    <3>1. i \in Nat /\ i - 1 \in Nat /\ i - 1 <= 8 * q + 7
      BY <1>4
    <3>2. j \in Int /\ t \in 0 .. 7 /\ i - 1 = 8 * j + t
      BY <3>1
    <3> HIDE DEF j, t
    <3> QED
      BY <3>1, <3>2
  <2> HIDE DEF j, t
  <2>2. PICK k \in 0 .. 7 :
          Chunk(w, 8 * j, c, 7 * j, k) /\ \A u \in 0 .. 6 : 7 * j + u + 1 <= Len(c) <=> u < k
    BY <1>2, <2>1, ChunkOf
  <2>3. CASE t = 7
    <3>1. w[i] = Escape(High(c, 7 * j, k))
      <4>1. i = 8 * j + 8
        BY <2>1, <2>3
      <4> QED
        BY <2>2, <4>1 DEF Chunk
    <3> QED
      BY <3>1, HighType, EscapeType
  <2>4. CASE t \in 0 .. 6
    <3>1. w[i] = IF t < k THEN c[7 * j + t + 1] % 128 ELSE 0
      BY <2>1, <2>2, <2>4 DEF Chunk
    <3>2. CASE t < k
      <4> DEFINE b == c[7 * j + t + 1]
      <4>1. b \in Nat
        <5>1. 7 * j + t + 1 \in 1 .. Len(c)
          BY <1>4, <2>1, <2>2, <2>4, <3>2
        <5>2. b \in 0 .. 255
          BY <1>1, <5>1, ByteAt
        <5> HIDE DEF b
        <5> QED
          BY <5>2
      <4> HIDE DEF b
      <4>2. b % 128 \in 0 .. 127
        BY <4>1
      <4> QED
        BY <3>1, <3>2, <4>2 DEF b
    <3>3. CASE ~(t < k)
      BY <3>1, <3>3
    <3> QED
      BY <3>2, <3>3
  <2> QED
    BY <2>1, <2>3, <2>4
<1>8. w \in Seq(0 .. 127)
  BY <1>4, <1>7, SeqMonotonic
<1>9. Len(w) = 8 * ((n + 12) \div 7 + 1) /\ NotEncoded + Len(w) <= RecvBufferLen
  <2>1. Len(w) \in Nat
    BY <1>4
  <2> QED
    BY <1>4, <1>5, <1>6, <2>1 DEF NotEncoded, RecvBufferLen
<1> QED
  BY <1>3, <1>8, <1>9 DEF n

=============================================================================
