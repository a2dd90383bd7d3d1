------------------------ MODULE FtpServerTypeProofs -------------------------
(***************************************************************************)
(* The types of the FTP server's state, and who owns its sockets: for any  *)
(* clients, scripts, disks and files, any number of sockets and failures.  *)
(* TypeInv is inductive; OwnInv and MovingInv are so with TypeInv.  From   *)
(* these come SocketsMatch and FtpTypeOK.                                  *)
(***************************************************************************)
EXTENDS FtpServer, FiniteSetTheorems, FunctionTheorems, SequenceTheorems, WellFoundedInduction, TLAPS

(* Every set of natural numbers has a least element.                       *)
LEMMA LeastNat ==
  ASSUME NEW T, T \subseteq Nat, T # {}
  PROVE  \E x \in T : \A y \in T : x <= y
<1>1. IsWellFoundedOn(OpToRel(<, Nat), Nat)
  BY NatLessThanWellFounded
<1>2. PICK x \in T : \A y \in T : <<y, x>> \notin OpToRel(<, Nat)
  BY <1>1, WFMin
<1>3. \A y \in T : ~(y < x)
  BY <1>2 DEF OpToRel
<1> QED
  BY <1>3

(* Induction up to n, over a set.                                          *)
LEMMA Inductive ==
  ASSUME NEW n \in Nat, NEW T, 0 \in T, \A i \in 0 .. n - 1 : i \in T => i + 1 \in T
  PROVE  \A i \in 0 .. n : i \in T
<1> DEFINE Bad == {i \in 0 .. n : i \notin T}
<1> SUFFICES ASSUME Bad # {} PROVE FALSE
  OBVIOUS
<1>1. Bad \subseteq Nat
  OBVIOUS
<1>2. PICK x \in Bad : \A y \in Bad : x <= y
  BY <1>1, LeastNat
<1>3. x # 0 /\ x \in 0 .. n /\ x - 1 \in 0 .. n - 1 /\ x - 1 \notin Bad
  BY <1>2
<1>4. x - 1 \in T /\ (x - 1) + 1 = x
  BY <1>3
<1> QED
  BY <1>2, <1>3, <1>4

(* The steps of a computation along 1 .. n with values in S, and the       *)
(* values it runs through from b on.                                       *)
StepsIn(n, S) == [(1 .. n) \X S -> S]
RunsThrough(w, n, b, g) == w[0] = b /\ \A i \in 1 .. n : w[i] = g[<<i, w[i - 1]>>]

(* Every such computation has its values.                                  *)
LEMMA Recursion ==
  ASSUME NEW n \in Nat, NEW S, NEW b \in S, NEW g \in StepsIn(n, S)
  PROVE  \E w \in [0 .. n -> S] : RunsThrough(w, n, b, g)
<1> USE DEF StepsIn, RunsThrough
<1> DEFINE Upto(m, w) == w[0] = b /\ \A i \in 1 .. m : w[i] = g[<<i, w[i - 1]>>]
           T == {m \in 0 .. n : \E w \in [0 .. m -> S] : Upto(m, w)}
<1>1. 0 \in T
  <2> DEFINE w == [i \in 0 .. 0 |-> b]
  <2>1. w \in [0 .. 0 -> S] /\ w[0] = b /\ 1 .. 0 = {}
    OBVIOUS
  <2> HIDE DEF w
  <2>2. \E v \in [0 .. 0 -> S] : Upto(0, v)
    BY <2>1
  <2> QED
    BY <2>2
<1>2. ASSUME NEW m \in 0 .. n - 1, m \in T PROVE m + 1 \in T
  <2>1. PICK w \in [0 .. m -> S] : Upto(m, w)
    BY <1>2
  <2> DEFINE v == [i \in 0 .. m + 1 |-> IF i = m + 1 THEN g[<<m + 1, w[m]>>] ELSE w[i]]
  <2>2. g[<<m + 1, w[m]>>] \in S
    BY <2>1
  <2>3. v \in [0 .. m + 1 -> S]
    BY <2>2
  <2>4. v[0] = b /\ v[m + 1] = g[<<m + 1, w[m]>>] /\ \A i \in 0 .. m : v[i] = w[i]
    BY <2>1
  <2> HIDE DEF v
  <2>5. ASSUME NEW i \in 1 .. m + 1 PROVE v[i] = g[<<i, v[i - 1]>>]
    <3>1. CASE i = m + 1
      <4>1. v[i - 1] = w[m] /\ v[i] = g[<<m + 1, w[m]>>]
        BY <2>4, <3>1
      <4> QED
        BY <3>1, <4>1
    <3>2. CASE i # m + 1
      <4>1. i \in 1 .. m /\ v[i] = w[i] /\ v[i - 1] = w[i - 1]
        BY <3>2, <2>4
      <4>2. w[i] = g[<<i, w[i - 1]>>]
        BY <2>1, <4>1
      <4> QED
        BY <4>1, <4>2
    <3> QED
      BY <3>1, <3>2
  <2>6. m + 1 \in 0 .. n
    OBVIOUS
  <2> QED
    BY <2>3, <2>4, <2>5, <2>6
<1>3. \A m \in 0 .. n - 1 : m \in T => m + 1 \in T
  BY <1>2
<1> HIDE DEF T
<1>4. n \in T
  BY <1>1, <1>3, Inductive
<1> QED
  BY <1>4 DEF T

-----------------------------------------------------------------------------
(* Least and greatest elements.                                            *)

(* What Min is.                                                            *)
LEMMA MinOf ==
  ASSUME NEW T, T \subseteq Nat, T # {}
  PROVE  Min(T) \in T /\ \A y \in T : Min(T) <= y
BY LeastNat DEF Min

(* What Max is, for a set with an upper bound.                             *)
LEMMA MaxOf ==
  ASSUME NEW n \in Nat, NEW T, T \subseteq 0 .. n, T # {}
  PROVE  Max(T) \in T /\ \A y \in T : y <= Max(T)
<1> DEFINE Rest == {n - x : x \in T}
<1>1. Rest \subseteq Nat /\ Rest # {}
  <2>1. PICK e \in T : TRUE
    OBVIOUS
  <2>2. n - e \in Rest
    OBVIOUS
  <2>3. \A x \in T : n - x \in Nat
    OBVIOUS
  <2> QED
    BY <2>2, <2>3
<1>2. PICK r \in Rest : \A y \in Rest : r <= y
  BY <1>1, LeastNat
<1>3. PICK x \in T : r = n - x
  BY <1>2
<1>4. \A y \in T : y <= x
  <2>1. ASSUME NEW y \in T PROVE y <= x
    <3>1. n - y \in Rest
      OBVIOUS
    <3>2. n - x <= n - y
      BY <1>2, <1>3, <3>1
    <3> QED
      BY <3>2
  <2> QED
    BY <2>1
<1> QED
  BY <1>4 DEF Max

(* Max of two numbers.                                                     *)
LEMMA MaxOfTwo ==
  ASSUME NEW a \in Nat, NEW b \in Nat
  PROVE  Max({a, b}) = IF a <= b THEN b ELSE a
<1> DEFINE T == {a, b}
           n == a + b
<1>1. n \in Nat /\ T \subseteq 0 .. n /\ T # {}
  OBVIOUS
<1>2. Max(T) \in T /\ \A y \in T : y <= Max(T)
  <2> HIDE DEF T, n
  <2> QED
    BY <1>1, MaxOf
<1> QED
  BY <1>2

(* Removing an element of a sequence.                                      *)
LEMMA Removed ==
  ASSUME NEW S, NEW s \in Seq(S), NEW i \in 1 .. Len(s)
  PROVE  /\ RemoveAt(s, i) \in Seq(S)
         /\ Len(RemoveAt(s, i)) = Len(s) - 1
         /\ \A j \in 1 .. Len(s) - 1 : RemoveAt(s, i)[j] = s[IF j < i THEN j ELSE j + 1]
<1> DEFINE a == SubSeq(s, 1, i - 1)
           b == SubSeq(s, i + 1, Len(s))
<1>1. a \in Seq(S) /\ Len(a) = i - 1 /\ \A j \in 1 .. i - 1 : a[j] = s[j]
  OBVIOUS
<1>2. b \in Seq(S) /\ Len(b) = Len(s) - i /\ \A j \in 1 .. Len(s) - i : b[j] = s[i + j]
  OBVIOUS
<1>3. RemoveAt(s, i) = a \o b
  BY Zenon DEF RemoveAt
<1>4. /\ a \o b \in Seq(S)
      /\ Len(a \o b) = Len(a) + Len(b)
      /\ \A j \in 1 .. Len(a) + Len(b) :
           (a \o b)[j] = IF j <= Len(a) THEN a[j] ELSE b[j - Len(a)]
  <2> HIDE DEF a, b
  <2> QED
    BY <1>1, <1>2, ConcatProperties
<1>5. ASSUME NEW j \in 1 .. Len(s) - 1 PROVE (a \o b)[j] = s[IF j < i THEN j ELSE j + 1]
  <2> HIDE DEF a, b
  <2>1. (a \o b)[j] = IF j <= i - 1 THEN a[j] ELSE b[j - (i - 1)]
    BY <1>1, <1>2, <1>4
  <2>2. CASE j < i
    BY <2>1, <2>2, <1>1
  <2>3. CASE ~(j < i)
    <3>1. j - (i - 1) \in 1 .. Len(s) - i /\ i + (j - (i - 1)) = j + 1
      BY <2>3
    <3>2. b[j - (i - 1)] = s[j + 1]
      BY <3>1, <1>2
    <3> QED
      BY <3>2, <2>1, <2>3
  <2> QED
    BY <2>2, <2>3
<1>6. Len(a) + Len(b) = Len(s) - 1
  BY <1>1, <1>2
<1> HIDE DEF a, b
<1> QED
  BY <1>3, <1>4, <1>5, <1>6

-----------------------------------------------------------------------------
(* Paths, formats and socket numbers.                                      *)

(* What a path leads to.                                                   *)
Places == Disk \cup {Invalid, Loops}

(* Each part of a path leads from a place to a place.                      *)
LEMMA PartType ==
  ASSUME NEW idx \in Places, NEW part
  PROVE  enterPart(idx, part) \in Places
<1>1. DiskIdx \subseteq Nat
  BY FtpAssumption, FS_CardinalityType
<1>2. getDiskIdx(part) \in Places
  <2> DEFINE T == {d \in DiskIdx : disks[d].letter = part}
  <2>1. CASE T # {}
    <3>1. Min(T) \in T
      BY <2>1, <1>1, MinOf
    <3>2. getDiskIdx(part) = Min(T)
      BY <2>1 DEF getDiskIdx
    <3> QED
      BY <3>1, <3>2 DEF Places, Disk
  <2>2. CASE T = {}
    BY <2>2 DEF getDiskIdx, Places
  <2> QED
    BY <2>1, <2>2
<1> QED
  BY <1>2 DEF enterPart, Places, Disk

(* A path leads from a place to a place.                                   *)
LEMMA PathType ==
  ASSUME NEW s, s.currDisk \in Disk, NEW arg \in Arguments
  PROVE  getDirIdx(s, arg) \in Places
<1> DEFINE n == Len(arg.parts)
           b == IF arg.abs THEN Root ELSE s.currDisk
           g == [x \in (1 .. n) \X Places |-> enterPart(x[2], arg.parts[x[1]])]
           Def(w) == [i \in 0 .. n |-> IF i = 0 THEN b ELSE enterPart(w[i - 1], arg.parts[i])]
           at == CHOOSE w : w = Def(w)
<1>1. n \in Nat /\ b \in Places
  BY DEF Arguments, Places, Disk
<1>2. g \in StepsIn(n, Places)
  BY PartType DEF StepsIn
<1>3. PICK v \in [0 .. n -> Places] : RunsThrough(v, n, b, g)
  <2> HIDE DEF n, b, g
  <2> QED
    BY <1>1, <1>2, Recursion
<1>4. ASSUME NEW i \in 1 .. n PROVE v[i] = enterPart(v[i - 1], arg.parts[i])
  <2>1. i - 1 \in 0 .. n
    BY <1>1
  <2>2. <<i, v[i - 1]>> \in (1 .. n) \X Places
    BY <2>1
  <2>3. g[<<i, v[i - 1]>>] = enterPart(v[i - 1], arg.parts[i])
    BY <2>2
  <2> QED
    BY <1>3, <2>3 DEF RunsThrough
<1>5. v = Def(v)
  <2>1. v = [i \in 0 .. n |-> v[i]]
    OBVIOUS
  <2>2. \A i \in 0 .. n : v[i] = IF i = 0 THEN b ELSE enterPart(v[i - 1], arg.parts[i])
    <3> HIDE DEF b, g
    <3> QED
      BY <1>3, <1>4, <1>1 DEF RunsThrough
  <2> HIDE DEF b, g
  <2> QED
    BY <2>1, <2>2
<1>6. at = Def(at)
  <2> HIDE DEF b, n
  <2> QED
    BY <1>5
<1>7. getDirIdx(s, arg) = at[n]
  BY DEF getDirIdx
<1>8. \A i \in 0 .. n : at[i] \in Places
  <2> DEFINE T == {i \in 0 .. n : at[i] \in Places}
  <2> HIDE DEF b, g, at
  <2>1. 0 \in T
    BY <1>1, <1>6
  <2>2. ASSUME NEW i \in 0 .. n - 1, i \in T PROVE i + 1 \in T
    <3>1. i + 1 \in 1 .. n /\ (i + 1) - 1 = i /\ at[i] \in Places
      BY <1>1, <2>2
    <3>2. at[i + 1] = enterPart(at[i], arg.parts[i + 1])
      BY <3>1, <1>6, <1>1
    <3> QED
      BY <3>1, <3>2, PartType, <1>1
  <2>3. \A i \in 0 .. n : i \in T
    <3> HIDE DEF T, n
    <3>1. \A i \in 0 .. n - 1 : i \in T => i + 1 \in T
      BY <2>2
    <3> QED
      BY <1>1, <2>1, <3>1, Inductive
  <2> QED
    BY <2>3
<1> HIDE DEF at, Def, n
<1>9. n \in 0 .. n
  BY <1>1
<1> QED
  BY <1>7, <1>8, <1>9

(* Where a file spec leads to.                                             *)
LEMMA SpecType ==
  ASSUME NEW s, s.currDisk \in Disk, NEW arg \in Arguments
  PROVE  parseFullPath(s, arg) \in Places \cup {Denied}
<1>1. getDirIdx(s, arg) \in Places
  BY PathType
<1> QED
  BY <1>1, FtpAssumption DEF parseFullPath, Places, Disk

(* The format of an upload.                                                *)
LEMMA FormatType ==
  ASSUME NEW s, s.ftpTrfBinary \in BOOLEAN, NEW arg \in Arguments
  PROVE  formatOf(s, arg) \in Formats
<1>1. DefaultLrecl \in Lrecls
  BY FtpAssumption DEF Lrecls
<1>2. CASE arg.mod # <<>>
  <2>1. arg.mod \in {"F", "V"} \X Lrecls
    BY <1>2 DEF Arguments
  <2>2. arg.mod[1] \in {"F", "V"} /\ arg.mod[2] \in Lrecls
    BY <2>1
  <2>3. formatOf(s, arg) = [binary |-> s.ftpTrfBinary, recfm |-> arg.mod[1], lrecl |-> arg.mod[2]]
    BY <1>2 DEF formatOf
  <2> QED
    BY <2>2, <2>3 DEF Formats
<1>3. CASE arg.mod = <<>> /\ findOverride(arg.name)
  BY <1>3, FtpDataAssumption DEF formatOf, findOverride
<1>4. CASE arg.mod = <<>> /\ ~findOverride(arg.name)
  BY <1>1, <1>4 DEF formatOf, Formats
<1> QED
  BY <1>2, <1>3, <1>4

(* The number of a new socket is free; there is none only if all are used. *)
LEMMA NewNumberType ==
  /\ NewNumber \in Sock
  /\ NewNumber >= 0 => NewNumber \in Numbers /\ sockets[NewNumber] = Closed
  /\ (\E n \in Numbers : sockets[n] = Closed) => NewNumber >= 0
<1>1. FreeNumbers \subseteq Numbers /\ Numbers \subseteq Nat
  BY FtpAssumption DEF FreeNumbers, Numbers
<1>2. CASE FreeNumbers # {}
  <2>1. Min(FreeNumbers) \in FreeNumbers
    BY <1>1, <1>2, MinOf
  <2>2. NewNumber = Min(FreeNumbers)
    BY <1>2 DEF NewNumber
  <2>3. NewNumber \in Numbers /\ NewNumber \in Nat /\ sockets[NewNumber] = Closed
    BY <1>1, <2>1, <2>2 DEF FreeNumbers
  <2> QED
    BY <2>3 DEF Sock
<1>3. CASE FreeNumbers = {}
  BY <1>3 DEF NewNumber, FreeNumbers, Sock
<1> QED
  BY <1>2, <1>3

-----------------------------------------------------------------------------
(* The types of the variables.                                             *)

Strings == STRING \cup {"", "*", "LF"}
Users   == STRING \cup {""}
Session ==
  {s \in [client : Clients, ctlSocket : Numbers, psvSocket : Sock, notedUser : Users,
          loggedIn : BOOLEAN, havingActiveClientAddr : BOOLEAN, ftpTrfBinary : BOOLEAN,
          currDisk : Disk, renameFrom : Strings, renameDiskIdx : Disk] :
     s.renameDiskIdx # Root => s.renameFrom \in Names}
Client ==
  [script : Seq(Commands), state : {"out", "calling", "on", "gone"}, sent : Nat,
   begun : BOOLEAN, unread : BOOLEAN, handled : Nat, replies : Seq(Nat), queued : Seq(Nat), dialed : Nat,
   got : Seq(Nat \cup Strings)]
Socket == [use : {"none", "srv", "ctl", "psv", "data"}, client : Clients \cup {0}]
Xfer ==
  [cmd : Transfers \cup {"STAT"}, disk : Disk \cup {Invalid}, name : Strings, format : Formats,
   sock : Sock, conn : {"none", "live", "lost"}, buf : Seq(Nat), pos : Nat,
   base : Seq(Records), rcvd : Seq(Nat), left : Seq(Nat \ {BLANK}), failed : BOOLEAN,
   stays : BOOLEAN]

(* The record that is being filled is never longer than LRECL allows.      *)
Fills(format) ==
  {b \in Seq(Nat \ {BLANK}) : b = <<>> \/ Len(b) < format.lrecl}

Working == pc \in {"cmd", "connect", "copy", "looping"}
Moving  == pc \in {"connect", "copy"}
Ctls    == {sessions[i].ctlSocket : i \in DOMAIN sessions}

WatchType ==
  /\ srvSocket \in Sock /\ trfSocket \in Sock
  /\ clientSocks \in SUBSET Numbers
  /\ lastSockPlus1 \in 0 .. FD_SETSIZE
  /\ clientSockCount \in Int
  /\ failures \in 0 .. MaxFailures
  /\ round \in [active : SUBSET Numbers, todo : SUBSET Numbers, done : BOOLEAN]
  /\ sockets \in [Numbers -> Socket]

SessionsType == sessions \in Seq(Session)

(* A command that waits at the server is one of the script.                *)
ClientsType ==
  /\ clients \in [Clients -> Client]
  /\ \A c \in Clients : /\ clients[c].sent <= Len(clients[c].script)
                        /\ clients[c].unread => clients[c].sent > 0

FilesType == files \in [DiskIdx -> [Names -> Files]]

(* The session that is served, and those that are still to be looked at,   *)
(* are there; at the start there is no socket.                             *)
WorkType ==
  /\ pc \in {"boot", "wait", "accept", "serve", "cmd", "connect", "copy", "ended", "looping"}
  /\ Working => cmd \in [cmd : STRING, arg : Arguments, h : Ctls]
  /\ Working \/ pc = "serve" => round.todo \subseteq Ctls
  /\ pc = "boot" => sockets = [n \in Numbers |-> Closed]

(* A transfer from or to a file has it open.                               *)
XferType ==
  /\ ~Moving => xfer = NoXfer
  /\ Moving =>
       /\ xfer \in Xfer
       /\ xfer.cmd = "RETR" => f = [is |-> "read", disk |-> xfer.disk, name |-> xfer.name]
       /\ xfer.cmd \in {"STOR", "APPE"} =>
            /\ f = [is |-> "write", disk |-> xfer.disk, name |-> xfer.name]
            /\ xfer.buf \in Fills(xfer.format)
       /\ xfer.cmd \in {"RETR", "STOR", "APPE"} => xfer.disk \in DiskIdx /\ xfer.name \in Names

TypeInv == WatchType /\ SessionsType /\ ClientsType /\ FilesType /\ WorkType /\ XferType

(* The session that is served.                                             *)
LEMMA MeType ==
  ASSUME TypeInv, Working
  PROVE  /\ SessionAt(cmd.h) \in 1 .. Len(sessions)
         /\ me \in Session /\ me.ctlSocket = cmd.h /\ me.client \in Clients
         /\ cmd.arg \in Arguments /\ cmd.cmd \in STRING /\ cmd.h \in Numbers
         /\ clients[me.client] \in Client
<1>1. cmd \in [cmd : STRING, arg : Arguments, h : Ctls]
  BY DEF TypeInv, WorkType
<1>2. \E i \in DOMAIN sessions : sessions[i].ctlSocket = cmd.h
  BY <1>1 DEF Ctls
<1>3. SessionAt(cmd.h) \in DOMAIN sessions /\ sessions[SessionAt(cmd.h)].ctlSocket = cmd.h
  BY <1>2 DEF SessionAt
<1>4. DOMAIN sessions = 1 .. Len(sessions) /\ sessions \in Seq(Session)
  BY DEF TypeInv, SessionsType
<1>5. me \in Session /\ me.ctlSocket = cmd.h
  BY <1>3, <1>4 DEF me
<1>6. me.client \in Clients /\ cmd.h \in Numbers
  BY <1>5 DEF Session
<1> QED
  BY <1>1, <1>3, <1>4, <1>5, <1>6 DEF TypeInv, ClientsType

(* What setSession does.                                                   *)
LEMMA SetSession ==
  ASSUME TypeInv, Working, NEW s \in Session, s.ctlSocket = cmd.h, setSession(s)
  PROVE  /\ SessionsType' /\ Len(sessions') = Len(sessions)
         /\ DOMAIN sessions' = DOMAIN sessions
         /\ \A i \in DOMAIN sessions :
              sessions'[i] = IF i = SessionAt(cmd.h) THEN s ELSE sessions[i]
         /\ Ctls' = Ctls
<1>1. SessionAt(cmd.h) \in 1 .. Len(sessions) /\ sessions[SessionAt(cmd.h)].ctlSocket = cmd.h
  BY MeType DEF me
<1>2. sessions \in Seq(Session) /\ DOMAIN sessions = 1 .. Len(sessions)
  BY DEF TypeInv, SessionsType
<1>3. sessions' = [sessions EXCEPT ![SessionAt(cmd.h)] = s]
  BY DEF setSession
<1>4. /\ sessions' \in Seq(Session) /\ Len(sessions') = Len(sessions)
      /\ DOMAIN sessions' = DOMAIN sessions
      /\ \A i \in DOMAIN sessions :
              sessions'[i] = IF i = SessionAt(cmd.h) THEN s ELSE sessions[i]
  BY <1>1, <1>2, <1>3
<1>5. \A i \in DOMAIN sessions : sessions'[i].ctlSocket = sessions[i].ctlSocket
  BY <1>1, <1>4
<1> QED
  BY <1>4, <1>5 DEF Ctls, SessionsType

(* The number of commands of a client, and its script, are as before.      *)
ClientsFit(cls) ==
  /\ cls \in [Clients -> Client]
  /\ \A c \in Clients : cls[c].sent <= Len(cls[c].script) /\ (cls[c].unread => cls[c].sent > 0)

(* What the end of a command does to the clients.                          *)
LEMMA FinishClients ==
  ASSUME TypeInv, Working, NEW cls, ClientsFit(cls), NEW codes \in Seq(Nat), FinishFrom(cls, codes)
  PROVE  /\ ClientsType'
         /\ \A c \in Clients :
              clients'[c] = IF c = me.client
                            THEN [cls[c] EXCEPT !.replies = @ \o codes, !.handled = @ + 1]
                            ELSE cls[c]
<1>1. me.client \in Clients
  BY MeType
<1>2. clients' = [cls EXCEPT ![me.client].replies = @ \o codes, ![me.client].handled = @ + 1]
  BY DEF FinishFrom
<1> DEFINE r == cls[me.client]
           q == [r EXCEPT !.replies = @ \o codes, !.handled = @ + 1]
<1>3. clients' = [cls EXCEPT ![me.client] = q]
  BY <1>1, <1>2 DEF ClientsFit
<1>4. r \in Client
  BY <1>1 DEF ClientsFit
<1>5. q \in Client /\ q.sent = r.sent /\ q.script = r.script /\ q.unread = r.unread
  <2>1. r.replies \o codes \in Seq(Nat) /\ r.handled + 1 \in Nat
    BY <1>4 DEF Client
  <2> QED
    BY <1>4, <2>1 DEF Client
<1>6. \A c \in Clients : clients'[c] = IF c = me.client THEN q ELSE cls[c]
  BY <1>1, <1>3 DEF ClientsFit
<1>7. clients' \in [Clients -> Client]
  BY <1>1, <1>3, <1>5 DEF ClientsFit
<1>8. ClientsType'
  BY <1>5, <1>6, <1>7 DEF ClientsType, ClientsFit
<1> QED
  BY <1>6, <1>8

-----------------------------------------------------------------------------
(* Each step keeps the types.                                              *)

(* The end of a command that neither waits nor transfers.                  *)
LEMMA TypesAfterCommand ==
  ASSUME TypeInv, pc = "cmd", NEW cls, ClientsFit(cls), NEW codes \in Seq(Nat),
         FinishFrom(cls, codes), UNCHANGED <<srvSocket, lastSockPlus1, trfSocket, xfer>>,
         clientSocks' \in SUBSET Numbers, clientSockCount' \in Int, failures' \in 0 .. MaxFailures,
         round' \in [active : SUBSET Numbers, todo : SUBSET Numbers, done : BOOLEAN],
         round'.todo \subseteq Ctls', SessionsType', FilesType', sockets' \in [Numbers -> Socket]
  PROVE  TypeInv'
<1>1. Working /\ ~Moving /\ pc' = "serve"
  BY DEF Working, Moving, FinishFrom
<1>2. ClientsType'
  BY <1>1, FinishClients
<1>3. WatchType'
  BY DEF TypeInv, WatchType
<1>4. WorkType' /\ XferType'
  BY <1>1 DEF TypeInv, WorkType, XferType, Working, Moving
<1> QED
  BY <1>2, <1>3, <1>4 DEF TypeInv

(* As most of them do: only the session changes, or nothing at all.        *)
LEMMA TypesAfterSimple ==
  ASSUME TypeInv, pc = "cmd", NEW codes \in Seq(Nat), Finish(codes), simple,
         UNCHANGED sessions \/ \E s \in Session : s.ctlSocket = cmd.h /\ setSession(s),
         UNCHANGED sockets, FilesType', failures' \in 0 .. MaxFailures
  PROVE  TypeInv'
<1>1. Working
  BY DEF Working
<1>2. SessionsType' /\ Ctls' = Ctls
  <2>1. CASE UNCHANGED sessions
    BY <2>1 DEF TypeInv, SessionsType, Ctls
  <2>2. CASE \E s \in Session : s.ctlSocket = cmd.h /\ setSession(s)
    BY <1>1, <2>2, SetSession
  <2> QED
    BY <2>1, <2>2
<1>3. ClientsFit(clients) /\ FinishFrom(clients, codes)
  BY DEF TypeInv, ClientsType, ClientsFit, Finish
<1>4. round.todo \subseteq Ctls
  BY <1>1 DEF TypeInv, WorkType
<1>5. /\ UNCHANGED <<srvSocket, lastSockPlus1, trfSocket, xfer>>
      /\ clientSocks' \in SUBSET Numbers /\ clientSockCount' \in Int
      /\ round' \in [active : SUBSET Numbers, todo : SUBSET Numbers, done : BOOLEAN]
      /\ round'.todo \subseteq Ctls' /\ sockets' \in [Numbers -> Socket]
  BY <1>2, <1>4 DEF simple, watch, TypeInv, WatchType
<1> QED
  BY <1>2, <1>3, <1>5, TypesAfterCommand

(* A failure, or none.                                                     *)
LEMMA FailType ==
  ASSUME TypeInv, Fail \/ UNCHANGED failures
  PROVE  failures' \in 0 .. MaxFailures
BY FtpAssumption DEF TypeInv, WatchType, Fail

(* The replies.                                                            *)
LEMMA CodesType ==
  /\ <<150>> \in Seq(Nat) /\ <<200>> \in Seq(Nat) /\ <<221>> \in Seq(Nat)
  /\ <<227>> \in Seq(Nat) /\ <<230>> \in Seq(Nat) /\ <<250>> \in Seq(Nat)
  /\ <<331>> \in Seq(Nat) /\ <<350>> \in Seq(Nat) /\ <<425>> \in Seq(Nat)
  /\ <<500>> \in Seq(Nat) /\ <<501>> \in Seq(Nat) /\ <<502>> \in Seq(Nat)
  /\ <<503>> \in Seq(Nat) /\ <<504>> \in Seq(Nat) /\ <<530>> \in Seq(Nat)
  /\ <<550>> \in Seq(Nat) /\ <<553>> \in Seq(Nat)
  /\ <<501, 550>> \in Seq(Nat) /\ <<553, 550>> \in Seq(Nat) /\ <<>> \in Seq(Nat)
OBVIOUS

LEMMA TypesUSER == ASSUME TypeInv, cmdUSER PROVE TypeInv'
<1>1. pc = "cmd" /\ Working
  BY DEF cmdUSER, Is, Working
<1>2. me \in Session /\ me.ctlSocket = cmd.h /\ cmd.arg \in Arguments
  BY <1>1, MeType
<1> DEFINE s == [me EXCEPT !.notedUser = IF reqPwd THEN cmd.arg.word ELSE @, !.loggedIn = FALSE]
<1>3. s \in Session /\ s.ctlSocket = cmd.h
  <2>1. (IF reqPwd THEN cmd.arg.word ELSE me.notedUser) \in Users
    BY <1>2 DEF Session, Arguments, Users
  <2> QED
    BY <1>2, <2>1 DEF Session
<1>4. setSession(s) /\ Finish(<<331>>) /\ simple /\ UNCHANGED <<sockets, files, failures>>
  BY DEF cmdUSER
<1>5. FilesType' /\ failures' \in 0 .. MaxFailures
  BY <1>4, FailType DEF TypeInv, FilesType
<1>6. <<331>> \in Seq(Nat)
  OBVIOUS
<1> HIDE DEF s
<1> QED
  BY <1>1, <1>3, <1>4, <1>5, <1>6, TypesAfterSimple

LEMMA PassType ==
  ASSUME NEW s \in Session, NEW word \in STRING
  PROVE  passWord(s, word) \in Session /\ passWord(s, word).ctlSocket = s.ctlSocket
<1> DEFINE ok == ~reqPwd \/ (s.notedUser = "right" /\ word = "right")
<1>1. passWord(s, word) = [s EXCEPT !.loggedIn = ok, !.notedUser = ""]
  BY Zenon DEF passWord
<1>2. "" \in Users
  BY DEF Users
<1> HIDE DEF ok
<1>3. /\ [s EXCEPT !.loggedIn = ok, !.notedUser = ""] \in Session
      /\ [s EXCEPT !.loggedIn = ok, !.notedUser = ""].ctlSocket = s.ctlSocket
  <2>1. CASE ok = TRUE
    BY <1>2, <2>1 DEF Session
  <2>2. CASE ok = FALSE
    BY <1>2, <2>2 DEF Session
  <2>3. ok = TRUE \/ ok = FALSE
    BY DEF ok
  <2> QED
    BY <2>1, <2>2, <2>3
<1> QED
  BY <1>1, <1>3

LEMMA TypesPASS == ASSUME TypeInv, cmdPASS PROVE TypeInv'
<1>1. pc = "cmd" /\ Working
  BY DEF cmdPASS, Is, Working
<1>2. me \in Session /\ me.ctlSocket = cmd.h /\ cmd.arg \in Arguments
  BY <1>1, MeType
<1> DEFINE s == passWord(me, cmd.arg.word)
           codes == IF s.loggedIn THEN <<230>> ELSE <<530>>
<1>3. s \in Session /\ s.ctlSocket = cmd.h
  BY <1>2, PassType DEF Arguments
<1>4. setSession(s) /\ Finish(codes) /\ simple /\ UNCHANGED <<sockets, files, failures>>
  BY DEF cmdPASS
<1>5. FilesType' /\ failures' \in 0 .. MaxFailures
  BY <1>4, FailType DEF TypeInv, FilesType
<1>6. codes \in Seq(Nat)
  OBVIOUS
<1> HIDE DEF s, codes
<1> QED
  BY <1>1, <1>3, <1>4, <1>5, <1>6, TypesAfterSimple

LEMMA TypesOnlyReply == ASSUME TypeInv, onlyReply PROVE TypeInv'
<1>1. pc = "cmd" /\ Working
  BY DEF onlyReply, Working
<1>2. Finish(<<200>>) \/ Finish(<<530>>) \/ Finish(<<550>>) \/ Finish(<<502>>)
  BY Zenon DEF onlyReply
<1>4. simple /\ UNCHANGED <<sessions, sockets, files, failures>>
  BY DEF onlyReply
<1>5. FilesType' /\ failures' \in 0 .. MaxFailures
  BY <1>4, FailType DEF TypeInv, FilesType
<1>6. ASSUME NEW codes \in Seq(Nat), Finish(codes) PROVE TypeInv'
  BY <1>1, <1>4, <1>5, <1>6, TypesAfterSimple
<1>7. CASE Finish(<<200>>)
  <2>1. <<200>> \in Seq(Nat)
    OBVIOUS
  <2> QED
    BY <1>6, <1>7, <2>1, Zenon
<1>8. CASE Finish(<<530>>)
  <2>1. <<530>> \in Seq(Nat)
    OBVIOUS
  <2> QED
    BY <1>6, <1>8, <2>1, Zenon
<1>9. CASE Finish(<<550>>)
  <2>1. <<550>> \in Seq(Nat)
    OBVIOUS
  <2> QED
    BY <1>6, <1>9, <2>1, Zenon
<1>10. CASE Finish(<<502>>)
  <2>1. <<502>> \in Seq(Nat)
    OBVIOUS
  <2> QED
    BY <1>6, <1>10, <2>1, Zenon
<1> QED
  BY <1>2, <1>7, <1>8, <1>9, <1>10

LEMMA TypesCWD == ASSUME TypeInv, cmdCWD PROVE TypeInv'
<1>1. pc = "cmd" /\ Working
  BY DEF cmdCWD, Is, Working
<1>2. me \in Session /\ me.ctlSocket = cmd.h /\ cmd.arg \in Arguments
  BY <1>1, MeType
<1> DEFINE d == IF cmd.cmd = "CDUP" THEN Root
                ELSE IF cmd.arg.is = "none" THEN Invalid ELSE getDirIdx(me, cmd.arg)
<1>3. d \in Places
  <2>1. me.currDisk \in Disk
    BY <1>2 DEF Session
  <2> QED
    BY <1>2, <2>1, PathType DEF Places, Disk
<1>4. \/ Finish(<<550>>) /\ UNCHANGED sessions
      \/ Finish(<<250>>) /\ d >= Root /\ setSession([me EXCEPT !.currDisk = d])
  BY Zenon DEF cmdCWD
<1>5. d >= Root => d \in Disk
  BY <1>3 DEF Places, Disk, Root, Invalid, Loops
<1> HIDE DEF d
<1>6. UNCHANGED sessions \/ \E s \in Session : s.ctlSocket = cmd.h /\ setSession(s)
  <2>1. d >= Root => [me EXCEPT !.currDisk = d] \in Session
                       /\ [me EXCEPT !.currDisk = d].ctlSocket = cmd.h
    BY <1>2, <1>5 DEF Session
  <2> QED
    BY <1>4, <2>1
<1>7. simple /\ UNCHANGED <<sockets, files, failures>>
  BY DEF cmdCWD
<1>8. FilesType' /\ failures' \in 0 .. MaxFailures
  BY <1>7, FailType DEF TypeInv, FilesType
<1>9. ASSUME NEW codes \in Seq(Nat), Finish(codes) PROVE TypeInv'
  BY <1>1, <1>6, <1>7, <1>8, <1>9, TypesAfterSimple
<1>10. <<550>> \in Seq(Nat) /\ <<250>> \in Seq(Nat)
  OBVIOUS
<1> QED
  BY <1>4, <1>9, <1>10, Zenon

LEMMA TypesTYPE == ASSUME TypeInv, cmdTYPE PROVE TypeInv'
<1>1. pc = "cmd" /\ Working
  BY DEF cmdTYPE, Is, Working
<1>2. me \in Session /\ me.ctlSocket = cmd.h /\ cmd.arg \in Arguments
  BY <1>1, MeType
<1>3. Finish(<<200>>) \/ Finish(<<504>>)
  BY Zenon DEF cmdTYPE
<1> DEFINE s == [me EXCEPT !.ftpTrfBinary = (cmd.arg.word = "I")]
<1>4. s \in Session /\ s.ctlSocket = cmd.h
  BY <1>2 DEF Session
<1>5. UNCHANGED sessions \/ setSession(s)
  BY DEF cmdTYPE
<1>6. simple /\ UNCHANGED <<sockets, files, failures>>
  BY DEF cmdTYPE
<1>7. FilesType' /\ failures' \in 0 .. MaxFailures
  BY <1>6, FailType DEF TypeInv, FilesType
<1> HIDE DEF s
<1>8. ASSUME NEW codes \in Seq(Nat), Finish(codes) PROVE TypeInv'
  BY <1>1, <1>4, <1>5, <1>6, <1>7, <1>8, TypesAfterSimple
<1>9. <<200>> \in Seq(Nat) /\ <<504>> \in Seq(Nat)
  OBVIOUS
<1> QED
  BY <1>3, <1>8, <1>9, Zenon

(* DiskFor leads to no root.                                               *)
LEMMA DiskForType ==
  ASSUME NEW d \in Places \cup {Denied}
  PROVE  DiskFor(d) \in DiskIdx \cup {Invalid, Loops, Denied}
BY FtpAssumption DEF DiskFor, Places, Disk

(* Numbers of the places that are no disks.                                *)
LEMMA NoDisk == ASSUME NEW d \in DiskIdx PROVE d \in Nat /\ d \notin {Root, Invalid, Loops, Denied}
BY FtpAssumption, FS_CardinalityType DEF Root, Invalid, Loops, Denied

(* What the command that is worked on names.                               *)
LEMMA SpecOfMe ==
  ASSUME TypeInv, Working
  PROVE  /\ parseFullPath(me, cmd.arg) \in Places \cup {Denied}
         /\ getDirIdx(me, cmd.arg) \in Places
         /\ formatOf(me, cmd.arg) \in Formats
<1>1. me \in Session /\ cmd.arg \in Arguments
  BY MeType
<1>2. me.currDisk \in Disk /\ me.ftpTrfBinary \in BOOLEAN
  BY <1>1 DEF Session
<1> QED
  BY <1>1, <1>2, SpecType, PathType, FormatType

(* A file, changed.                                                        *)
LEMMA FileChanged ==
  ASSUME FilesType, NEW d \in DiskIdx, NEW nm \in Names, NEW e \in Files
  PROVE  [files EXCEPT ![d][nm] = e] \in [DiskIdx -> [Names -> Files]]
BY DEF FilesType

LEMMA AbsentType == Absent \in Files
BY DEF Absent, Files

LEMMA TypesDELE == ASSUME TypeInv, cmdDELE PROVE TypeInv'
<1>1. pc = "cmd" /\ Working
  BY DEF cmdDELE, Is, Working
<1> DEFINE d == DiskFor(parseFullPath(me, cmd.arg))
           nm == cmd.arg.name
           can == mayChange(d) /\ nm \in Names /\ files[d][nm].is
<1>2. FilesType
  BY DEF TypeInv
<1>3. CASE d \in {Invalid, Denied} /\ Finish(<<Refusal(d)>>) /\ UNCHANGED <<files, failures>>
  <2>1. <<Refusal(d)>> \in Seq(Nat)
    BY DEF Refusal
  <2>2. simple /\ UNCHANGED <<sessions, sockets>>
    BY DEF cmdDELE
  <2>3. FilesType' /\ failures' \in 0 .. MaxFailures
    BY <1>2, <1>3, FailType DEF FilesType
  <2> HIDE DEF d
  <2> QED
    BY <1>1, <1>3, <2>1, <2>2, <2>3, TypesAfterSimple
<1>4. CASE /\ IF can THEN Fail ELSE UNCHANGED failures
           /\ Finish(IF mayChange(d) /\ nm \notin Names THEN <<553>> ELSE <<550>>)
           /\ UNCHANGED files
  <2> DEFINE codes == IF mayChange(d) /\ nm \notin Names THEN <<553>> ELSE <<550>>
  <2>1. codes \in Seq(Nat)
    OBVIOUS
  <2>2. simple /\ UNCHANGED <<sessions, sockets>>
    BY DEF cmdDELE
  <2>3. FilesType' /\ failures' \in 0 .. MaxFailures
    BY <1>2, <1>4, FailType DEF FilesType
  <2>4. Finish(codes)
    BY <1>4
  <2> HIDE DEF codes, d
  <2> QED
    BY <1>1, <2>1, <2>2, <2>3, <2>4, TypesAfterSimple
<1>5. CASE /\ d \in DiskIdx /\ can
           /\ files' = [files EXCEPT ![d][nm] = Absent]
           /\ Finish(<<250>>) /\ UNCHANGED failures
  <2>1. <<250>> \in Seq(Nat)
    OBVIOUS
  <2>2. simple /\ UNCHANGED <<sessions, sockets>>
    BY DEF cmdDELE
  <2> HIDE DEF d
  <2>3. FilesType' /\ failures' \in 0 .. MaxFailures
    BY <1>2, <1>5, FailType, FileChanged, AbsentType DEF FilesType
  <2> QED
    BY <1>1, <1>5, <2>1, <2>2, <2>3, TypesAfterSimple
<1> QED
  BY <1>3, <1>4, <1>5 DEF cmdDELE

LEMMA TypesRNFR == ASSUME TypeInv, cmdRNFR PROVE TypeInv'
<1>1. pc = "cmd" /\ Working
  BY DEF cmdRNFR, Is, Working
<1>2. me \in Session /\ me.ctlSocket = cmd.h /\ cmd.arg \in Arguments
  BY <1>1, MeType
<1> DEFINE d == DiskFor(parseFullPath(me, cmd.arg))
           ok == d \in DiskIdx /\ cmd.arg.name \in Names
           none == [me EXCEPT !.renameDiskIdx = Root]
           some == [me EXCEPT !.renameDiskIdx = d, !.renameFrom = cmd.arg.name]
<1>3. none \in Session /\ none.ctlSocket = cmd.h
  BY <1>2 DEF Session, Disk
<1>4. ok => some \in Session /\ some.ctlSocket = cmd.h
  BY <1>2 DEF Session, Disk, Arguments, Strings
<1>5. simple /\ UNCHANGED <<sockets, files, failures>>
  BY DEF cmdRNFR
<1>6. FilesType' /\ failures' \in 0 .. MaxFailures
  BY <1>5, FailType DEF TypeInv, FilesType
<1>7. ASSUME NEW codes \in Seq(Nat), Finish(codes), NEW s \in Session, s.ctlSocket = cmd.h, setSession(s)
      PROVE  TypeInv'
  BY <1>1, <1>5, <1>6, <1>7, TypesAfterSimple
<1>8. CASE setSession(none) /\ Finish(IF d \in DiskIdx THEN <<553>> ELSE <<Refusal(d)>>)
  <2>1. (IF d \in DiskIdx THEN <<553>> ELSE <<Refusal(d)>>) \in Seq(Nat)
    BY DEF Refusal
  <2> HIDE DEF d, none
  <2> QED
    BY <1>3, <1>7, <1>8, <2>1
<1>9. CASE ok /\ setSession(some) /\ Finish(<<350>>)
  <2>1. <<350>> \in Seq(Nat)
    OBVIOUS
  <2> HIDE DEF d, some
  <2> QED
    BY <1>4, <1>7, <1>9, <2>1
<1> QED
  BY <1>8, <1>9 DEF cmdRNFR

(* A record of the file is one of its own kind.                            *)
LEMMA FileOf ==
  ASSUME FilesType, NEW d \in DiskIdx, NEW nm \in Names
  PROVE  files[d][nm] \in Files /\ files[d] \in [Names -> Files]
BY DEF FilesType

LEMMA TypesRNTO == ASSUME TypeInv, cmdRNTO PROVE TypeInv'
<1>1. pc = "cmd" /\ Working
  BY DEF cmdRNTO, Is, Working
<1>2. me \in Session /\ me.ctlSocket = cmd.h /\ cmd.arg \in Arguments
  BY <1>1, MeType
<1>3. FilesType
  BY DEF TypeInv
<1> DEFINE d     == DiskFor(parseFullPath(me, cmd.arg))
           from  == me.renameFrom
           to    == cmd.arg.name
           asked == me.renameDiskIdx # Root
           named == asked /\ d = me.renameDiskIdx /\ mayChange(d) /\ to \in Names
           s     == [me EXCEPT !.renameDiskIdx = Root]
           can   == files[d][from].is /\ ~files[d][to].is
<1>4. s \in Session /\ s.ctlSocket = cmd.h
  BY <1>2 DEF Session, Disk
<1>5. simple /\ UNCHANGED sockets
  BY DEF cmdRNTO
<1>6. ASSUME NEW codes \in Seq(Nat), Finish(codes), UNCHANGED sessions \/ setSession(s),
             FilesType', Fail \/ UNCHANGED failures
      PROVE  TypeInv'
  <2>1. failures' \in 0 .. MaxFailures
    BY <1>6, FailType
  <2> HIDE DEF s
  <2> QED
    BY <1>1, <1>4, <1>5, <1>6, <2>1, TypesAfterSimple
<1>7. UNCHANGED files => FilesType'
  BY <1>3 DEF FilesType
<1>8. CASE /\ Finish(IF asked THEN <<Refusal(d)>> ELSE <<503>>)
           /\ UNCHANGED <<sessions, files, failures>>
  <2> DEFINE codes == IF asked THEN <<Refusal(d)>> ELSE <<503>>
  <2>1. codes \in Seq(Nat)
    BY DEF Refusal
  <2>2. Finish(codes)
    BY <1>8
  <2> HIDE DEF codes, d, s
  <2> QED
    BY <1>6, <1>7, <1>8, <2>1, <2>2
<1>9. CASE /\ Finish(IF d = me.renameDiskIdx /\ mayChange(d) THEN <<553>> ELSE <<550>>)
           /\ setSession(s) /\ UNCHANGED <<files, failures>>
  <2> DEFINE codes == IF d = me.renameDiskIdx /\ mayChange(d) THEN <<553>> ELSE <<550>>
  <2>1. codes \in Seq(Nat) /\ Finish(codes)
    BY <1>9
  <2> HIDE DEF codes, d, s
  <2> QED
    BY <1>6, <1>7, <1>9, <2>1
<1>10. CASE /\ named /\ setSession(s) /\ can
            /\ files' = [files EXCEPT ![d][to] = files[d][from], ![d][from] = Absent]
            /\ Finish(<<250>>) /\ UNCHANGED failures
  <2>1. <<250>> \in Seq(Nat)
    OBVIOUS
  <2>2. d \in DiskIdx /\ to \in Names
    BY <1>2, <1>10 DEF Session, Disk
  <2> HIDE DEF d, s
  <2>3. from \in Names
    BY <1>2, <1>10 DEF Session
  <2>4. files' = [[files EXCEPT ![d][to] = files[d][from]] EXCEPT ![d][from] = Absent]
    BY <1>10
  <2>5. FilesType'
    BY <1>3, <2>2, <2>3, <2>4, AbsentType DEF FilesType
  <2> QED
    BY <1>6, <1>10, <2>1, <2>5
<1>11. CASE /\ named /\ setSession(s) /\ IF can THEN Fail ELSE UNCHANGED failures
            /\ Finish(<<550>>) /\ UNCHANGED files
  <2>1. <<550>> \in Seq(Nat)
    OBVIOUS
  <2> HIDE DEF d, s
  <2> QED
    BY <1>6, <1>7, <1>11, <2>1
<1> QED
  BY <1>8, <1>9, <1>10, <1>11 DEF cmdRNTO

(* Sockets that are opened and closed.                                     *)
LEMMA SocketTypes ==
  ASSUME WatchType
  PROVE  /\ \A ns : Close(ns) \in [Numbers -> Socket]
         /\ \A n \in Numbers, c \in Clients \cup {0}, use \in {"srv", "ctl", "psv", "data"} :
              Open(n, use, c) \in [Numbers -> Socket]
<1>1. sockets \in [Numbers -> Socket] /\ Closed \in Socket
  BY DEF WatchType, Closed, Socket
<1>2. ASSUME NEW ns PROVE Close(ns) \in [Numbers -> Socket]
  BY <1>1 DEF Close
<1>3. ASSUME NEW n \in Numbers, NEW c \in Clients \cup {0}, NEW use \in {"srv", "ctl", "psv", "data"}
      PROVE  Open(n, use, c) \in [Numbers -> Socket]
  <2>1. [use |-> use, client |-> c] \in Socket
    BY <1>3 DEF Socket
  <2> QED
    BY <1>1, <2>1 DEF Open
<1> QED
  BY <1>2, <1>3

(* The clients when what waits at a passive socket is gone.                *)
LEMMA UnqueuedType ==
  ASSUME ClientsType, NEW c \in Clients
  PROVE  /\ ClientsFit(Unqueued(c))
         /\ \A d \in Clients : Unqueued(c)[d] = IF d = c THEN [clients[c] EXCEPT !.queued = <<>>]
                                                ELSE clients[d]
<1>1. clients[c] \in Client /\ clients \in [Clients -> Client]
  BY DEF ClientsType
<1>2. [clients[c] EXCEPT !.queued = <<>>] \in Client
  <2>1. ASSUME NEW q \in Seq(Nat) PROVE [clients[c] EXCEPT !.queued = q] \in Client
    BY <1>1, <2>1 DEF Client
  <2>2. <<>> \in Seq(Nat)
    OBVIOUS
  <2> QED
    BY <2>1, <2>2
<1>3. Unqueued(c) = [clients EXCEPT ![c] = [clients[c] EXCEPT !.queued = <<>>]]
  <2>1. Unqueued(c) = [clients EXCEPT ![c].queued = <<>>]
    BY Zenon DEF Unqueued
  <2>2. [clients EXCEPT ![c].queued = <<>>]
          = [clients EXCEPT ![c] = [clients[c] EXCEPT !.queued = <<>>]]
    OBVIOUS
  <2> QED
    BY <2>1, <2>2
<1>4. \A d \in Clients : Unqueued(c)[d] = IF d = c THEN [clients[c] EXCEPT !.queued = <<>>]
                                          ELSE clients[d]
  BY <1>1, <1>3
<1>5. Unqueued(c) \in [Clients -> Client]
  BY <1>1, <1>2, <1>3
<1>6. /\ [clients[c] EXCEPT !.queued = <<>>].sent = clients[c].sent
      /\ [clients[c] EXCEPT !.queued = <<>>].script = clients[c].script
      /\ [clients[c] EXCEPT !.queued = <<>>].unread = clients[c].unread
  BY <1>1 DEF Client
<1> QED
  BY <1>4, <1>5, <1>6 DEF ClientsFit, ClientsType

(* What dropClientSock does.                                               *)
LEMMA Dropped ==
  ASSUME TypeInv, NEW n \in Ctls, dropClientSock(n)
  PROVE  /\ SessionAt(n) \in 1 .. Len(sessions) /\ sessions[SessionAt(n)].ctlSocket = n
         /\ Len(sessions') = Len(sessions) - 1
         /\ DOMAIN sessions = 1 .. Len(sessions) /\ DOMAIN sessions' = 1 .. Len(sessions) - 1
         /\ \A j \in 1 .. Len(sessions) - 1 :
              sessions'[j] = sessions[IF j < SessionAt(n) THEN j ELSE j + 1]
         /\ SessionsType' /\ Ctls \ {n} \subseteq Ctls'
<1>1. SessionAt(n) \in DOMAIN sessions /\ sessions[SessionAt(n)].ctlSocket = n
  BY DEF SessionAt, Ctls
<1>2. sessions \in Seq(Session) /\ DOMAIN sessions = 1 .. Len(sessions)
  BY DEF TypeInv, SessionsType
<1>3. sessions' = RemoveAt(sessions, SessionAt(n))
  BY DEF dropClientSock
<1>4. /\ sessions' \in Seq(Session) /\ Len(sessions') = Len(sessions) - 1
      /\ \A j \in 1 .. Len(sessions) - 1 :
           sessions'[j] = sessions[IF j < SessionAt(n) THEN j ELSE j + 1]
  BY <1>1, <1>2, <1>3, Removed
<1>5. DOMAIN sessions' = 1 .. Len(sessions) - 1
  BY <1>4
<1>6. ASSUME NEW m \in Ctls, m # n PROVE m \in Ctls'
  <2>1. PICK i \in 1 .. Len(sessions) : sessions[i].ctlSocket = m
    BY <1>2 DEF Ctls
  <2>2. i # SessionAt(n)
    BY <1>1, <1>6, <2>1
  <2> DEFINE j == IF i < SessionAt(n) THEN i ELSE i - 1
  <2>3. j \in 1 .. Len(sessions) - 1 /\ (IF j < SessionAt(n) THEN j ELSE j + 1) = i
    BY <1>1, <1>2, <2>2
  <2>4. sessions'[j] = sessions[i]
    BY <1>4, <2>3
  <2> HIDE DEF j
  <2> QED
    BY <1>5, <2>1, <2>3, <2>4 DEF Ctls
<1> QED
  BY <1>1, <1>2, <1>4, <1>5, <1>6 DEF SessionsType

LEMMA DroppedTypes ==
  ASSUME TypeInv, NEW n \in Ctls, dropClientSock(n), round.todo \subseteq Ctls
  PROVE  /\ sockets' \in [Numbers -> Socket]
         /\ clientSocks' \in SUBSET Numbers /\ clientSockCount' \in Int
         /\ round' \in [active : SUBSET Numbers, todo : SUBSET Numbers, done : BOOLEAN]
         /\ round'.todo \subseteq Ctls'
<1>1. WatchType
  BY DEF TypeInv
<1>2. sockets' \in [Numbers -> Socket]
  BY <1>1, SocketTypes DEF dropClientSock
<1>3. clientSocks' \in SUBSET Numbers /\ clientSockCount' \in Int
  BY <1>1 DEF dropClientSock, WatchType
<1>4. Ctls \ {n} \subseteq Ctls'
  BY Dropped
<1>5. round' = [round EXCEPT !.done = (@ \/ clientSockCount - 1 <= 0), !.todo = @ \ {n}]
  BY DEF dropClientSock
<1>6. round \in [active : SUBSET Numbers, todo : SUBSET Numbers, done : BOOLEAN]
  BY <1>1 DEF WatchType
<1>7. round' \in [active : SUBSET Numbers, todo : SUBSET Numbers, done : BOOLEAN]
  BY <1>5, <1>6
<1>8. round'.todo = round.todo \ {n}
  BY <1>5, <1>6
<1> QED
  BY <1>2, <1>3, <1>4, <1>7, <1>8

LEMMA TypesQUIT == ASSUME TypeInv, cmdQUIT PROVE TypeInv'
<1> DEFINE codes == IF cmd.cmd = "QUIT" THEN <<221>> ELSE <<>>
<1>1. pc = "cmd" /\ Working
  BY DEF cmdQUIT, Is, Working
<1>2. cmd.h \in Ctls /\ round.todo \subseteq Ctls
  BY <1>1 DEF TypeInv, WorkType
<1>3. me.client \in Clients
  BY <1>1, MeType
<1>4. dropClientSock(cmd.h) /\ FinishFrom(Unqueued(me.client), codes)
      /\ UNCHANGED <<srvSocket, lastSockPlus1, f, trfSocket, xfer, files, failures>>
  BY DEF cmdQUIT
<1>5. SessionsType'
  BY <1>2, <1>4, Dropped
<1>6. ClientsFit(Unqueued(me.client))
  BY <1>3, UnqueuedType DEF TypeInv
<1>7. FilesType' /\ failures' \in 0 .. MaxFailures /\ codes \in Seq(Nat)
  BY <1>4, FailType, CodesType DEF TypeInv, FilesType
<1>8. /\ sockets' \in [Numbers -> Socket]
      /\ clientSocks' \in SUBSET Numbers /\ clientSockCount' \in Int
      /\ round' \in [active : SUBSET Numbers, todo : SUBSET Numbers, done : BOOLEAN]
      /\ round'.todo \subseteq Ctls'
  BY <1>2, <1>4, DroppedTypes
<1>9. UNCHANGED <<srvSocket, lastSockPlus1, trfSocket, xfer>>
  BY <1>4
<1> HIDE DEF codes
<1> QED
  BY <1>1, <1>4, <1>5, <1>6, <1>7, <1>8, <1>9, TypesAfterCommand

(* The watch set and the sessions still to be looked at stay.              *)
LEMMA SimpleTypes ==
  ASSUME TypeInv, Working, simple, Ctls' = Ctls
  PROVE  /\ UNCHANGED <<srvSocket, lastSockPlus1, trfSocket, xfer>>
         /\ clientSocks' \in SUBSET Numbers /\ clientSockCount' \in Int
         /\ round' \in [active : SUBSET Numbers, todo : SUBSET Numbers, done : BOOLEAN]
         /\ round'.todo \subseteq Ctls'
BY DEF simple, watch, TypeInv, WatchType, WorkType

LEMMA TypesPASV == ASSUME TypeInv, cmdPASV PROVE TypeInv'
<1>1. pc = "cmd" /\ Working /\ simple /\ UNCHANGED files
  BY DEF cmdPASV, Is, Working
<1>2. me \in Session /\ me.ctlSocket = cmd.h /\ me.client \in Clients
  BY <1>1, MeType
<1>3. FilesType'
  BY <1>1 DEF TypeInv, FilesType
<1> DEFINE n == NewNumber
           s == [me EXCEPT !.psvSocket = n, !.havingActiveClientAddr = FALSE]
<1>4. CASE /\ Finish(<<227>>) \/ Finish(<<500>>)
           /\ UNCHANGED <<sessions, sockets>>
           /\ Fail \/ UNCHANGED failures
  <2>1. failures' \in 0 .. MaxFailures
    BY <1>4, FailType
  <2>2. ASSUME NEW codes \in Seq(Nat), Finish(codes) PROVE TypeInv'
    BY <1>1, <1>3, <1>4, <2>1, <2>2, TypesAfterSimple
  <2>3. <<227>> \in Seq(Nat) /\ <<500>> \in Seq(Nat)
    BY CodesType
  <2>4. CASE Finish(<<227>>)
    BY <2>2, <2>3, <2>4
  <2>5. CASE Finish(<<500>>)
    BY <2>2, <2>3, <2>5
  <2> QED
    BY <1>4, <2>4, <2>5
<1>5. CASE /\ n >= 0 /\ sockets' = Open(n, "psv", me.client) /\ setSession(s)
           /\ Finish(<<227>>) /\ UNCHANGED failures
  <2>1. n \in Numbers /\ n \in Sock
    BY <1>5, NewNumberType
  <2>2. s \in Session /\ s.ctlSocket = cmd.h
    BY <1>2, <2>1 DEF Session
  <2>3. sockets' \in [Numbers -> Socket]
    BY <1>2, <1>5, <2>1, SocketTypes DEF TypeInv
  <2> HIDE DEF s, n
  <2>4. SessionsType' /\ Ctls' = Ctls
    BY <1>1, <1>5, <2>2, SetSession
  <2>5. ClientsFit(clients) /\ <<227>> \in Seq(Nat)
    BY DEF TypeInv, ClientsType, ClientsFit
  <2>7. FinishFrom(clients, <<227>>)
    BY <1>5, Zenon DEF Finish
  <2>6. failures' \in 0 .. MaxFailures
    BY <1>5, FailType
  <2> QED
    BY <1>1, <1>3, <2>3, <2>4, <2>5, <2>6, <2>7, SimpleTypes, TypesAfterCommand
<1> QED
  BY <1>4, <1>5 DEF cmdPASV

LEMMA TypesPORT == ASSUME TypeInv, cmdPORT PROVE TypeInv'
<1>1. pc = "cmd" /\ Working /\ simple /\ UNCHANGED <<files, failures>>
  BY DEF cmdPORT, Is, Working
<1>2. me \in Session /\ me.ctlSocket = cmd.h /\ me.client \in Clients
  BY <1>1, MeType
<1>3. FilesType' /\ failures' \in 0 .. MaxFailures
  BY <1>1, FailType DEF TypeInv, FilesType
<1> DEFINE s == [me EXCEPT !.havingActiveClientAddr = TRUE, !.psvSocket = -1]
<1>4. CASE Finish(<<501>>) /\ UNCHANGED <<sessions, sockets>>
  <2>1. <<501>> \in Seq(Nat)
    OBVIOUS
  <2> QED
    BY <1>1, <1>3, <1>4, <2>1, TypesAfterSimple
<1>5. CASE /\ setSession(s) /\ sockets' = Close({me.psvSocket} \cap Numbers)
           /\ FinishFrom(Unqueued(me.client), <<200>>)
  <2>1. s \in Session /\ s.ctlSocket = cmd.h
    BY <1>2 DEF Session, Sock
  <2>2. sockets' \in [Numbers -> Socket]
    BY <1>5, SocketTypes DEF TypeInv
  <2> HIDE DEF s
  <2>3. SessionsType' /\ Ctls' = Ctls
    BY <1>1, <1>5, <2>1, SetSession
  <2>4. ClientsFit(Unqueued(me.client))
    BY <1>2, UnqueuedType DEF TypeInv
  <2>5. <<200>> \in Seq(Nat)
    OBVIOUS
  <2> QED
    BY <1>1, <1>3, <1>5, <2>2, <2>3, <2>4, <2>5, SimpleTypes, TypesAfterCommand
<1> QED
  BY <1>4, <1>5 DEF cmdPORT

-----------------------------------------------------------------------------
(* Records and buffers.                                                    *)

(* The buffer has room for a record.                                       *)
LEMMA PacketRoom == PACKETLEN \in Nat /\ PACKETLEN > 1
BY FtpAssumption

(* The buffer and what is sent are made of the same pieces.                *)
LEMMA UnitType ==
  ASSUME NEW S, NEW buf \in Seq(S), NEW unit \in Seq(S), NEW ok
  PROVE  transmitUnit(buf, unit, ok).buf \in Seq(S) /\ transmitUnit(buf, unit, ok).out \in Seq(S)
<1> DEFINE k == Min({PACKETLEN, Len(unit)})
           cut == SubSeq(unit, 1, k)
<1>1. {PACKETLEN, Len(unit)} \subseteq Nat
  BY PacketRoom
<1>2. k \in Nat /\ k <= Len(unit)
  <2>1. {PACKETLEN, Len(unit)} # {} /\ Len(unit) \in {PACKETLEN, Len(unit)}
    OBVIOUS
  <2> QED
    BY <1>1, <2>1, MinOf
<1>3. cut \in Seq(S)
  <2> HIDE DEF k
  <2> QED
    BY <1>2
<1>4. buf \o cut \in Seq(S)
  <2> HIDE DEF cut
  <2> QED
    BY <1>3
<1>5. <<>> \in Seq(S)
  OBVIOUS
<1>6. \/ transmitUnit(buf, unit, ok) = [buf |-> cut, out |-> buf]
      \/ transmitUnit(buf, unit, ok) = [buf |-> buf, out |-> <<>>]
      \/ transmitUnit(buf, unit, ok) = [buf |-> buf \o cut, out |-> <<>>]
  BY DEF transmitUnit
<1> HIDE DEF cut
<1>7. CASE transmitUnit(buf, unit, ok) = [buf |-> cut, out |-> buf]
  BY <1>3, <1>7
<1>8. CASE transmitUnit(buf, unit, ok) = [buf |-> buf, out |-> <<>>]
  BY <1>5, <1>8
<1>9. CASE transmitUnit(buf, unit, ok) = [buf |-> buf \o cut, out |-> <<>>]
  BY <1>4, <1>5, <1>9
<1> QED
  BY <1>6, <1>7, <1>8, <1>9

(* A record without the blanks at its end.                                 *)
LEMMA TrimmedType ==
  ASSUME NEW rec \in Records
  PROVE  trimmed(rec) \in Seq(Nat) /\ Len(trimmed(rec)) \in 1 .. PACKETLEN - 1
<1> DEFINE T == {1} \cup {i \in DOMAIN rec : rec[i] # BLANK}
<1>1. rec \in Seq(Nat) /\ Len(rec) \in 1 .. PACKETLEN - 1 /\ DOMAIN rec = 1 .. Len(rec)
  BY DEF Records
<1>2. T \subseteq 0 .. Len(rec) /\ T # {} /\ T \subseteq 1 .. Len(rec) /\ Len(rec) \in Nat
  BY <1>1
<1>3. Max(T) \in 1 .. Len(rec)
  BY <1>2, MaxOf
<1>4. trimmed(rec) = SubSeq(rec, 1, Max(T))
  BY DEF trimmed
<1> HIDE DEF T
<1>5. \A i \in 1 .. Max(T) : rec[i] \in Nat
  BY <1>1, <1>3
<1>6. SubSeq(rec, 1, Max(T)) \in Seq(Nat) /\ Len(SubSeq(rec, 1, Max(T))) = Max(T)
  BY <1>1, <1>3, <1>5, SubSeqProperties
<1> QED
  BY <1>1, <1>3, <1>4, <1>6, PacketRoom

(* What is sent for a record fits into the buffer.                         *)
LEMMA RecordUnit ==
  ASSUME NEW rec \in Records, NEW binary \in BOOLEAN
  PROVE  unitOf(rec, binary) \in Seq(Nat) /\ Len(unitOf(rec, binary)) <= PACKETLEN
<1>1. rec \in Seq(Nat) /\ Len(rec) \in 1 .. PACKETLEN - 1
  BY DEF Records
<1>2. trimmed(rec) \in Seq(Nat) /\ Len(trimmed(rec)) \in 1 .. PACKETLEN - 1
  BY TrimmedType
<1>3. trimmed(rec) \o <<LF>> \in Seq(Nat) /\ Len(trimmed(rec) \o <<LF>>) = Len(trimmed(rec)) + 1
  BY <1>2 DEF LF
<1> QED
  BY <1>1, <1>2, <1>3, PacketRoom DEF unitOf

(* A record is filled up, but not over the end of the buffer.              *)
LEMMA RecordType ==
  ASSUME NEW format \in Formats, NEW bytes \in Seq(Nat), Len(bytes) < PACKETLEN
  PROVE  /\ recordOf(bytes, format) \in Records
         /\ Len(recordOf(bytes, format)) >= Len(bytes)
         /\ \A i \in 1 .. Len(recordOf(bytes, format)) :
              recordOf(bytes, format)[i] = IF i <= Len(bytes) THEN bytes[i] ELSE BLANK
         /\ Len(bytes) <= Max({1, format.lrecl})
              => Len(recordOf(bytes, format)) <= Max({1, format.lrecl})
<1> DEFINE least == IF format.recfm = "F" THEN format.lrecl ELSE 1
           T == {1, Len(bytes), least}
<1>1. T \subseteq 0 .. PACKETLEN - 1 /\ T # {} /\ PACKETLEN - 1 \in Nat
  BY PacketRoom DEF Formats, Lrecls
<1>2. Max(T) \in T /\ \A y \in T : y <= Max(T)
  <2> HIDE DEF T
  <2> QED
    BY <1>1, MaxOf
<1>3. Max(T) \in 1 .. PACKETLEN - 1 /\ Len(bytes) <= Max(T)
  BY <1>1, <1>2
<1>4. recordOf(bytes, format) = [i \in 1 .. Max(T) |-> IF i <= Len(bytes) THEN bytes[i] ELSE BLANK]
  BY DEF recordOf
<1>5. Len(bytes) <= Max({1, format.lrecl}) => Max(T) <= Max({1, format.lrecl})
  <2>1. format.lrecl \in Nat
    BY PacketRoom DEF Formats, Lrecls
  <2>2. Max({1, format.lrecl}) = IF 1 <= format.lrecl THEN format.lrecl ELSE 1
    BY <2>1, MaxOfTwo
  <2> QED
    BY <1>2, <2>1, <2>2
<1> HIDE DEF T
<1>6. ASSUME NEW i \in 1 .. Max(T) PROVE (IF i <= Len(bytes) THEN bytes[i] ELSE BLANK) \in Nat
  BY <1>3 DEF BLANK
<1>7. [i \in 1 .. Max(T) |-> IF i <= Len(bytes) THEN bytes[i] ELSE BLANK] \in [1 .. Max(T) -> Nat]
  BY <1>6
<1>8. recordOf(bytes, format) \in Seq(Nat) /\ Len(recordOf(bytes, format)) = Max(T)
  <2>1. recordOf(bytes, format) \in [1 .. Max(T) -> Nat]
    BY <1>4, <1>7
  <2>2. Max(T) \in Nat
    BY <1>3
  <2> QED
    BY <2>1, <2>2
<1>9. \A i \in 1 .. Max(T) :
        recordOf(bytes, format)[i] = IF i <= Len(bytes) THEN bytes[i] ELSE BLANK
  BY <1>4, Zenon
<1>10. recordOf(bytes, format) \in Records
  BY <1>3, <1>8 DEF Records
<1> QED
  BY <1>3, <1>5, <1>8, <1>9, <1>10

(* The states of takeChunk.                                                *)
Taken(format) == [fill : Fills(format), recs : Seq(Records)]

LEMMA TakenType ==
  ASSUME NEW format \in Formats, NEW s \in Taken(format), NEW b \in Nat \ {BLANK}
  PROVE  takeByte(s, b, format) \in Taken(format)
<1>1. s.fill \in Seq(Nat \ {BLANK}) /\ s.recs \in Seq(Records) /\ format.lrecl \in 0 .. PACKETLEN - 1
  BY DEF Taken, Fills, Formats, Lrecls
<1> DEFINE fill == Append(s.fill, b)
<1>2. fill \in Seq(Nat \ {BLANK}) /\ Len(fill) = Len(s.fill) + 1
  BY <1>1
<1>3. Len(s.fill) < PACKETLEN /\ Len(fill) < PACKETLEN
  <2>1. s.fill = <<>> \/ Len(s.fill) < format.lrecl
    BY DEF Taken, Fills
  <2>2. CASE s.fill = <<>>
    BY <1>2, <2>2, PacketRoom
  <2>3. CASE Len(s.fill) < format.lrecl
    BY <1>1, <1>2, <2>3, PacketRoom
  <2> QED
    BY <2>1, <2>2, <2>3
<1>4. s.fill \in Seq(Nat) /\ fill \in Seq(Nat)
  BY <1>1, <1>2
<1> HIDE DEF fill
<1>5. recordOf(s.fill, format) \in Records /\ recordOf(fill, format) \in Records
  BY <1>3, <1>4, RecordType
<1>6. <<>> \in Fills(format)
  BY DEF Fills
<1>7. [fill |-> <<>>, recs |-> Append(s.recs, recordOf(s.fill, format))] \in Taken(format)
  BY <1>1, <1>5, <1>6 DEF Taken
<1>8. [fill |-> <<>>, recs |-> Append(s.recs, recordOf(fill, format))] \in Taken(format)
  BY <1>1, <1>5, <1>6 DEF Taken
<1>9. Len(fill) < format.lrecl => [s EXCEPT !.fill = fill] \in Taken(format)
  BY <1>2 DEF Taken, Fills
<1>10. \/ takeByte(s, b, format) = [fill |-> <<>>, recs |-> Append(s.recs, recordOf(s.fill, format))]
       \/ takeByte(s, b, format) = [fill |-> <<>>, recs |-> Append(s.recs, recordOf(fill, format))]
       \/ takeByte(s, b, format) = [s EXCEPT !.fill = fill] /\ Len(fill) < format.lrecl
  BY <1>1, <1>2 DEF takeByte, fill
<1> QED
  BY <1>7, <1>8, <1>9, <1>10

-----------------------------------------------------------------------------
(* The recursive definitions, unfolded.                                    *)

(* What takeChunk runs through.                                            *)
LEMMA TakeBytes ==
  ASSUME NEW format \in Formats, NEW start \in Taken(format), NEW chunk \in Seq(Nat \ {BLANK})
  PROVE  \E w \in [0 .. Len(chunk) -> Taken(format)] :
           /\ w[0] = start
           /\ \A i \in 1 .. Len(chunk) : w[i] = takeByte(w[i - 1], chunk[i], format)
           /\ takeBytes(start, chunk, format) = w[Len(chunk)]
<1> DEFINE n == Len(chunk)
           V == Taken(format)
           b == start
           Step(x, i) == takeByte(x, chunk[i], format)
           g == [x \in (1 .. n) \X V |-> Step(x[2], x[1])]
           Def(w) == [i \in 0 .. n |-> IF i = 0 THEN b ELSE Step(w[i - 1], i)]
           at == CHOOSE w : w = Def(w)
<1>1. n \in Nat /\ b \in V
  OBVIOUS
<1>2. ASSUME NEW i \in 1 .. n, NEW x \in V PROVE Step(x, i) \in V
  BY <1>2, TakenType
<1>3. g \in StepsIn(n, V)
  <2> HIDE DEF n, V, Step
  <2> QED
    BY <1>2 DEF StepsIn
<1>4. PICK v \in [0 .. n -> V] : RunsThrough(v, n, b, g)
  <2> HIDE DEF n, V, b, g
  <2> QED
    BY <1>1, <1>3, Recursion
<1>5. ASSUME NEW i \in 1 .. n PROVE v[i] = Step(v[i - 1], i)
  <2> HIDE DEF n, V, b, Step
  <2>1. i - 1 \in 0 .. n
    BY <1>1
  <2>2. <<i, v[i - 1]>> \in (1 .. n) \X V
    BY <2>1
  <2>3. g[<<i, v[i - 1]>>] = Step(v[i - 1], i)
    BY <2>2
  <2> QED
    BY <1>4, <2>3 DEF RunsThrough
<1>6. v = Def(v)
  <2>1. v = [i \in 0 .. n |-> v[i]]
    OBVIOUS
  <2>2. \A i \in 0 .. n : v[i] = IF i = 0 THEN b ELSE Step(v[i - 1], i)
    <3> HIDE DEF n, V, b, g, Step
    <3>1. v[0] = b
      BY <1>4, Zenon DEF RunsThrough
    <3>2. ASSUME NEW i \in 0 .. n, i # 0 PROVE v[i] = Step(v[i - 1], i)
      <4>1. i \in 1 .. n
        BY <1>1, <3>2
      <4> QED
        BY <4>1, <1>5
    <3> QED
      BY <3>1, <3>2
  <2> HIDE DEF n, V, b, g, Step
  <2> QED
    BY <2>1, <2>2
<1>7. at = Def(at)
  <2> HIDE DEF n, V, b, g, Step
  <2> QED
    BY <1>6
<1>8. takeBytes(start, chunk, format) = at[n]
  BY DEF takeBytes
<1> HIDE DEF n, V, b, g, at, Step
<1>9. DOMAIN at = 0 .. n /\ at[0] = b /\ \A i \in 1 .. n : at[i] = Step(at[i - 1], i)
  BY <1>1, <1>7
<1>10. \A i \in 0 .. n : at[i] \in V
  <2> DEFINE T == {i \in 0 .. n : at[i] \in V}
  <2>1. 0 \in T
    BY <1>1, <1>9
  <2>2. ASSUME NEW i \in 0 .. n - 1, i \in T PROVE i + 1 \in T
    <3>1. i + 1 \in 1 .. n /\ (i + 1) - 1 = i /\ at[i] \in V
      BY <1>1, <2>2
    <3>2. at[i + 1] = Step(at[i], i + 1)
      BY <1>9, <3>1
    <3> QED
      BY <1>1, <1>2, <3>1, <3>2
  <2>3. \A i \in 0 .. n - 1 : i \in T => i + 1 \in T
    BY <2>2
  <2>4. \A i \in 0 .. n : i \in T
    <3> HIDE DEF T
    <3> QED
      BY <1>1, <2>1, <2>3, Inductive
  <2> QED
    BY <2>4
<1>11. at \in [0 .. n -> V]
  <2>1. at = [i \in 0 .. n |-> at[i]]
    BY <1>7 DEF Def
  <2> QED
    BY <2>1, <1>10
<1>12. \E w \in [0 .. n -> V] :
          w[0] = b /\ (\A i \in 1 .. n : w[i] = Step(w[i - 1], i)) /\ takeBytes(start, chunk, format) = w[n]
  BY <1>8, <1>9, <1>11
<1> QED
  BY <1>12 DEF n, V, b, Step

(* What the sending of units runs through.                                *)
Sends(w, units, ok) ==
  /\ w[0] = [buf |-> <<>>, out |-> <<>>]
  /\ \A i \in 1 .. Len(units) :
       w[i] = [buf |-> transmitUnit(w[i - 1].buf, units[i], ok).buf,
               out |-> w[i - 1].out \o transmitUnit(w[i - 1].buf, units[i], ok).out]

LEMMA TransmitUnits ==
  ASSUME NEW S, NEW units \in Seq(Seq(S)), NEW ok
  PROVE  \E w \in [0 .. Len(units) -> [buf : Seq(S), out : Seq(S)]] :
           Sends(w, units, ok) /\ transmitUnits(units, ok) = w[Len(units)]
<1> DEFINE n == Len(units)
           V == [buf : Seq(S), out : Seq(S)]
           b == [buf |-> <<>>, out |-> <<>>]
           Step(x, i) == [buf |-> transmitUnit(x.buf, units[i], ok).buf,
               out |-> x.out \o transmitUnit(x.buf, units[i], ok).out]
           g == [x \in (1 .. n) \X V |-> Step(x[2], x[1])]
           Def(w) == [i \in 0 .. n |-> IF i = 0 THEN b ELSE Step(w[i - 1], i)]
           at == CHOOSE w : w = Def(w)
<1>1. n \in Nat /\ b \in V
  OBVIOUS
<1>2. ASSUME NEW i \in 1 .. n, NEW x \in V PROVE Step(x, i) \in V
  <2>1. units[i] \in Seq(S) /\ x.buf \in Seq(S) /\ x.out \in Seq(S)
    OBVIOUS
  <2>2. /\ transmitUnit(x.buf, units[i], ok).buf \in Seq(S)
        /\ transmitUnit(x.buf, units[i], ok).out \in Seq(S)
    BY <2>1, UnitType
  <2> QED
    BY <2>1, <2>2
<1>3. g \in StepsIn(n, V)
  <2> HIDE DEF n, V, Step
  <2> QED
    BY <1>2 DEF StepsIn
<1>4. PICK v \in [0 .. n -> V] : RunsThrough(v, n, b, g)
  <2> HIDE DEF n, V, b, g
  <2> QED
    BY <1>1, <1>3, Recursion
<1>5. ASSUME NEW i \in 1 .. n PROVE v[i] = Step(v[i - 1], i)
  <2> HIDE DEF n, V, b, Step
  <2>1. i - 1 \in 0 .. n
    BY <1>1
  <2>2. <<i, v[i - 1]>> \in (1 .. n) \X V
    BY <2>1
  <2>3. g[<<i, v[i - 1]>>] = Step(v[i - 1], i)
    BY <2>2
  <2> QED
    BY <1>4, <2>3 DEF RunsThrough
<1>6. v = Def(v)
  <2>1. v = [i \in 0 .. n |-> v[i]]
    OBVIOUS
  <2>2. \A i \in 0 .. n : v[i] = IF i = 0 THEN b ELSE Step(v[i - 1], i)
    <3> HIDE DEF n, V, b, g, Step
    <3>1. v[0] = b
      BY <1>4, Zenon DEF RunsThrough
    <3>2. ASSUME NEW i \in 0 .. n, i # 0 PROVE v[i] = Step(v[i - 1], i)
      <4>1. i \in 1 .. n
        BY <1>1, <3>2
      <4> QED
        BY <4>1, <1>5
    <3> QED
      BY <3>1, <3>2
  <2> HIDE DEF n, V, b, g, Step
  <2> QED
    BY <2>1, <2>2
<1>7. at = Def(at)
  <2> HIDE DEF n, V, b, g, Step
  <2> QED
    BY <1>6
<1>8. transmitUnits(units, ok) = at[n]
  BY DEF transmitUnits
<1> HIDE DEF n, V, b, g, at, Step
<1>9. DOMAIN at = 0 .. n /\ at[0] = b /\ \A i \in 1 .. n : at[i] = Step(at[i - 1], i)
  BY <1>1, <1>7
<1>10. \A i \in 0 .. n : at[i] \in V
  <2> DEFINE T == {i \in 0 .. n : at[i] \in V}
  <2>1. 0 \in T
    BY <1>1, <1>9
  <2>2. ASSUME NEW i \in 0 .. n - 1, i \in T PROVE i + 1 \in T
    <3>1. i + 1 \in 1 .. n /\ (i + 1) - 1 = i /\ at[i] \in V
      BY <1>1, <2>2
    <3>2. at[i + 1] = Step(at[i], i + 1)
      BY <1>9, <3>1
    <3> QED
      BY <1>1, <1>2, <3>1, <3>2
  <2>3. \A i \in 0 .. n - 1 : i \in T => i + 1 \in T
    BY <2>2
  <2>4. \A i \in 0 .. n : i \in T
    <3> HIDE DEF T
    <3> QED
      BY <1>1, <2>1, <2>3, Inductive
  <2> QED
    BY <2>4
<1>11. at \in [0 .. n -> V]
  <2>1. at = [i \in 0 .. n |-> at[i]]
    BY <1>7 DEF Def
  <2> QED
    BY <2>1, <1>10
<1>12. \E w \in [0 .. n -> V] :
          w[0] = b /\ (\A i \in 1 .. n : w[i] = Step(w[i - 1], i)) /\ transmitUnits(units, ok) = w[n]
  BY <1>8, <1>9, <1>11
<1> QED
  BY <1>12 DEF n, V, b, Step, Sends

(* What Sift runs through.                                                *)
Sifts(w, bytes, drop) ==
  /\ w[0] = <<>>
  /\ \A i \in 1 .. Len(bytes) :
       w[i] = IF bytes[i] \in drop THEN w[i - 1] ELSE Append(w[i - 1], bytes[i])

LEMMA Sifting ==
  ASSUME NEW S, NEW bytes \in Seq(S), NEW drop
  PROVE  \E w \in [0 .. Len(bytes) -> Seq(S)] :
           Sifts(w, bytes, drop) /\ Sift(bytes, drop) = w[Len(bytes)]
<1> DEFINE n == Len(bytes)
           V == Seq(S)
           b == <<>>
           Step(x, i) == IF bytes[i] \in drop THEN x ELSE Append(x, bytes[i])
           g == [x \in (1 .. n) \X V |-> Step(x[2], x[1])]
           Def(w) == [i \in 0 .. n |-> IF i = 0 THEN b ELSE Step(w[i - 1], i)]
           at == CHOOSE w : w = Def(w)
<1>1. n \in Nat /\ b \in V
  OBVIOUS
<1>2. ASSUME NEW i \in 1 .. n, NEW x \in V PROVE Step(x, i) \in V
  OBVIOUS
<1>3. g \in StepsIn(n, V)
  <2> HIDE DEF n, V, Step
  <2> QED
    BY <1>2 DEF StepsIn
<1>4. PICK v \in [0 .. n -> V] : RunsThrough(v, n, b, g)
  <2> HIDE DEF n, V, b, g
  <2> QED
    BY <1>1, <1>3, Recursion
<1>5. ASSUME NEW i \in 1 .. n PROVE v[i] = Step(v[i - 1], i)
  <2> HIDE DEF n, V, b, Step
  <2>1. i - 1 \in 0 .. n
    BY <1>1
  <2>2. <<i, v[i - 1]>> \in (1 .. n) \X V
    BY <2>1
  <2>3. g[<<i, v[i - 1]>>] = Step(v[i - 1], i)
    BY <2>2
  <2> QED
    BY <1>4, <2>3 DEF RunsThrough
<1>6. v = Def(v)
  <2>1. v = [i \in 0 .. n |-> v[i]]
    OBVIOUS
  <2>2. \A i \in 0 .. n : v[i] = IF i = 0 THEN b ELSE Step(v[i - 1], i)
    <3> HIDE DEF n, V, b, g, Step
    <3>1. v[0] = b
      BY <1>4, Zenon DEF RunsThrough
    <3>2. ASSUME NEW i \in 0 .. n, i # 0 PROVE v[i] = Step(v[i - 1], i)
      <4>1. i \in 1 .. n
        BY <1>1, <3>2
      <4> QED
        BY <4>1, <1>5
    <3> QED
      BY <3>1, <3>2
  <2> HIDE DEF n, V, b, g, Step
  <2> QED
    BY <2>1, <2>2
<1>7. at = Def(at)
  <2> HIDE DEF n, V, b, g, Step
  <2> QED
    BY <1>6
<1>8. Sift(bytes, drop) = at[n]
  BY DEF Sift
<1> HIDE DEF n, V, b, g, at, Step
<1>9. DOMAIN at = 0 .. n /\ at[0] = b /\ \A i \in 1 .. n : at[i] = Step(at[i - 1], i)
  BY <1>1, <1>7
<1>10. \A i \in 0 .. n : at[i] \in V
  <2> DEFINE T == {i \in 0 .. n : at[i] \in V}
  <2>1. 0 \in T
    BY <1>1, <1>9
  <2>2. ASSUME NEW i \in 0 .. n - 1, i \in T PROVE i + 1 \in T
    <3>1. i + 1 \in 1 .. n /\ (i + 1) - 1 = i /\ at[i] \in V
      BY <1>1, <2>2
    <3>2. at[i + 1] = Step(at[i], i + 1)
      BY <1>9, <3>1
    <3> QED
      BY <1>1, <1>2, <3>1, <3>2
  <2>3. \A i \in 0 .. n - 1 : i \in T => i + 1 \in T
    BY <2>2
  <2>4. \A i \in 0 .. n : i \in T
    <3> HIDE DEF T
    <3> QED
      BY <1>1, <2>1, <2>3, Inductive
  <2> QED
    BY <2>4
<1>11. at \in [0 .. n -> V]
  <2>1. at = [i \in 0 .. n |-> at[i]]
    BY <1>7 DEF Def
  <2> QED
    BY <2>1, <1>10
<1>12. \E w \in [0 .. n -> V] :
          w[0] = b /\ (\A i \in 1 .. n : w[i] = Step(w[i - 1], i)) /\ Sift(bytes, drop) = w[n]
  BY <1>8, <1>9, <1>11
<1> QED
  BY <1>12 DEF n, V, b, Step, Sifts

(* What Joined runs through.                                              *)
Joins(w, seqs) == w[0] = <<>> /\ \A i \in 1 .. Len(seqs) : w[i] = w[i - 1] \o seqs[i]

LEMMA Joining ==
  ASSUME NEW S, NEW seqs \in Seq(Seq(S))
  PROVE  \E w \in [0 .. Len(seqs) -> Seq(S)] : Joins(w, seqs) /\ Joined(seqs) = w[Len(seqs)]
<1> DEFINE n == Len(seqs)
           V == Seq(S)
           b == <<>>
           Step(x, i) == x \o seqs[i]
           g == [x \in (1 .. n) \X V |-> Step(x[2], x[1])]
           Def(w) == [i \in 0 .. n |-> IF i = 0 THEN b ELSE Step(w[i - 1], i)]
           at == CHOOSE w : w = Def(w)
<1>1. n \in Nat /\ b \in V
  OBVIOUS
<1>2. ASSUME NEW i \in 1 .. n, NEW x \in V PROVE Step(x, i) \in V
  <2>1. seqs[i] \in Seq(S)
    OBVIOUS
  <2> QED
    BY <2>1
<1>3. g \in StepsIn(n, V)
  <2> HIDE DEF n, V, Step
  <2> QED
    BY <1>2 DEF StepsIn
<1>4. PICK v \in [0 .. n -> V] : RunsThrough(v, n, b, g)
  <2> HIDE DEF n, V, b, g
  <2> QED
    BY <1>1, <1>3, Recursion
<1>5. ASSUME NEW i \in 1 .. n PROVE v[i] = Step(v[i - 1], i)
  <2> HIDE DEF n, V, b, Step
  <2>1. i - 1 \in 0 .. n
    BY <1>1
  <2>2. <<i, v[i - 1]>> \in (1 .. n) \X V
    BY <2>1
  <2>3. g[<<i, v[i - 1]>>] = Step(v[i - 1], i)
    BY <2>2
  <2> QED
    BY <1>4, <2>3 DEF RunsThrough
<1>6. v = Def(v)
  <2>1. v = [i \in 0 .. n |-> v[i]]
    OBVIOUS
  <2>2. \A i \in 0 .. n : v[i] = IF i = 0 THEN b ELSE Step(v[i - 1], i)
    <3> HIDE DEF n, V, b, g, Step
    <3>1. v[0] = b
      BY <1>4, Zenon DEF RunsThrough
    <3>2. ASSUME NEW i \in 0 .. n, i # 0 PROVE v[i] = Step(v[i - 1], i)
      <4>1. i \in 1 .. n
        BY <1>1, <3>2
      <4> QED
        BY <4>1, <1>5
    <3> QED
      BY <3>1, <3>2
  <2> HIDE DEF n, V, b, g, Step
  <2> QED
    BY <2>1, <2>2
<1>7. at = Def(at)
  <2> HIDE DEF n, V, b, g, Step
  <2> QED
    BY <1>6
<1>8. Joined(seqs) = at[n]
  BY DEF Joined
<1> HIDE DEF n, V, b, g, at, Step
<1>9. DOMAIN at = 0 .. n /\ at[0] = b /\ \A i \in 1 .. n : at[i] = Step(at[i - 1], i)
  BY <1>1, <1>7
<1>10. \A i \in 0 .. n : at[i] \in V
  <2> DEFINE T == {i \in 0 .. n : at[i] \in V}
  <2>1. 0 \in T
    BY <1>1, <1>9
  <2>2. ASSUME NEW i \in 0 .. n - 1, i \in T PROVE i + 1 \in T
    <3>1. i + 1 \in 1 .. n /\ (i + 1) - 1 = i /\ at[i] \in V
      BY <1>1, <2>2
    <3>2. at[i + 1] = Step(at[i], i + 1)
      BY <1>9, <3>1
    <3> QED
      BY <1>1, <1>2, <3>1, <3>2
  <2>3. \A i \in 0 .. n - 1 : i \in T => i + 1 \in T
    BY <2>2
  <2>4. \A i \in 0 .. n : i \in T
    <3> HIDE DEF T
    <3> QED
      BY <1>1, <2>1, <2>3, Inductive
  <2> QED
    BY <2>4
<1>11. at \in [0 .. n -> V]
  <2>1. at = [i \in 0 .. n |-> at[i]]
    BY <1>7 DEF Def
  <2> QED
    BY <2>1, <1>10
<1>12. \E w \in [0 .. n -> V] :
          w[0] = b /\ (\A i \in 1 .. n : w[i] = Step(w[i - 1], i)) /\ Joined(seqs) = w[n]
  BY <1>8, <1>9, <1>11
<1> QED
  BY <1>12 DEF n, V, b, Step, Joins

-----------------------------------------------------------------------------
(* Transfers start.                                                        *)

(* One client changes.                                                     *)
LEMMA ClientChanged ==
  ASSUME ClientsType, NEW c \in Clients, NEW q \in Client,
         q.sent <= Len(q.script), q.unread => q.sent > 0
  PROVE  /\ ClientsFit([clients EXCEPT ![c] = q])
         /\ \A d \in Clients : [clients EXCEPT ![c] = q][d] = IF d = c THEN q ELSE clients[d]
BY DEF ClientsType, ClientsFit

(* A preliminary reply.                                                    *)
LEMMA PreliminaryType ==
  ASSUME TypeInv, Working, NEW codes \in Seq(Nat), Preliminary(codes)
  PROVE  ClientsType'
<1>1. me.client \in Clients /\ clients[me.client] \in Client
  BY MeType
<1> DEFINE r == clients[me.client]
           q == [r EXCEPT !.replies = @ \o codes]
<1>2. clients' = [clients EXCEPT ![me.client] = q]
  BY DEF Preliminary
<1>3. q \in Client /\ q.sent = r.sent /\ q.script = r.script /\ q.unread = r.unread
  <2>1. r.replies \o codes \in Seq(Nat)
    BY <1>1 DEF Client
  <2> QED
    BY <1>1, <2>1 DEF Client
<1>4. ClientsType /\ q.sent <= Len(q.script) /\ (q.unread => q.sent > 0)
  BY <1>1, <1>3 DEF TypeInv, ClientsType
<1> HIDE DEF q
<1>5. ClientsFit(clients')
  BY <1>1, <1>2, <1>3, <1>4, ClientChanged
<1> QED
  BY <1>5 DEF ClientsFit, ClientsType

(* A step at whose end there is a transfer.                                *)
LEMMA TypesWhileMoving ==
  ASSUME TypeInv, Working, Moving', UNCHANGED <<watch, sessions, round, cmd>>,
         trfSocket' \in Sock, failures' \in 0 .. MaxFailures, sockets' \in [Numbers -> Socket],
         ClientsType', FilesType', XferType'
  PROVE  TypeInv'
<1>1. WatchType'
  BY DEF TypeInv, WatchType, watch
<1>2. SessionsType' /\ Ctls' = Ctls
  BY DEF TypeInv, SessionsType, Ctls
<1>3. WorkType'
  BY <1>2 DEF TypeInv, WorkType, Working, Moving
<1> QED
  BY <1>1, <1>2, <1>3 DEF TypeInv

(* A new transfer.                                                         *)
LEMMA TransferType ==
  ASSUME TypeInv, Working, cmd.cmd \in Transfers \cup {"STAT"},
         NEW d \in Disk \cup {Invalid}, NEW nm \in Strings
  PROVE  Transfer(d, nm) \in Xfer
<1>1. formatOf(me, cmd.arg) \in Formats /\ cmd.arg.data \in Seq(Nat \ {BLANK})
  BY MeType, SpecOfMe DEF Arguments
<1>2. -1 \in Sock /\ <<>> \in Seq(Nat) /\ <<>> \in Seq(Records)
  <2>1. <<>> \in Seq(Nat) /\ <<>> \in Seq(Records)
    OBVIOUS
  <2> QED
    BY <2>1 DEF Sock
<1> QED
  BY <1>1, <1>2 DEF Transfer, Xfer

(* The disks a path may stand for.                                         *)
LEMMA DisksType ==
  ASSUME NEW d \in Places \cup {Denied}, d >= Root, NEW e \in DisksAt(d)
  PROVE  d \in Disk /\ e \in Disk \cup {Invalid}
BY DEF DisksAt, Places, Disk, Root, Invalid, Loops, Denied

(* openFile has failed.                                                    *)
LEMMA TypesOpenError ==
  ASSUME TypeInv, pc = "cmd", openError, FilesType', Fail \/ UNCHANGED failures
  PROVE  TypeInv'
<1>1. Working /\ round.todo \subseteq Ctls /\ Ctls' = Ctls
  BY DEF openError, TypeInv, WorkType, Working, Ctls
<1>2. ClientsFit(clients) /\ FinishFrom(clients, <<550>>)
  BY DEF TypeInv, ClientsType, ClientsFit, Finish, openError
<1>3. failures' \in 0 .. MaxFailures
  BY FailType
<1>4. /\ UNCHANGED <<srvSocket, lastSockPlus1, trfSocket, xfer>>
      /\ clientSocks' \in SUBSET Numbers /\ clientSockCount' \in Int
      /\ round' \in [active : SUBSET Numbers, todo : SUBSET Numbers, done : BOOLEAN]
      /\ round'.todo \subseteq Ctls' /\ sockets' \in [Numbers -> Socket] /\ SessionsType'
  BY <1>1 DEF openError, watch, TypeInv, WatchType, SessionsType
<1>5. <<550>> \in Seq(Nat)
  OBVIOUS
<1> QED
  BY <1>2, <1>3, <1>4, <1>5, TypesAfterCommand

LEMMA TypesRefuse ==
  ASSUME TypeInv, pc = "cmd", NEW code \in Nat, refuse(code)
  PROVE  TypeInv'
<1>1. <<code>> \in Seq(Nat)
  OBVIOUS
<1>2. Finish(<<code>>) /\ simple /\ UNCHANGED <<sessions, sockets, files, failures>>
  BY DEF refuse
<1>3. FilesType' /\ failures' \in 0 .. MaxFailures
  BY <1>2, FailType DEF TypeInv, FilesType
<1> QED
  BY <1>1, <1>2, <1>3, TypesAfterSimple

LEMMA RefusalType == ASSUME NEW d PROVE Refusal(d) \in Nat
BY DEF Refusal

LEMMA TypesRETR == ASSUME TypeInv, cmdRETR PROVE TypeInv'
<1>1. pc = "cmd" /\ Working /\ cmd.cmd = "RETR"
  BY DEF cmdRETR, Is, Working
<1> DEFINE d == parseFullPath(me, cmd.arg)
           nm == cmd.arg.name
<1>2. CASE refuse(Refusal(d))
  BY <1>1, <1>2, RefusalType, TypesRefuse
<1>3. CASE openError /\ UNCHANGED files /\ (Fail \/ UNCHANGED failures)
  BY <1>1, <1>3, TypesOpenError DEF TypeInv, FilesType
<1>4. ASSUME NEW e, e \in DiskIdx, nm \in Names,
             f' = [is |-> "read", disk |-> e, name |-> nm], xfer' = Transfer(e, nm),
             Preliminary(<< 150 >>), pc' = "connect",
             UNCHANGED <<watch, sessions, trfSocket, round, cmd, sockets, files, failures>>
      PROVE  TypeInv'
  <2>1. nm \in Strings
    BY <1>1, MeType DEF Arguments, Strings
  <2>2. xfer' \in Xfer
    BY <1>1, <1>4, <2>1, TransferType DEF Transfers, Disk
  <2>3. xfer'.cmd = "RETR" /\ xfer'.disk = e /\ xfer'.name = nm
    BY <1>1, <1>4 DEF Transfer
  <2>4. XferType'
    BY <1>4, <2>2, <2>3 DEF XferType, Moving
  <2>5. ClientsType'
    <3>1. <<150>> \in Seq(Nat)
      OBVIOUS
    <3> QED
      BY <1>1, <1>4, <3>1, PreliminaryType
  <2>6. Moving' /\ FilesType' /\ failures' \in 0 .. MaxFailures /\ trfSocket' \in Sock
        /\ sockets' \in [Numbers -> Socket]
    BY <1>4, FailType DEF Moving, TypeInv, FilesType, WatchType
  <2> QED
    BY <1>1, <1>4, <2>4, <2>5, <2>6, TypesWhileMoving
<1> QED
  <2>1. \/ refuse(Refusal(d))
        \/ \E e \in DisksAt(d) :
             \/ openError /\ UNCHANGED files /\ (Fail \/ UNCHANGED failures)
             \/ /\ e \in DiskIdx /\ nm \in Names
                /\ f' = [is |-> "read", disk |-> e, name |-> nm] /\ xfer' = Transfer(e, nm)
                /\ Preliminary(<<150>>) /\ pc' = "connect"
                /\ UNCHANGED <<watch, sessions, trfSocket, round, cmd, sockets, files, failures>>
    BY Zenon DEF cmdRETR
  <2> QED
    BY <2>1, <1>2, <1>3, <1>4

LEMMA TypesSTOR == ASSUME TypeInv, cmdSTOR PROVE TypeInv'
<1>1. pc = "cmd" /\ Working /\ cmd.cmd \in {"STOR", "APPE"}
  BY DEF cmdSTOR, Is, Working
<1> DEFINE d == parseFullPath(me, cmd.arg)
           nm == cmd.arg.name
           named(e) == e \in DiskIdx /\ nm \in Names
           erased(e) == IF (named(e) /\ files[e][nm].is) /\ cmd.cmd = "STOR"
                        THEN [files EXCEPT ![e][nm] = Absent] ELSE files
<1>2. CASE refuse(Refusal(d)) \/ refuse(553)
  <2>1. 553 \in Nat
    OBVIOUS
  <2> QED
    BY <1>1, <1>2, <2>1, RefusalType, TypesRefuse
<1>3. ASSUME NEW e PROVE erased(e) \in [DiskIdx -> [Names -> Files]]
  BY FileChanged, AbsentType DEF TypeInv, FilesType
<1>4. ASSUME NEW e, openError, files' \in {files, erased(e)}, Fail \/ UNCHANGED failures
      PROVE  TypeInv'
  BY <1>1, <1>3, <1>4, TypesOpenError DEF TypeInv, FilesType
<1>5. ASSUME NEW e, named(e), f' = [is |-> "write", disk |-> e, name |-> nm], files' = erased(e),
             xfer' = [Transfer(e, nm) EXCEPT !.base = files'[e][nm].recs],
             Preliminary(<< 150 >>), pc' = "connect",
             UNCHANGED <<watch, sessions, trfSocket, round, cmd, sockets, failures>>
      PROVE  TypeInv'
  <2>1. nm \in Strings
    BY <1>1, MeType DEF Arguments, Strings
  <2>2. Transfer(e, nm) \in Xfer
    BY <1>1, <1>5, <2>1, TransferType DEF Transfers, Disk
  <2>3. FilesType'
    BY <1>3, <1>5 DEF FilesType
  <2>4. files'[e][nm].recs \in Seq(Records)
    BY <1>5, <2>3 DEF FilesType, Files
  <2>5. xfer' \in Xfer
    BY <1>5, <2>2, <2>4 DEF Xfer
  <2>6. xfer'.cmd = cmd.cmd /\ xfer'.disk = e /\ xfer'.name = nm /\ xfer'.buf = <<>>
    BY <1>5 DEF Transfer
  <2>7. <<>> \in Fills(xfer'.format)
    <3>1. <<>> \in Seq(Nat \ {BLANK})
      OBVIOUS
    <3> QED
      BY <3>1 DEF Fills
  <2>8. XferType'
    BY <1>1, <1>5, <2>5, <2>6, <2>7 DEF XferType, Moving
  <2>9. ClientsType'
    <3>1. <<150>> \in Seq(Nat)
      OBVIOUS
    <3> QED
      BY <1>1, <1>5, <3>1, PreliminaryType
  <2>10. Moving' /\ failures' \in 0 .. MaxFailures /\ trfSocket' \in Sock
         /\ sockets' \in [Numbers -> Socket]
    BY <1>5, FailType DEF Moving, TypeInv, WatchType
  <2> QED
    BY <1>1, <1>5, <2>3, <2>8, <2>9, <2>10, TypesWhileMoving
<1> QED
  <2>1. \/ refuse(Refusal(d)) \/ refuse(553)
        \/ \E e \in DisksAt(d) :
             \/ refuse(553)
             \/ openError /\ files' \in {files, erased(e)} /\ (Fail \/ UNCHANGED failures)
             \/ /\ named(e)
                /\ f' = [is |-> "write", disk |-> e, name |-> nm] /\ files' = erased(e)
                /\ xfer' = [Transfer(e, nm) EXCEPT !.base = files'[e][nm].recs]
                /\ Preliminary(<<150>>) /\ pc' = "connect"
                /\ UNCHANGED <<watch, sessions, trfSocket, round, cmd, sockets, failures>>
    BY Zenon DEF cmdSTOR
  <2> QED
    BY <2>1, <1>2, <1>4, <1>5

LEMMA TypesList == ASSUME TypeInv, cmdList PROVE TypeInv'
<1>1. pc = "cmd" /\ Working /\ cmd.cmd \in {"LIST", "NLST", "STAT"}
  BY DEF cmdList, Is, Working
<1> DEFINE dir  == IF cmd.arg.is = "none" THEN me.currDisk
                   ELSE IF cmd.arg.is = "file" /\ getDirIdx(me, cmd.arg) # Loops THEN Invalid
                   ELSE getDirIdx(me, cmd.arg)
           d    == IF dir # Invalid THEN dir ELSE parseFullPath(me, cmd.arg)
           name == IF dir # Invalid THEN "*" ELSE cmd.arg.name
           conn == IF clients[me.client].state = "on" THEN "live" ELSE "lost"
<1>2. me \in Session /\ cmd.arg \in Arguments /\ cmd.h \in Numbers
  BY <1>1, MeType
<1>3. dir \in Places /\ d \in Places \cup {Denied} /\ name \in Strings
  <2>1. getDirIdx(me, cmd.arg) \in Places /\ parseFullPath(me, cmd.arg) \in Places \cup {Denied}
    BY <1>1, SpecOfMe
  <2>2. me.currDisk \in Disk
    BY <1>2 DEF Session
  <2>3. dir \in Places
    BY <2>1, <2>2 DEF Places, Disk
  <2>4. name \in Strings
    BY <1>2 DEF Arguments, Strings
  <2> QED
    BY <2>1, <2>3, <2>4
<1>4. CASE /\ Finish(<<Refusal(d), 550>>)
           /\ simple /\ UNCHANGED <<sessions, sockets, files, failures>>
  <2>1. <<Refusal(d), 550>> \in Seq(Nat)
    BY RefusalType
  <2>2. FilesType' /\ failures' \in 0 .. MaxFailures
    BY <1>4, FailType DEF TypeInv, FilesType
  <2>3. simple /\ UNCHANGED <<sessions, sockets>>
    BY <1>4, Zenon
  <2> DEFINE codes == <<Refusal(d), 550>>
  <2>4. Finish(codes)
    BY <1>4, Zenon
  <2> HIDE DEF codes, d, dir, name, conn
  <2>5. codes \in Seq(Nat)
    BY <2>1 DEF codes
  <2> QED
    BY <1>1, <2>2, <2>3, <2>4, <2>5, TypesAfterSimple
<1>5. ASSUME NEW e \in Disk \cup {Invalid},
             \/ /\ cmd.cmd = "STAT"
                /\ xfer' = [Transfer(e, name) EXCEPT !.sock = cmd.h, !.conn = conn]
                /\ trfSocket' = cmd.h /\ pc' = "copy"
             \/ /\ cmd.cmd # "STAT"
                /\ xfer' = Transfer(e, name) /\ pc' = "connect" /\ UNCHANGED trfSocket,
             Preliminary(<< 150 >>),
             UNCHANGED <<watch, sessions, f, round, cmd, sockets, files, failures>>
      PROVE  TypeInv'
  <2> HIDE DEF dir, d, name
  <2>1. Transfer(e, name) \in Xfer
    BY <1>1, <1>3, TransferType DEF Transfers
  <2>2. xfer' \in Xfer /\ trfSocket' \in Sock /\ Moving'
    <3>1. cmd.h \in Sock /\ conn \in {"none", "live", "lost"} /\ trfSocket \in Sock
      BY <1>2 DEF Sock, TypeInv, WatchType
    <3>2. CASE cmd.cmd = "STAT"
      <4> HIDE DEF conn
      <4>1. [Transfer(e, name) EXCEPT !.sock = cmd.h, !.conn = conn] \in Xfer
        BY <2>1, <3>1 DEF Xfer
      <4> QED
        BY <1>5, <3>1, <3>2, <4>1 DEF Moving
    <3>3. CASE cmd.cmd # "STAT"
      BY <1>5, <2>1, <3>1, <3>3 DEF Moving
    <3> QED
      BY <3>2, <3>3
  <2>3. xfer'.cmd = cmd.cmd
    <3> HIDE DEF conn
    <3>1. Transfer(e, name).cmd = cmd.cmd
      BY Zenon DEF Transfer
    <3>2. [Transfer(e, name) EXCEPT !.sock = cmd.h, !.conn = conn].cmd = Transfer(e, name).cmd
      BY <2>1 DEF Xfer
    <3> QED
      BY <1>5, <3>1, <3>2
  <2>4. XferType'
    BY <1>1, <2>2, <2>3 DEF XferType
  <2>5. ClientsType'
    <3>1. <<150>> \in Seq(Nat)
      OBVIOUS
    <3> QED
      BY <1>1, <1>5, <3>1, PreliminaryType
  <2>6. FilesType' /\ failures' \in 0 .. MaxFailures /\ sockets' \in [Numbers -> Socket]
    BY <1>5, FailType DEF TypeInv, FilesType, WatchType
  <2> QED
    BY <1>1, <1>5, <2>2, <2>4, <2>5, <2>6, TypesWhileMoving
<1>6. CASE refuse(550)
  BY <1>1, <1>6, TypesRefuse
<1> QED
  <2>1. \/ /\ Finish(<<Refusal(d), 550>>)
           /\ simple /\ UNCHANGED <<sessions, sockets, files, failures>>
        \/ refuse(550)
        \/ /\ d >= Root
           /\ \E e \in IF dir = Root THEN {Root} ELSE DisksAt(d) :
                IF cmd.cmd = "STAT"
                THEN /\ xfer' = [Transfer(e, name) EXCEPT !.sock = cmd.h, !.conn = conn]
                     /\ trfSocket' = cmd.h
                     /\ pc' = "copy"
                ELSE /\ xfer' = Transfer(e, name)
                     /\ pc' = "connect"
                     /\ UNCHANGED trfSocket
           /\ Preliminary(<<150>>)
           /\ UNCHANGED <<watch, sessions, f, round, cmd, sockets, files, failures>>
    BY Zenon DEF cmdList
  <2> HIDE DEF dir, d, name, conn
  <2>2. ASSUME NEW e \in IF dir = Root THEN {Root} ELSE DisksAt(d), d >= Root
        PROVE  e \in Disk \cup {Invalid}
    BY <1>3, <2>2, DisksType DEF Disk
  <2> QED
    BY <2>1, <2>2, <1>4, <1>5, <1>6

-----------------------------------------------------------------------------
(* Transfers go on and end.                                                *)

(* The end of a transfer.                                                  *)
LEMMA TypesAfterTransfer ==
  ASSUME TypeInv, Moving, NEW cls, ClientsFit(cls), NEW codes \in Seq(Nat),
         FinishFrom(cls, codes), UNCHANGED <<watch, sessions, round>>, xfer' = NoXfer,
         trfSocket' \in Sock, failures' \in 0 .. MaxFailures, sockets' \in [Numbers -> Socket],
         FilesType'
  PROVE  TypeInv'
<1>1. Working /\ pc' = "serve"
  BY DEF Working, Moving, FinishFrom
<1>2. ClientsType'
  BY <1>1, FinishClients
<1>3. WatchType'
  BY DEF TypeInv, WatchType, watch
<1>4. SessionsType' /\ Ctls' = Ctls
  BY DEF TypeInv, SessionsType, Ctls
<1>5. WorkType' /\ XferType'
  BY <1>1, <1>4 DEF TypeInv, WorkType, XferType, Working, Moving
<1> QED
  BY <1>2, <1>3, <1>4, <1>5 DEF TypeInv

LEMMA TypesNotConnected ==
  ASSUME TypeInv, pc = "connect", NEW code \in Nat, NotConnected(code), Fail \/ UNCHANGED failures
  PROVE  TypeInv'
<1>1. Moving /\ <<code>> \in Seq(Nat)
  BY DEF Moving
<1>2. ClientsFit(clients) /\ FinishFrom(clients, <<code>>)
  BY DEF TypeInv, ClientsType, ClientsFit, Finish, NotConnected
<1>3. failures' \in 0 .. MaxFailures
  BY FailType
<1>4. UNCHANGED <<watch, sessions, round>> /\ xfer' = NoXfer /\ UNCHANGED <<sockets, files>>
  BY DEF NotConnected
<1>5. trfSocket' \in Sock
  BY DEF NotConnected, setTrfSocket, Sock, TypeInv, WatchType
<1>6. sockets' \in [Numbers -> Socket] /\ FilesType'
  BY <1>4 DEF TypeInv, WatchType, FilesType
<1> QED
  BY <1>1, <1>2, <1>3, <1>4, <1>5, <1>6, TypesAfterTransfer

LEMMA TypesConnected ==
  ASSUME TypeInv, pc = "connect", NEW n \in Numbers, NEW conn \in {"live", "lost"},
         Connected(n, conn), ClientsType'
  PROVE  TypeInv'
<1>1. Working /\ Moving /\ Moving' /\ me.client \in Clients
  BY MeType DEF Moving, Working, Connected
<1>2. trfSocket' \in Sock /\ n \in Sock
  BY DEF Connected, setTrfSocket, Sock, TypeInv, WatchType
<1>3. sockets' \in [Numbers -> Socket]
  BY <1>1, SocketTypes DEF Connected, TypeInv
<1>4. xfer' = [xfer EXCEPT !.sock = n, !.conn = conn] /\ xfer \in Xfer
  BY <1>1 DEF Connected, TypeInv, XferType
<1>5. xfer' \in Xfer /\ UNCHANGED <<xfer.cmd, xfer.disk, xfer.name, xfer.buf, xfer.format>>
  BY <1>2, <1>4 DEF Xfer
<1>6. UNCHANGED <<watch, sessions, f, round, cmd, files, failures>>
  BY DEF Connected
<1>7. XferType'
  BY <1>1, <1>5, <1>6 DEF TypeInv, XferType
<1>8. FilesType' /\ failures' \in 0 .. MaxFailures
  BY <1>6, FailType DEF TypeInv, FilesType
<1> QED
  BY <1>1, <1>2, <1>3, <1>6, <1>7, <1>8, TypesWhileMoving

LEMMA TypesOpenData == ASSUME TypeInv, openDataConnection PROVE TypeInv'
<1>1. pc = "connect" /\ Working
  BY DEF openDataConnection, Working
<1> DEFINE c    == me.client
           n    == NewNumber
           conn == IF Head(clients[c].queued) = clients[c].sent /\ clients[c].state = "on"
                   THEN "live" ELSE "lost"
<1>2. CASE (NotConnected(503) \/ NotConnected(425)) /\ (Fail \/ UNCHANGED failures)
  <2>1. 503 \in Nat /\ 425 \in Nat
    OBVIOUS
  <2> QED
    BY <1>1, <1>2, <2>1, TypesNotConnected
<1>3. CASE /\ n >= 0 /\ clients[c].queued # <<>> /\ Connected(n, conn)
           /\ clients' = [clients EXCEPT ![c].queued = Tail(@)]
  <2>1. c \in Clients /\ clients[c] \in Client
    BY <1>1, MeType
  <2> DEFINE r == clients[c]
             q == [r EXCEPT !.queued = Tail(@)]
  <2>2. q \in Client /\ q.sent = r.sent /\ q.script = r.script /\ q.unread = r.unread
    <3>1. Tail(r.queued) \in Seq(Nat)
      BY <1>3, <2>1 DEF Client
    <3> QED
      BY <2>1, <3>1 DEF Client
  <2>3. clients' = [clients EXCEPT ![c] = q]
    BY <1>3
  <2>4. ClientsType /\ q.sent <= Len(q.script) /\ (q.unread => q.sent > 0)
    BY <2>1, <2>2 DEF TypeInv, ClientsType
  <2> HIDE DEF q
  <2>5. ClientsFit(clients')
    BY <2>1, <2>2, <2>3, <2>4, ClientChanged
  <2>6. ClientsType' /\ n \in Numbers
    BY <1>3, <2>5, NewNumberType DEF ClientsFit, ClientsType
  <2> QED
    BY <1>1, <1>3, <2>6, TypesConnected
<1>4. CASE n >= 0 /\ Connected(n, "live") /\ UNCHANGED clients
  <2>1. ClientsType' /\ n \in Numbers
    BY <1>4, NewNumberType DEF TypeInv, ClientsType
  <2> QED
    BY <1>1, <1>4, <2>1, TypesConnected
<1> QED
  <2>1. \/ NotConnected(503) /\ UNCHANGED failures
        \/ /\ n >= 0 /\ clients[c].queued # <<>> /\ Connected(n, conn)
           /\ clients' = [clients EXCEPT ![c].queued = Tail(@)]
        \/ n >= 0 /\ Connected(n, "live") /\ UNCHANGED clients
        \/ NotConnected(425) /\ (Fail \/ UNCHANGED failures)
    BY DEF openDataConnection
  <2> QED
    BY <2>1, <1>2, <1>3, <1>4

(* What the client gets.                                                   *)
LEMMA GotType ==
  ASSUME TypeInv, Working, NEW bytes \in Seq(Nat \cup Strings)
  PROVE  /\ ClientsFit(Got(bytes))
         /\ \A d \in Clients : Got(bytes)[d] = IF d = me.client
                                               THEN [clients[d] EXCEPT !.got = @ \o bytes]
                                               ELSE clients[d]
<1>1. me.client \in Clients /\ clients[me.client] \in Client
  BY MeType
<1> DEFINE r == clients[me.client]
           q == [r EXCEPT !.got = @ \o bytes]
<1>2. Got(bytes) = [clients EXCEPT ![me.client] = q]
  BY DEF Got
<1>3. q \in Client /\ q.sent = r.sent /\ q.script = r.script /\ q.unread = r.unread
  <2>1. r.got \o bytes \in Seq(Nat \cup Strings)
    BY <1>1 DEF Client
  <2> QED
    BY <1>1, <2>1 DEF Client
<1>4. ClientsType /\ q.sent <= Len(q.script) /\ (q.unread => q.sent > 0)
  BY <1>1, <1>3 DEF TypeInv, ClientsType
<1>5. /\ ClientsFit([clients EXCEPT ![me.client] = q])
      /\ \A d \in Clients : [clients EXCEPT ![me.client] = q][d]
                              = IF d = me.client THEN q ELSE clients[d]
  <2> HIDE DEF q
  <2> QED
    BY <1>1, <1>3, <1>4, ClientChanged
<1> QED
  BY <1>2, <1>5

(* Bytes are among what a client can get.                                  *)
LEMMA BytesType == ASSUME NEW bytes \in Seq(Nat) PROVE bytes \in Seq(Nat \cup Strings)
OBVIOUS

(* A step in the middle of a transfer.                                     *)
LEMMA TypesInTransfer ==
  ASSUME TypeInv, pc = "copy", UNCHANGED <<watch, sessions, trfSocket, round, sockets, f, pc, cmd>>,
         ClientsType', FilesType', xfer' \in Xfer,
         UNCHANGED <<xfer.cmd, xfer.disk, xfer.name, xfer.format>>,
         xfer.cmd \in {"STOR", "APPE"} => xfer'.buf \in Fills(xfer.format),
         Fail \/ UNCHANGED failures
  PROVE  TypeInv'
<1>1. Working /\ Moving /\ Moving'
  BY DEF Moving, Working
<1>2. XferType'
  BY <1>1 DEF TypeInv, XferType
<1>3. trfSocket' \in Sock /\ sockets' \in [Numbers -> Socket] /\ failures' \in 0 .. MaxFailures
  BY FailType DEF TypeInv, WatchType
<1> QED
  BY <1>1, <1>2, <1>3, TypesWhileMoving

(* The file a transfer has open.                                           *)
LEMMA OpenFile ==
  ASSUME TypeInv, pc = "copy", xfer.cmd \in {"RETR", "STOR", "APPE"}
  PROVE  /\ f.disk = xfer.disk /\ f.name = xfer.name
         /\ f.disk \in DiskIdx /\ f.name \in Names
         /\ files[f.disk][f.name] \in Files
         /\ xfer \in Xfer /\ xfer.format \in Formats /\ xfer.format.binary \in BOOLEAN
         /\ Working /\ Moving
<1>1. Moving /\ Working
  BY DEF Moving, Working
<1>2. /\ f.disk = xfer.disk /\ f.name = xfer.name /\ xfer.disk \in DiskIdx /\ xfer.name \in Names
      /\ xfer \in Xfer
  BY <1>1 DEF TypeInv, XferType
<1>3. files[f.disk][f.name] \in Files
  BY <1>2, FileOf DEF TypeInv
<1>4. xfer.format \in Formats
  BY <1>2 DEF Xfer
<1> QED
  BY <1>1, <1>2, <1>3, <1>4 DEF Formats

LEMMA TypesReadRecord == ASSUME TypeInv, readRecord PROVE TypeInv'
<1>1. pc = "copy" /\ xfer.cmd = "RETR" /\ Working
  BY DEF readRecord, Here, Working
<1> DEFINE recs == files[f.disk][f.name].recs
           unit == unitOf(recs[xfer.pos + 1], xfer.format.binary)
           r    == transmitUnit(xfer.buf, unit, Live)
<1>2. xfer.pos < Len(recs) /\ clients' = Got(r.out)
      /\ xfer' = [xfer EXCEPT !.pos = @ + 1, !.buf = r.buf]
      /\ UNCHANGED <<watch, sessions, trfSocket, round, sockets, f, pc, cmd, files, failures>>
  BY DEF readRecord, copying
<1>3. recs \in Seq(Records) /\ xfer \in Xfer /\ xfer.format.binary \in BOOLEAN
  BY <1>1, OpenFile DEF Files
<1>4. xfer.pos \in Nat /\ xfer.buf \in Seq(Nat) /\ Len(recs) \in Nat
  <2> HIDE DEF recs, unit, r
  <2>1. Len(recs) \in Nat
    BY <1>3
  <2> QED
    BY <1>3, <2>1 DEF Xfer
<1>5. recs[xfer.pos + 1] \in Records
  <2> HIDE DEF recs
  <2>1. xfer.pos + 1 \in 1 .. Len(recs)
    BY <1>2, <1>4
  <2> QED
    BY <1>3, <2>1
<1>6. unit \in Seq(Nat)
  BY <1>3, <1>5, RecordUnit
<1> HIDE DEF recs, unit
<1>7. r.buf \in Seq(Nat) /\ r.out \in Seq(Nat)
  BY <1>4, <1>6, UnitType
<1> HIDE DEF r
<1>8. ClientsType'
  <2>1. ClientsFit(clients')
    BY <1>1, <1>2, <1>7, BytesType, GotType
  <2> QED
    BY <2>1 DEF ClientsFit, ClientsType
<1>9. xfer' \in Xfer /\ UNCHANGED <<xfer.cmd, xfer.disk, xfer.name, xfer.format>>
  <2>1. xfer.pos + 1 \in Nat
    BY <1>4
  <2> QED
    BY <1>2, <1>3, <1>7, <2>1 DEF Xfer
<1>10. FilesType'
  BY <1>2 DEF TypeInv, FilesType
<1> QED
  BY <1>1, <1>2, <1>8, <1>9, <1>10, TypesInTransfer

LEMMA TypesReadError == ASSUME TypeInv, readError PROVE TypeInv'
<1>1. pc = "copy" /\ xfer.cmd = "RETR" /\ Working
  BY DEF readError, Here, Working
<1> DEFINE again == IF xfer.format.binary THEN <<>> ELSE <<LF>>
           r     == transmitUnit(xfer.buf, again, Live)
<1> DEFINE Next(stays) ==
             /\ Fail /\ xfer' = [xfer EXCEPT !.failed = TRUE, !.stays = stays, !.buf = r.buf]
             /\ clients' = [Got(r.out) EXCEPT ![me.client].replies = Append(@, 550)]
             /\ UNCHANGED <<watch, sessions, trfSocket, round, sockets, f, pc, cmd, files>>
<1>10. PICK stays \in BOOLEAN : Next(stays)
  BY Zenon DEF readError, copying
<1>2. Next(stays)
  BY <1>10
<1>3. xfer \in Xfer /\ xfer.buf \in Seq(Nat)
  BY <1>1, OpenFile DEF Xfer
<1>4. again \in Seq(Nat)
  BY DEF LF
<1> HIDE DEF again
<1>5. r.buf \in Seq(Nat) /\ r.out \in Seq(Nat)
  BY <1>3, <1>4, UnitType
<1> HIDE DEF r
<1> DEFINE cls == Got(r.out)
<1>6. ClientsFit(cls) /\ me.client \in Clients
  BY <1>1, <1>5, BytesType, GotType, MeType
<1>7. ClientsType'
  <2> HIDE DEF cls
  <2> DEFINE p == cls[me.client]
             q == [p EXCEPT !.replies = Append(@, 550)]
  <2>1. p \in Client /\ Append(p.replies, 550) \in Seq(Nat)
    BY <1>6 DEF ClientsFit, Client
  <2>2. q \in Client /\ q.sent = p.sent /\ q.script = p.script /\ q.unread = p.unread
    <3> HIDE DEF p
    <3>1. ASSUME NEW x \in Seq(Nat)
          PROVE  LET y == [p EXCEPT !.replies = x]
                 IN y \in Client /\ y.sent = p.sent /\ y.script = p.script /\ y.unread = p.unread
      BY <2>1, <3>1 DEF Client
    <3>2. q = [p EXCEPT !.replies = Append(p.replies, 550)]
      OBVIOUS
    <3> QED
      BY <2>1, <3>1, <3>2
  <2>3. clients' = [cls EXCEPT ![me.client] = q]
    BY <1>2 DEF cls
  <2> HIDE DEF q
  <2> QED
    BY <1>6, <2>2, <2>3 DEF ClientsFit, ClientsType
<1>8. xfer' \in Xfer /\ UNCHANGED <<xfer.cmd, xfer.disk, xfer.name, xfer.format>>
  <2> DEFINE b == r.buf
  <2>1. b \in Seq(Nat) /\ stays \in BOOLEAN /\ xfer \in Xfer
    BY <1>3, <1>5, <1>10
  <2>2. xfer' = [xfer EXCEPT !.failed = TRUE, !.stays = stays, !.buf = b]
    BY <1>2
  <2> HIDE DEF b, Next
  <2> QED
    BY <2>1, <2>2 DEF Xfer
<1>9. FilesType'
  BY <1>2 DEF TypeInv, FilesType
<1> QED
  BY <1>1, <1>2, <1>7, <1>8, <1>9, TypesInTransfer

(* The end of a transfer over a data connection, or the control one.       *)
LEMMA TypesEndTransfer ==
  ASSUME TypeInv, pc = "copy", NEW cls, ClientsFit(cls), NEW codes \in Seq(Nat),
         endTransfer(cls, codes), UNCHANGED clientSockCount, trfSocket' \in Sock,
         Fail \/ UNCHANGED failures, FilesType'
  PROVE  TypeInv'
<1>1. Moving /\ codes \o <<226>> \in Seq(Nat)
  BY DEF Moving
<1>2. /\ FinishFrom(cls, codes \o <<226>>) /\ xfer' = NoXfer
      /\ UNCHANGED <<watch, sessions, round>>
  BY DEF endTransfer
<1>3. sockets' \in [Numbers -> Socket]
  BY SocketTypes DEF endTransfer, TypeInv, WatchType
<1>4. failures' \in 0 .. MaxFailures
  BY FailType
<1> QED
  BY <1>1, <1>2, <1>3, <1>4, TypesAfterTransfer

LEMMA TypesEndRETR == ASSUME TypeInv, endRETR PROVE TypeInv'
<1>1. pc = "copy" /\ xfer.cmd = "RETR" /\ Working
  BY DEF endRETR, Here, Working
<1>2. endTransfer(transmitEnd, <<>>) /\ UNCHANGED <<trfSocket, files, failures>>
  BY DEF endRETR
<1>3. xfer.buf \in Seq(Nat)
  BY <1>1, OpenFile DEF Xfer
<1>4. ClientsFit(transmitEnd)
  <2>1. ClientsFit(clients)
    BY DEF TypeInv, ClientsType, ClientsFit
  <2>2. ClientsFit(Got(xfer.buf))
    BY <1>1, <1>3, BytesType, GotType
  <2> QED
    BY <2>1, <2>2 DEF transmitEnd
<1>5. FilesType' /\ trfSocket' \in Sock /\ UNCHANGED clientSockCount /\ <<>> \in Seq(Nat)
  BY <1>2 DEF TypeInv, FilesType, WatchType, endTransfer, watch
<1> QED
  BY <1>1, <1>2, <1>4, <1>5, TypesEndTransfer

(* Records that are written.                                               *)
LEMMA WriteTypes ==
  ASSUME TypeInv, pc = "copy", xfer.cmd \in {"STOR", "APPE"},
         NEW recs \in Seq(Records), NEW n \in 0 .. Len(recs), writeRecords(recs, n)
  PROVE  FilesType' /\ (Fail \/ UNCHANGED failures)
<1>1. f.disk \in DiskIdx /\ f.name \in Names /\ files[f.disk][f.name] \in Files
  BY OpenFile
<1> DEFINE file == files[f.disk][f.name]
           new == [is |-> file.is \/ n > 0, recs |-> file.recs \o SubSeq(recs, 1, n)]
<1>2. new \in Files
  <2>1. SubSeq(recs, 1, n) \in Seq(Records) /\ file.recs \in Seq(Records) /\ file.is \in BOOLEAN
    BY <1>1 DEF Files
  <2>2. file.recs \o SubSeq(recs, 1, n) \in Seq(Records)
    BY <2>1
  <2> QED
    BY <2>1, <2>2 DEF Files
<1>3. files' = [files EXCEPT ![f.disk][f.name] = new]
  BY DEF writeRecords
<1> HIDE DEF new
<1>4. FilesType'
  BY <1>1, <1>2, <1>3, FileChanged DEF TypeInv, FilesType
<1> QED
  BY <1>4 DEF writeRecords

LEMMA ErrorsType == ASSUME NEW k \in Nat PROVE Errors(k) \in Seq(Nat)
BY DEF Errors

(* What takeChunk returns.                                                 *)
LEMMA ChunkType ==
  ASSUME NEW format \in Formats, NEW fill \in Fills(format), NEW chunk \in Seq(Nat \ {BLANK})
  PROVE  takeChunk(fill, chunk, format) \in Taken(format)
<1> DEFINE start == [fill |-> fill, recs |-> <<>>]
<1>1. start \in Taken(format)
  <2>1. <<>> \in Seq(Records)
    OBVIOUS
  <2> QED
    BY <2>1 DEF Taken
<1>2. takeChunk(fill, chunk, format) = takeBytes(start, chunk, format)
  BY DEF takeChunk
<1> HIDE DEF start
<1>3. PICK w \in [0 .. Len(chunk) -> Taken(format)] :
        takeBytes(start, chunk, format) = w[Len(chunk)]
  BY <1>1, TakeBytes
<1>4. Len(chunk) \in 0 .. Len(chunk)
  OBVIOUS
<1> QED
  BY <1>2, <1>3, <1>4

(* What recvChunk does, in one piece.                                      *)
LEMMA Received ==
  ASSUME TypeInv, recvChunk
  PROVE  \E len \in 1 .. Len(xfer.left) :
           LET chunk == SubSeq(xfer.left, 1, len)
               s     == takeChunk(xfer.buf, chunk, xfer.format)
           IN \E n \in 0 .. Len(s.recs) :
                /\ writeRecords(s.recs, n)
                /\ Preliminary(Errors(Len(s.recs) - n))
                /\ xfer' = [xfer EXCEPT !.buf = s.fill, !.rcvd = @ \o chunk,
                              !.left = SubSeq(@, len + 1, Len(@)), !.pos = @ + Len(s.recs),
                              !.failed = (@ \/ n < Len(s.recs))]
                /\ chunk \in Seq(Nat \ {BLANK}) /\ s \in Taken(xfer.format)
<1>1. pc = "copy" /\ xfer.cmd \in {"STOR", "APPE"}
  BY DEF recvChunk, Here
<1>2. xfer \in Xfer /\ Moving
  BY <1>1, OpenFile
<1>3. xfer.left \in Seq(Nat \ {BLANK}) /\ xfer.format \in Formats /\ xfer.buf \in Fills(xfer.format)
  BY <1>1, <1>2 DEF Xfer, TypeInv, XferType
<1>4. PICK len \in 1 .. Min({PACKETLEN, Len(xfer.left)}) :
        LET chunk == SubSeq(xfer.left, 1, len)
            s     == takeChunk(xfer.buf, chunk, xfer.format)
        IN \E n \in 0 .. Len(s.recs) :
             /\ writeRecords(s.recs, n)
             /\ Preliminary(Errors(Len(s.recs) - n))
             /\ xfer' = [xfer EXCEPT !.buf = s.fill, !.rcvd = @ \o chunk,
                           !.left = SubSeq(@, len + 1, Len(@)), !.pos = @ + Len(s.recs),
                           !.failed = (@ \/ n < Len(s.recs))]
  BY Zenon DEF recvChunk
<1>5. len \in 1 .. Len(xfer.left)
  <2>1. {PACKETLEN, Len(xfer.left)} \subseteq Nat /\ Len(xfer.left) \in Nat
    BY <1>3, PacketRoom
  <2>2. Min({PACKETLEN, Len(xfer.left)}) \in Nat
        /\ Min({PACKETLEN, Len(xfer.left)}) <= Len(xfer.left)
    BY <2>1, MinOf
  <2> QED
    BY <2>1, <2>2
<1>6. SubSeq(xfer.left, 1, len) \in Seq(Nat \ {BLANK})
  BY <1>3, <1>5
<1>7. takeChunk(xfer.buf, SubSeq(xfer.left, 1, len), xfer.format) \in Taken(xfer.format)
  BY <1>3, <1>6, ChunkType
<1> QED
  BY <1>4, <1>5, <1>6, <1>7, Zenon

LEMMA TypesRecvChunk == ASSUME TypeInv, recvChunk PROVE TypeInv'
<1>1. pc = "copy" /\ xfer.cmd \in {"STOR", "APPE"} /\ Working
  BY DEF recvChunk, Here, Working
<1>2. UNCHANGED <<watch, sessions, trfSocket, round, sockets, f, pc, cmd>>
  BY DEF recvChunk, copying
<1>3. PICK len \in 1 .. Len(xfer.left) :
        LET chunk == SubSeq(xfer.left, 1, len)
            s     == takeChunk(xfer.buf, chunk, xfer.format)
        IN \E n \in 0 .. Len(s.recs) :
             /\ writeRecords(s.recs, n)
             /\ Preliminary(Errors(Len(s.recs) - n))
             /\ xfer' = [xfer EXCEPT !.buf = s.fill, !.rcvd = @ \o chunk,
                           !.left = SubSeq(@, len + 1, Len(@)), !.pos = @ + Len(s.recs),
                           !.failed = (@ \/ n < Len(s.recs))]
             /\ chunk \in Seq(Nat \ {BLANK}) /\ s \in Taken(xfer.format)
  BY Received
<1> DEFINE chunk == SubSeq(xfer.left, 1, len)
           s     == takeChunk(xfer.buf, chunk, xfer.format)
<1>4. PICK n \in 0 .. Len(s.recs) :
        /\ writeRecords(s.recs, n)
        /\ Preliminary(Errors(Len(s.recs) - n))
        /\ xfer' = [xfer EXCEPT !.buf = s.fill, !.rcvd = @ \o chunk,
                      !.left = SubSeq(@, len + 1, Len(@)), !.pos = @ + Len(s.recs),
                      !.failed = (@ \/ n < Len(s.recs))]
  BY <1>3
<1>5. chunk \in Seq(Nat \ {BLANK}) /\ s \in Taken(xfer.format)
  BY <1>3
<1> DEFINE fill == s.fill
           recs == s.recs
           left == SubSeq(xfer.left, len + 1, Len(xfer.left))
           failed == xfer.failed \/ n < Len(recs)
<1>6. fill \in Fills(xfer.format) /\ recs \in Seq(Records)
  BY <1>5 DEF Taken
<1>7. xfer' = [xfer EXCEPT !.buf = fill, !.rcvd = @ \o chunk, !.left = left,
                 !.pos = @ + Len(recs), !.failed = failed]
  BY <1>4
<1>8. xfer \in Xfer
  BY <1>1, OpenFile
<1>9. left \in Seq(Nat \ {BLANK}) /\ failed \in BOOLEAN
  <2>1. xfer.left \in Seq(Nat \ {BLANK})
    BY <1>8 DEF Xfer
  <2>2. left \in Seq(Nat \ {BLANK})
    BY <2>1
  <2> QED
    BY <2>2, <1>8 DEF Xfer
<1>10. writeRecords(recs, n) /\ Preliminary(Errors(Len(recs) - n)) /\ n \in 0 .. Len(recs)
  BY <1>4
<1> HIDE DEF chunk, s, fill, recs, left, failed
<1>11. Len(recs) \in Nat /\ Len(recs) - n \in Nat
  BY <1>6, <1>10
<1>12. xfer' \in Xfer /\ UNCHANGED <<xfer.cmd, xfer.disk, xfer.name, xfer.format>>
       /\ xfer'.buf \in Fills(xfer.format)
  <2>1. xfer.rcvd \o chunk \in Seq(Nat) /\ xfer.pos + Len(recs) \in Nat /\ fill \in Seq(Nat)
    <3>1. xfer.rcvd \in Seq(Nat) /\ xfer.pos \in Nat
      BY <1>8 DEF Xfer
    <3>2. chunk \in Seq(Nat)
      BY <1>5
    <3>3. xfer.rcvd \o chunk \in Seq(Nat)
      BY <3>1, <3>2
    <3>4. fill \in Seq(Nat)
      BY <1>6 DEF Fills
    <3> QED
      BY <1>11, <3>1, <3>3, <3>4
  <2> DEFINE rcvd == xfer.rcvd \o chunk
             pos  == xfer.pos + Len(recs)
  <2>2. xfer' = [xfer EXCEPT !.buf = fill, !.rcvd = rcvd, !.left = left, !.pos = pos,
                   !.failed = failed]
    BY <1>7
  <2> HIDE DEF rcvd, pos
  <2>3. CASE failed = TRUE
    BY <1>6, <1>8, <1>9, <2>1, <2>2, <2>3 DEF Xfer, rcvd, pos
  <2>4. CASE failed = FALSE
    BY <1>6, <1>8, <1>9, <2>1, <2>2, <2>4 DEF Xfer, rcvd, pos
  <2> QED
    BY <1>9, <2>3, <2>4
<1>13. FilesType' /\ (Fail \/ UNCHANGED failures)
  BY <1>1, <1>6, <1>10, WriteTypes
<1>14. ClientsType'
  BY <1>1, <1>10, <1>11, ErrorsType, PreliminaryType
<1> QED
  BY <1>1, <1>2, <1>12, <1>13, <1>14, TypesInTransfer

(* The records that are written at the end.                                *)
LastRecords ==
  CASE xfer.buf # <<>> -> <<recordOf(xfer.buf, xfer.format)>>
    [] xfer.buf = <<>> /\ xfer.pos = 0 /\ xfer.cmd = "STOR" -> <<recordOf(<<>>, xfer.format)>>
    [] OTHER -> <<>>

(* What is being filled fits into a record.                                *)
LEMMA FillFits ==
  ASSUME NEW format \in Formats, NEW b \in Fills(format)
  PROVE  b \in Seq(Nat) /\ Len(b) < PACKETLEN /\ Len(b) <= Max({1, format.lrecl})
<1>1. format.lrecl \in 0 .. PACKETLEN - 1 /\ b \in Seq(Nat \ {BLANK})
  BY DEF Formats, Lrecls, Fills
<1>2. Max({1, format.lrecl}) = IF 1 <= format.lrecl THEN format.lrecl ELSE 1
  BY <1>1, MaxOfTwo, PacketRoom
<1>3. CASE b = <<>>
  BY <1>1, <1>2, <1>3, PacketRoom
<1>4. CASE Len(b) < format.lrecl
  BY <1>1, <1>2, <1>4, PacketRoom
<1> QED
  BY <1>3, <1>4 DEF Fills

LEMMA LastRecordsType ==
  ASSUME TypeInv, pc = "copy", xfer.cmd \in {"STOR", "APPE"}
  PROVE  LastRecords \in Seq(Records) /\ Len(LastRecords) \in Nat
<1>1. xfer.format \in Formats /\ xfer.buf \in Fills(xfer.format)
  BY OpenFile DEF TypeInv, XferType
<1>2. recordOf(xfer.buf, xfer.format) \in Records
  BY <1>1, FillFits, RecordType
<1>3. <<>> \in Fills(xfer.format)
  <2>1. <<>> \in Seq(Nat \ {BLANK})
    OBVIOUS
  <2> QED
    BY <2>1 DEF Fills
<1>4. recordOf(<<>>, xfer.format) \in Records
  BY <1>1, <1>3, FillFits, RecordType
<1>5. <<recordOf(xfer.buf, xfer.format)>> \in Seq(Records)
      /\ <<recordOf(<<>>, xfer.format)>> \in Seq(Records) /\ <<>> \in Seq(Records)
  <2>1. ASSUME NEW r \in Records PROVE <<r>> \in Seq(Records)
    OBVIOUS
  <2>2. <<>> \in Seq(Records)
    OBVIOUS
  <2> QED
    BY <1>2, <1>4, <2>1, <2>2
<1>6. LastRecords \in Seq(Records)
  BY <1>5 DEF LastRecords
<1> QED
  BY <1>6

LEMMA TypesEndSTOR == ASSUME TypeInv, endSTOR PROVE TypeInv'
<1>1. pc = "copy" /\ xfer.cmd \in {"STOR", "APPE"}
  BY DEF endSTOR, Here
<1>2. PICK n \in 0 .. Len(LastRecords) :
        /\ writeRecords(LastRecords, n)
        /\ endTransfer(clients, Errors(Len(LastRecords) - n))
  BY Zenon DEF endSTOR, LastRecords
<1>3. LastRecords \in Seq(Records) /\ Len(LastRecords) - n \in Nat
  BY <1>1, LastRecordsType
<1>4. FilesType' /\ (Fail \/ UNCHANGED failures)
  BY <1>1, <1>2, <1>3, WriteTypes
<1>5. ClientsFit(clients) /\ Errors(Len(LastRecords) - n) \in Seq(Nat)
  BY <1>3, ErrorsType DEF TypeInv, ClientsType, ClientsFit
<1>6. UNCHANGED clientSockCount /\ trfSocket' \in Sock
  BY <1>2 DEF endTransfer, watch, endSTOR, TypeInv, WatchType
<1> QED
  BY <1>1, <1>2, <1>4, <1>5, <1>6, TypesEndTransfer

(* A set as a sequence.                                                    *)
LEMMA SetToSeqIs ==
  ASSUME NEW S, IsFiniteSet(S)
  PROVE  /\ SetToSeq(S) \in [1 .. Cardinality(S) -> S] /\ Cardinality(S) \in Nat
         /\ SetToSeq(S) \in Seq(S) /\ Len(SetToSeq(S)) = Cardinality(S)
<1>1. Cardinality(S) \in Nat /\ ExistsBijection(1 .. Cardinality(S), S)
  BY FS_CardinalityType
<1>2. \E g \in [1 .. Cardinality(S) -> S] : IsInjective(g)
  BY <1>1 DEF ExistsBijection, Bijection, Injection, IsInjective
<1>3. SetToSeq(S) \in [1 .. Cardinality(S) -> S]
  BY <1>2 DEF SetToSeq
<1> QED
  BY <1>1, <1>3

LEMMA SequenceIs ==
  ASSUME NEW n \in Nat, NEW S, NEW s \in [1 .. n -> S]
  PROVE  s \in Seq(S) /\ Len(s) = n
OBVIOUS

(* The lines of a listing.                                                 *)
LEMMA ListingType ==
  ASSUME FilesType, NEW d \in Disk \cup {Invalid}, NEW name
  PROVE  listing(d, name) \in Seq(Seq(Nat \cup Strings))
<1>1. ASSUME NEW w \in Strings PROVE <<w, "LF">> \in Seq(Nat \cup Strings)
  <2>1. w \in Nat \cup Strings /\ "LF" \in Nat \cup Strings
    BY DEF Strings
  <2> QED
    BY <2>1
<1>2. CASE d = Root
  <2>1. Cardinality(DiskIdx) \in Nat
    BY FtpAssumption, FS_CardinalityType
  <2>2. ASSUME NEW i \in 1 .. Cardinality(DiskIdx) PROVE disks[i - 1].letter \in Strings
    <3>1. i - 1 \in DiskIdx
      BY <2>1, FtpAssumption
    <3>2. disks[i - 1].letter \in STRING
      BY <3>1, FtpDataAssumption
    <3> QED
      BY <3>2 DEF Strings
  <2> DEFINE line(i) == <<disks[i - 1].letter, "LF">>
  <2>3. listing(d, name) = [i \in 1 .. Cardinality(DiskIdx) |-> line(i)]
    BY <1>2 DEF listing, Root, Invalid
  <2> DEFINE U == Seq(Nat \cup Strings)
  <2>4. \A i \in 1 .. Cardinality(DiskIdx) : line(i) \in U
    BY <1>1, <2>2
  <2> HIDE DEF line
  <2>5. listing(d, name) \in [1 .. Cardinality(DiskIdx) -> U]
    <3> HIDE DEF U
    <3> QED
      BY <2>3, <2>4
  <2> HIDE DEF U
  <2>6. listing(d, name) \in Seq(U)
    BY <2>1, <2>5, SequenceIs
  <2> QED
    BY <2>6 DEF U
<1>3. CASE d = Invalid
  <2>1. listing(d, name) = <<>>
    BY <1>3 DEF listing, Root, Invalid
  <2> QED
    BY <2>1
<1>4. CASE d \notin {Root, Invalid}
  <2> DEFINE T == {nm \in Names : files[d][nm].is /\ name \in {"*", nm}}
             found == SetToSeq(T)
  <2>1. IsFiniteSet(T) /\ T \subseteq Strings
    <3>1. IsFiniteSet(Names) /\ T \subseteq Names /\ Names \subseteq STRING
      BY FtpAssumption
    <3> HIDE DEF T
    <3>2. IsFiniteSet(T)
      BY <3>1, FS_Subset
    <3> QED
      BY <3>1, <3>2 DEF Strings
  <2>2. found \in [1 .. Cardinality(T) -> T] /\ Cardinality(T) \in Nat
    <3> HIDE DEF T
    <3> QED
      BY <2>1, SetToSeqIs
  <2>3. listing(d, name) = [i \in DOMAIN found |-> <<found[i], "LF">>]
    BY <1>4, Zenon DEF listing
  <2> HIDE DEF T, found
  <2> DEFINE U == Seq(Nat \cup Strings)
  <2>4. \A i \in 1 .. Cardinality(T) : <<found[i], "LF">> \in U
    BY <1>1, <2>1, <2>2
  <2> HIDE DEF U
  <2>5. listing(d, name) \in [1 .. Cardinality(T) -> U]
    BY <2>2, <2>3, <2>4
  <2>6. listing(d, name) \in Seq(U)
    BY <2>2, <2>5, SequenceIs
  <2> QED
    BY <2>6 DEF U
<1> QED
  BY <1>2, <1>3, <1>4

(* What is sent and kept, of a listing.                                    *)
LEMMA SentType ==
  ASSUME NEW S, NEW units \in Seq(Seq(S)), NEW ok
  PROVE  transmitUnits(units, ok).buf \in Seq(S) /\ transmitUnits(units, ok).out \in Seq(S)
<1>1. PICK w \in [0 .. Len(units) -> [buf : Seq(S), out : Seq(S)]] :
        Sends(w, units, ok) /\ transmitUnits(units, ok) = w[Len(units)]
  BY TransmitUnits, Zenon
<1>2. Len(units) \in 0 .. Len(units)
  OBVIOUS
<1> DEFINE V == [buf : Seq(S), out : Seq(S)]
<1>3. transmitUnits(units, ok) \in V
  <2> HIDE DEF V
  <2>1. w \in [0 .. Len(units) -> V]
    BY <1>1 DEF V
  <2>2. w[Len(units)] \in V
    BY <1>2, <2>1
  <2> QED
    BY <1>1, <2>2
<1> QED
  BY <1>3

LEMMA TypesEndList == ASSUME TypeInv, endList PROVE TypeInv'
<1>1. pc = "copy" /\ Moving /\ Working
  BY DEF endList, Here, Moving, Working
<1> DEFINE r == transmitUnits(listing(xfer.disk, xfer.name), Live)
           cls == IF Live THEN Got(r.out \o r.buf) ELSE clients
<1>2. endTransfer(cls, <<>>) /\ trfSocket' = -1 /\ UNCHANGED <<f, files, failures>>
  BY Zenon DEF endList
<1>3. xfer.disk \in Disk \cup {Invalid}
  BY <1>1 DEF TypeInv, XferType, Xfer
<1>4. r.buf \in Seq(Nat \cup Strings) /\ r.out \in Seq(Nat \cup Strings)
  BY <1>3, ListingType, SentType DEF TypeInv
<1>5. ClientsFit(cls)
  <2> HIDE DEF r
  <2>1. ClientsFit(clients)
    BY DEF TypeInv, ClientsType, ClientsFit
  <2>2. r.out \o r.buf \in Seq(Nat \cup Strings)
    BY <1>4
  <2>3. ClientsFit(Got(r.out \o r.buf))
    BY <1>1, <2>2, GotType
  <2> QED
    BY <2>1, <2>3
<1>6. FilesType' /\ trfSocket' \in Sock /\ UNCHANGED clientSockCount /\ <<>> \in Seq(Nat)
  BY <1>2 DEF TypeInv, FilesType, Sock, endTransfer, watch
<1> HIDE DEF cls
<1> QED
  BY <1>1, <1>2, <1>5, <1>6, TypesEndTransfer

LEMMA TypesLoopInPath == ASSUME TypeInv, loopInPath PROVE TypeInv'
<1>1. pc = "cmd" /\ pc' = "looping" /\ simple
      /\ UNCHANGED <<sessions, cmd, sockets, files, clients, failures>>
  BY DEF loopInPath
<1>2. Working /\ ~Moving /\ Working' /\ ~Moving'
  BY <1>1 DEF Working, Moving
<1>3. Ctls' = Ctls
  BY <1>1 DEF Ctls
<1> QED
  BY <1>1, <1>2, <1>3
  DEF simple, watch, TypeInv, WatchType, SessionsType, ClientsType, FilesType, WorkType, XferType

-----------------------------------------------------------------------------
(* The main loop and the clients.                                          *)

(* The server ends.                                                        *)
LEMMA TypesShutdown ==
  ASSUME TypeInv, ~Moving, sock_shutdown, ClientsType', failures' \in 0 .. MaxFailures,
         round' \in [active : SUBSET Numbers, todo : SUBSET Numbers, done : BOOLEAN]
  PROVE  TypeInv'
<1>1. pc' = "ended" /\ sessions' = <<>>
      /\ UNCHANGED <<srvSocket, lastSockPlus1, trfSocket, f, xfer, cmd, files>>
  BY DEF sock_shutdown
<1>2. sockets' \in [Numbers -> Socket]
  BY SocketTypes DEF sock_shutdown, TypeInv
<1>3. clientSocks' \in SUBSET Numbers /\ clientSockCount' \in Int
  <2>1. Len(sessions) \in Nat
    BY DEF TypeInv, SessionsType
  <2> QED
    BY <2>1 DEF sock_shutdown, TypeInv, WatchType
<1>4. WatchType'
  BY <1>1, <1>2, <1>3 DEF TypeInv, WatchType
<1>5. SessionsType' /\ FilesType'
  BY <1>1 DEF TypeInv, SessionsType, FilesType
<1>6. WorkType' /\ XferType'
  BY <1>1 DEF TypeInv, WorkType, XferType, Working, Moving
<1> QED
  BY <1>4, <1>5, <1>6 DEF TypeInv

LEMMA TypesBoot == ASSUME TypeInv, boot PROVE TypeInv'
<1>1. pc = "boot" /\ ~Moving /\ UNCHANGED <<round, clients>>
  BY DEF boot, Moving
<1>2. ClientsType' /\ round' \in [active : SUBSET Numbers, todo : SUBSET Numbers, done : BOOLEAN]
  BY <1>1 DEF TypeInv, ClientsType, WatchType
<1>3. CASE Fail /\ sock_shutdown
  BY <1>1, <1>2, <1>3, FailType, TypesShutdown
<1>4. CASE /\ srvSocket' = NewNumber /\ sockets' = Open(NewNumber, "srv", 0)
           /\ initClientSocks(NewNumber) /\ pc' = "wait"
           /\ UNCHANGED <<sessions, f, trfSocket, xfer, cmd, files, failures>>
           /\ NewNumber \in Numbers
  <2>1. sockets' \in [Numbers -> Socket]
    BY <1>4, SocketTypes DEF TypeInv
  <2>2. /\ srvSocket' \in Sock /\ clientSocks' \in SUBSET Numbers
        /\ lastSockPlus1' \in 0 .. FD_SETSIZE /\ clientSockCount' \in Int
    BY <1>4, FtpAssumption DEF initClientSocks, Sock, Numbers
  <2>3. WatchType'
    BY <1>2, <1>4, <2>1, <2>2 DEF TypeInv, WatchType
  <2>4. WorkType' /\ XferType' /\ SessionsType' /\ FilesType'
    BY <1>1, <1>4 DEF TypeInv, WorkType, XferType, Working, Moving, SessionsType, FilesType
  <2> QED
    BY <1>2, <2>3, <2>4 DEF TypeInv
<1>5. pc = "boot" => NewNumber \in Numbers
  <2>1. ASSUME pc = "boot" PROVE sockets[0] = Closed /\ 0 \in Numbers
    BY <2>1, FtpAssumption DEF TypeInv, WorkType, Numbers
  <2> QED
    BY <2>1, NewNumberType
<1> QED
  BY <1>1, <1>3, <1>4, <1>5 DEF boot

LEMMA TypesWaitForSocket == ASSUME TypeInv, waitForSocket PROVE TypeInv'
<1>1. pc = "wait" /\ pc' = "accept" /\ UNCHANGED <<program, cmd, sockets, files, clients, failures>>
  BY DEF waitForSocket
<1>2. PICK a : a \subseteq clientSocks /\ round' = [round EXCEPT !.active = a]
  BY DEF waitForSocket
<1>3. round' \in [active : SUBSET Numbers, todo : SUBSET Numbers, done : BOOLEAN]
  BY <1>2 DEF TypeInv, WatchType
<1> QED
  BY <1>1, <1>3
  DEF program, watch, TypeInv, WatchType, SessionsType, ClientsType, FilesType, WorkType, XferType,
      Working, Moving

LEMMA TypesTerminate == ASSUME TypeInv, terminate PROVE TypeInv'
<1>1. ~Moving /\ sock_shutdown /\ UNCHANGED <<round, clients, failures>>
  BY DEF terminate, Moving
<1>2. ClientsType' /\ round' \in [active : SUBSET Numbers, todo : SUBSET Numbers, done : BOOLEAN]
  BY <1>1 DEF TypeInv, ClientsType, WatchType
<1> QED
  BY <1>1, <1>2, FailType, TypesShutdown

(* What a step without a command leaves of the types.                      *)
LEMMA TypesIdle ==
  ASSUME TypeInv, ~Moving, ~Working', pc' # "boot", WatchType', SessionsType', ClientsType',
         FilesType', xfer' = xfer, pc' = "serve" => round'.todo \subseteq Ctls',
         pc' \in {"wait", "accept", "serve", "ended"}
  PROVE  TypeInv'
BY DEF TypeInv, WorkType, XferType, Working, Moving

LEMMA TypesAcceptClient == ASSUME TypeInv, acceptClient PROVE TypeInv'
<1>1. pc = "accept" /\ ~Moving
  BY DEF acceptClient, Moving
<1> DEFINE n == NewNumber
<1>2. CASE \E c \in Clients :
             /\ clients[c].state = "calling" /\ n >= 0
             /\ addClientSock(n, c)
             /\ sockets' = Open(n, "ctl", c)
             /\ clients' = [clients EXCEPT ![c].state = "on", ![c].replies = <<220>>]
             /\ round' = [round EXCEPT !.todo = Todo(sessions')]
             /\ pc' = "serve"
             /\ UNCHANGED <<srvSocket, f, trfSocket, xfer, cmd, files, failures>>
  <2>1. PICK c \in Clients :
          /\ n >= 0
          /\ addClientSock(n, c)
          /\ sockets' = Open(n, "ctl", c)
          /\ clients' = [clients EXCEPT ![c].state = "on", ![c].replies = <<220>>]
          /\ round' = [round EXCEPT !.todo = Todo(sessions')]
          /\ pc' = "serve"
          /\ UNCHANGED <<srvSocket, f, trfSocket, xfer, cmd, files, failures>>
    BY <1>2
  <2>2. n \in Numbers /\ n \in 0 .. FD_SETSIZE - 1
    BY <2>1, NewNumberType DEF Numbers
  <2> HIDE DEF n
  <2>3. NewSession(n, c) \in Session
    <3>1. -1 \in Sock /\ Root \in Disk /\ "" \in Strings /\ "" \in Users
      BY DEF Sock, Disk, Strings, Users
    <3> QED
      BY <2>2, <3>1 DEF NewSession, Session
  <2>4. sessions' = <<NewSession(n, c)>> \o sessions /\ sessions' \in Seq(Session)
    BY <2>1, <2>3 DEF addClientSock, TypeInv, SessionsType
  <2>5. ClientsType'
    <3> DEFINE q == [clients[c] EXCEPT !.state = "on", !.replies = <<220>>]
    <3>1. clients' = [clients EXCEPT ![c] = q]
      BY <2>1 DEF TypeInv, ClientsType
    <3>2. clients[c] \in Client /\ <<220>> \in Seq(Nat) /\ ClientsType
      BY DEF TypeInv, ClientsType
    <3>3. q \in Client /\ q.sent = clients[c].sent /\ q.script = clients[c].script
          /\ q.unread = clients[c].unread
      BY <3>2 DEF Client
    <3>4. q.sent <= Len(q.script) /\ (q.unread => q.sent > 0)
      BY <3>2, <3>3 DEF ClientsType
    <3> HIDE DEF q
    <3>5. ClientsFit(clients')
      BY <3>1, <3>2, <3>3, <3>4, ClientChanged
    <3> QED
      BY <3>5 DEF ClientsFit, ClientsType
  <2>6. sockets' \in [Numbers -> Socket]
    BY <2>1, <2>2, SocketTypes DEF TypeInv
  <2>7. lastSockPlus1' \in 0 .. FD_SETSIZE
    <3>1. lastSockPlus1 \in Nat /\ n + 1 \in Nat
      BY <2>2 DEF TypeInv, WatchType
    <3>2. Max({lastSockPlus1, n + 1}) = IF lastSockPlus1 <= n + 1 THEN n + 1 ELSE lastSockPlus1
      BY <3>1, MaxOfTwo
    <3> QED
      BY <2>1, <2>2, <3>1, <3>2, FtpAssumption DEF addClientSock, TypeInv, WatchType
  <2>8. round.active \in SUBSET Numbers /\ round.done \in BOOLEAN
        /\ round \in [active : SUBSET Numbers, todo : SUBSET Numbers, done : BOOLEAN]
    BY DEF TypeInv, WatchType
  <2>9. Todo(sessions') \subseteq Ctls' /\ Todo(sessions') \subseteq Numbers
    BY <2>8 DEF Todo, Ctls
  <2>10. round' \in [active : SUBSET Numbers, todo : SUBSET Numbers, done : BOOLEAN]
         /\ round'.todo = Todo(sessions')
    BY <2>1, <2>8, <2>9
  <2>11. clientSocks' \in SUBSET Numbers /\ clientSockCount' \in Int
    BY <2>1, <2>2 DEF addClientSock, TypeInv, WatchType
  <2>12. WatchType' /\ FilesType'
    BY <2>1, <2>6, <2>7, <2>10, <2>11 DEF TypeInv, WatchType, FilesType
  <2> QED
    BY <1>1, <2>1, <2>4, <2>5, <2>9, <2>10, <2>12, TypesIdle DEF SessionsType, Working
<1>3. CASE /\ Fail \/ UNCHANGED failures
           /\ sock_shutdown /\ UNCHANGED <<round, clients>>
  <2>1. ClientsType' /\ round' \in [active : SUBSET Numbers, todo : SUBSET Numbers, done : BOOLEAN]
    BY <1>3 DEF TypeInv, ClientsType, WatchType
  <2> QED
    BY <1>1, <1>3, <2>1, FailType, TypesShutdown
<1>4. CASE /\ Fail \/ UNCHANGED failures
           /\ srvSocket' = -1
           /\ clientSocks' = clientSocks \ {srvSocket}
           /\ sockets' = Close({srvSocket})
           /\ clients' = [c \in Clients |-> IF clients[c].state = "calling"
                                            THEN [clients[c] EXCEPT !.state = "gone"] ELSE clients[c]]
           /\ round' = [round EXCEPT !.todo = Todo(sessions)]
           /\ pc' = "serve"
           /\ UNCHANGED <<lastSockPlus1, clientSockCount, sessions, f, trfSocket, xfer, cmd, files>>
  <2>1. ASSUME NEW c \in Clients
        PROVE  /\ clients'[c] \in Client /\ clients'[c].sent = clients[c].sent
               /\ clients'[c].script = clients[c].script /\ clients'[c].unread = clients[c].unread
    <3>1. clients[c] \in Client
      BY DEF TypeInv, ClientsType
    <3>2. clients'[c] = clients[c] \/ clients'[c] = [clients[c] EXCEPT !.state = "gone"]
      BY <1>4
    <3> QED
      BY <3>1, <3>2 DEF Client
  <2>2. clients' \in [Clients -> Client]
    <3>1. clients' = [c \in Clients |-> clients'[c]]
      BY <1>4
    <3> QED
      BY <2>1, <3>1
  <2>3. ClientsType'
    BY <2>1, <2>2 DEF TypeInv, ClientsType
  <2>4. sockets' \in [Numbers -> Socket] /\ failures' \in 0 .. MaxFailures
    BY <1>4, SocketTypes, FailType DEF TypeInv
  <2>5. round.active \in SUBSET Numbers
        /\ round \in [active : SUBSET Numbers, todo : SUBSET Numbers, done : BOOLEAN]
    BY DEF TypeInv, WatchType
  <2>6. Todo(sessions) \subseteq Ctls /\ Todo(sessions) \subseteq Numbers /\ Ctls' = Ctls
    BY <1>4, <2>5 DEF Todo, Ctls
  <2>7. round' \in [active : SUBSET Numbers, todo : SUBSET Numbers, done : BOOLEAN]
        /\ round'.todo = Todo(sessions)
    BY <1>4, <2>5, <2>6
  <2>8. WatchType' /\ FilesType' /\ SessionsType'
    BY <1>4, <2>4, <2>7 DEF TypeInv, WatchType, FilesType, SessionsType, Sock
  <2> QED
    BY <1>1, <1>4, <2>3, <2>6, <2>7, <2>8, TypesIdle DEF Working
<1> QED
  BY <1>2, <1>3, <1>4 DEF acceptClient

LEMMA TypesNoAccept == ASSUME TypeInv, noAccept PROVE TypeInv'
<1>1. /\ pc = "accept" /\ ~Moving /\ pc' = "serve"
      /\ round' = [round EXCEPT !.todo = Todo(sessions)]
      /\ UNCHANGED <<program, cmd, sockets, files, clients, failures>>
  BY DEF noAccept, Moving
<1>2. round.active \in SUBSET Numbers
      /\ round \in [active : SUBSET Numbers, todo : SUBSET Numbers, done : BOOLEAN]
  BY DEF TypeInv, WatchType
<1>3. Todo(sessions) \subseteq Ctls /\ Todo(sessions) \subseteq Numbers /\ Ctls' = Ctls
  BY <1>1, <1>2 DEF Todo, Ctls, program
<1>4. round' \in [active : SUBSET Numbers, todo : SUBSET Numbers, done : BOOLEAN]
      /\ round'.todo = Todo(sessions)
  BY <1>1, <1>2, <1>3
<1>5. WatchType' /\ FilesType' /\ SessionsType' /\ ClientsType' /\ xfer' = xfer
  BY <1>1, <1>4
  DEF program, watch, TypeInv, WatchType, FilesType, SessionsType, ClientsType
<1> QED
  BY <1>1, <1>3, <1>4, <1>5, TypesIdle DEF Working

(* The session that is next in a round.                                    *)
LEMMA NextUpIs ==
  ASSUME TypeInv, pc = "serve", round.todo # {}
  PROVE  /\ NextUp \in Session /\ NextUp.ctlSocket \in round.todo
         /\ NextUp.ctlSocket \in Ctls /\ NextUp.client \in Clients
         /\ \E i \in 1 .. Len(sessions) : NextUp = sessions[i]
<1> DEFINE T == {i \in DOMAIN sessions : sessions[i].ctlSocket \in round.todo}
<1>1. sessions \in Seq(Session) /\ DOMAIN sessions = 1 .. Len(sessions) /\ Len(sessions) \in Nat
  BY DEF TypeInv, SessionsType
<1>2. T \subseteq Nat /\ T # {}
  <2>1. round.todo \subseteq Ctls
    BY DEF TypeInv, WorkType
  <2> QED
    BY <1>1, <2>1 DEF Ctls
<1>3. Min(T) \in T
  <2> HIDE DEF T
  <2> QED
    BY <1>2, MinOf
<1>4. NextUp = sessions[Min(T)]
  BY DEF NextUp
<1>5. Min(T) \in 1 .. Len(sessions) /\ sessions[Min(T)].ctlSocket \in round.todo
  BY <1>1, <1>3
<1> HIDE DEF T
<1>6. sessions[Min(T)] \in Session
  BY <1>1, <1>5
<1> QED
  BY <1>1, <1>4, <1>5, <1>6 DEF Ctls, Session

LEMMA TypesGetCtlLine == ASSUME TypeInv, getCtlLine PROVE TypeInv'
<1>1. /\ pc = "serve" /\ round.todo # {} /\ ~Moving /\ pc' = "cmd" /\ Working' /\ ~Moving'
      /\ UNCHANGED <<program, sockets, files, failures>>
  BY DEF getCtlLine, Moving, Working
<1> DEFINE c == NextUp.client
           n == NextUp.ctlSocket
<1>2. n \in Ctls /\ c \in Clients /\ n \in round.todo
  BY <1>1, NextUpIs
<1>3. /\ clients[c].unread
      /\ cmd' = [cmd |-> Current(c).cmd, arg |-> Current(c).arg, h |-> n]
      /\ clients' = [clients EXCEPT ![c].unread = FALSE]
      /\ round' = [round EXCEPT !.todo = @ \ {n}]
  BY DEF getCtlLine
<1> HIDE DEF c, n
<1>4. clients[c] \in Client /\ ClientsType
  BY <1>2 DEF TypeInv, ClientsType
<1>5. Current(c) \in Commands
  <2>1. clients[c].script \in Seq(Commands) /\ clients[c].sent \in Nat
    BY <1>4 DEF Client
  <2>2. clients[c].sent <= Len(clients[c].script) /\ clients[c].sent > 0
    BY <1>2, <1>3, <1>4 DEF ClientsType
  <2>3. clients[c].sent \in 1 .. Len(clients[c].script)
    BY <2>1, <2>2
  <2> QED
    BY <2>1, <2>3 DEF Current
<1>6. ClientsType'
  <2> DEFINE q == [clients[c] EXCEPT !.unread = FALSE]
  <2>1. clients' = [clients EXCEPT ![c] = q]
    BY <1>2, <1>3
  <2>2. q \in Client /\ q.sent = clients[c].sent /\ q.script = clients[c].script /\ q.unread = FALSE
    BY <1>4 DEF Client
  <2>3. q.sent <= Len(q.script) /\ (q.unread => q.sent > 0)
    BY <1>2, <1>4, <2>2 DEF ClientsType
  <2> HIDE DEF q
  <2>4. ClientsFit(clients')
    BY <1>2, <1>4, <2>1, <2>2, <2>3, ClientChanged
  <2> QED
    BY <2>4 DEF ClientsFit, ClientsType
<1>7. Ctls' = Ctls /\ round.todo \subseteq Ctls
  BY <1>1 DEF Ctls, program, TypeInv, WorkType
<1>8. round \in [active : SUBSET Numbers, todo : SUBSET Numbers, done : BOOLEAN]
  BY DEF TypeInv, WatchType
<1>9. round' \in [active : SUBSET Numbers, todo : SUBSET Numbers, done : BOOLEAN]
      /\ round'.todo \subseteq Ctls'
  BY <1>3, <1>7, <1>8
<1>10. WatchType' /\ FilesType' /\ SessionsType'
  BY <1>1, <1>9 DEF program, watch, TypeInv, WatchType, FilesType, SessionsType
<1>11. WorkType'
  BY <1>1, <1>2, <1>3, <1>5, <1>7, <1>9 DEF WorkType, Commands
<1>12. XferType'
  BY <1>1 DEF program, TypeInv, XferType
<1> QED
  BY <1>6, <1>10, <1>11, <1>12 DEF TypeInv

LEMMA TypesLostCtl == ASSUME TypeInv, lostCtl PROVE TypeInv'
<1>1. /\ pc = "serve" /\ round.todo # {} /\ ~Moving /\ pc' = "serve"
      /\ UNCHANGED <<srvSocket, lastSockPlus1, f, trfSocket, xfer, pc, cmd, files, failures>>
  BY DEF lostCtl, Moving
<1> DEFINE c == NextUp.client
           n == NextUp.ctlSocket
<1>2. n \in Ctls /\ c \in Clients
  BY <1>1, NextUpIs
<1>3. dropClientSock(n) /\ clients' = Unqueued(c)
  BY DEF lostCtl
<1> HIDE DEF c, n
<1>4. ClientsType'
  <2>1. ClientsFit(clients')
    BY <1>2, <1>3, UnqueuedType DEF TypeInv
  <2> QED
    BY <2>1 DEF ClientsFit, ClientsType
<1>5. round.todo \subseteq Ctls
  BY <1>1 DEF TypeInv, WorkType
<1>6. /\ sockets' \in [Numbers -> Socket]
      /\ clientSocks' \in SUBSET Numbers /\ clientSockCount' \in Int
      /\ round' \in [active : SUBSET Numbers, todo : SUBSET Numbers, done : BOOLEAN]
      /\ round'.todo \subseteq Ctls'
  BY <1>2, <1>3, <1>5, DroppedTypes
<1>7. SessionsType'
  BY <1>2, <1>3, Dropped
<1>8. WatchType' /\ FilesType'
  BY <1>1, <1>6 DEF TypeInv, WatchType, FilesType
<1> QED
  BY <1>1, <1>4, <1>6, <1>7, <1>8, TypesIdle DEF Working

LEMMA TypesEndRound == ASSUME TypeInv, endRound PROVE TypeInv'
<1>1. /\ pc = "serve" /\ ~Moving /\ round' = [round EXCEPT !.active = {}]
      /\ UNCHANGED <<clients, failures>>
  BY DEF endRound, Moving
<1>2. ClientsType' /\ failures' \in 0 .. MaxFailures
  BY <1>1, FailType DEF TypeInv, ClientsType
<1>3. round' \in [active : SUBSET Numbers, todo : SUBSET Numbers, done : BOOLEAN]
  BY <1>1 DEF TypeInv, WatchType
<1>4. CASE sock_shutdown
  BY <1>1, <1>2, <1>3, <1>4, TypesShutdown
<1>5. CASE pc' = "wait" /\ UNCHANGED <<program, cmd, sockets, files>>
  <2>1. WatchType' /\ FilesType' /\ SessionsType' /\ xfer' = xfer
    BY <1>1, <1>3, <1>5 DEF program, watch, TypeInv, WatchType, FilesType, SessionsType
  <2> QED
    BY <1>1, <1>2, <1>5, <2>1, TypesIdle DEF Working
<1> QED
  BY <1>4, <1>5 DEF endRound

(* What a step of the clients leaves of the types.                         *)
LEMMA TypesOutside ==
  ASSUME TypeInv, UNCHANGED serverSide, ClientsType', XferType'
  PROVE  TypeInv'
<1>1. UNCHANGED <<srvSocket, clientSocks, lastSockPlus1, clientSockCount, sessions, f, trfSocket, pc,
                  round, cmd, sockets, files, failures>>
  BY DEF serverSide, watch
<1>2. Working' = Working /\ Ctls' = Ctls
  BY <1>1 DEF Working, Ctls
<1> QED
  BY <1>1, <1>2 DEF TypeInv, WatchType, SessionsType, FilesType, WorkType

(* One client changes, the transfer does not.                              *)
LEMMA TypesOfClient ==
  ASSUME TypeInv, UNCHANGED <<serverSide, xfer>>, NEW c \in Clients, NEW q \in Client,
         q.sent <= Len(q.script), q.unread => q.sent > 0, clients' = [clients EXCEPT ![c] = q]
  PROVE  TypeInv'
<1>1. ClientsFit(clients')
  BY ClientChanged DEF TypeInv
<1>2. ClientsType'
  BY <1>1 DEF ClientsFit, ClientsType
<1>3. XferType'
  BY DEF serverSide, TypeInv, XferType, Moving
<1> QED
  BY <1>2, <1>3, TypesOutside

LEMMA TypesCall == ASSUME TypeInv, NEW c \in Clients, call(c) PROVE TypeInv'
<1> DEFINE q == [clients[c] EXCEPT !.state = "calling"]
<1>1. clients[c] \in Client /\ clients[c].sent <= Len(clients[c].script)
      /\ (clients[c].unread => clients[c].sent > 0)
  BY DEF TypeInv, ClientsType
<1>2. clients' = [clients EXCEPT ![c] = q] /\ UNCHANGED <<serverSide, xfer>>
  BY DEF call
<1>3. q \in Client /\ q.sent <= Len(q.script) /\ (q.unread => q.sent > 0)
  BY <1>1 DEF Client
<1> HIDE DEF q
<1> QED
  BY <1>2, <1>3, TypesOfClient

LEMMA TypesBeginCommand == ASSUME TypeInv, NEW c \in Clients, beginCommand(c) PROVE TypeInv'
<1> DEFINE q == [clients[c] EXCEPT !.begun = TRUE]
<1>1. clients[c] \in Client /\ clients[c].sent <= Len(clients[c].script)
      /\ (clients[c].unread => clients[c].sent > 0)
  BY DEF TypeInv, ClientsType
<1>2. clients' = [clients EXCEPT ![c] = q] /\ UNCHANGED <<serverSide, xfer>>
  BY DEF beginCommand
<1>3. q \in Client /\ q.sent <= Len(q.script) /\ (q.unread => q.sent > 0)
  BY <1>1 DEF Client
<1> HIDE DEF q
<1> QED
  BY <1>2, <1>3, TypesOfClient

LEMMA TypesSendCommand == ASSUME TypeInv, NEW c \in Clients, sendCommand(c) PROVE TypeInv'
<1> DEFINE r == clients[c]
           q == [r EXCEPT !.sent = @ + 1, !.begun = FALSE, !.unread = TRUE, !.replies = <<>>,
                          !.got = <<>>]
<1>1. r \in Client /\ r.sent < Len(r.script)
  BY DEF TypeInv, ClientsType, sendCommand, HasNext
<1>2. clients' = [clients EXCEPT ![c] = q] /\ UNCHANGED <<serverSide, xfer>>
  BY DEF sendCommand, TypeInv, ClientsType
<1>3. q \in Client /\ q.sent = r.sent + 1 /\ q.script = r.script
  <2>1. r.sent + 1 \in Nat
    BY <1>1 DEF Client
  <2>2. <<>> \in Seq(Nat) /\ <<>> \in Seq(Nat \cup Strings)
    OBVIOUS
  <2> QED
    BY <1>1, <2>1, <2>2 DEF Client
<1>4. q.sent <= Len(q.script) /\ (q.unread => q.sent > 0)
  <2>1. r.sent \in Nat /\ Len(r.script) \in Nat
    <3>1. r.script \in Seq(Commands) /\ r.sent \in Nat
      BY <1>1 DEF Client
    <3> QED
      BY <3>1
  <2> QED
    BY <1>1, <1>3, <2>1
<1> HIDE DEF q
<1> QED
  BY <1>2, <1>3, <1>4, TypesOfClient

LEMMA TypesDial == ASSUME TypeInv, NEW c \in Clients, dial(c) PROVE TypeInv'
<1> DEFINE r == clients[c]
           k == IF Between(c) THEN r.sent + 1 ELSE r.sent
           q == [r EXCEPT !.dialed = k, !.queued = Append(@, k)]
<1>1. r \in Client /\ r.sent <= Len(r.script) /\ (r.unread => r.sent > 0)
  BY DEF TypeInv, ClientsType
<1>2. clients' = [clients EXCEPT ![c].dialed = k, ![c].queued = Append(@, k)]
      /\ UNCHANGED <<serverSide, xfer>>
  BY Zenon DEF dial
<1>3. clients' = [clients EXCEPT ![c] = q]
  BY <1>2 DEF TypeInv, ClientsType
<1>4. k \in Nat /\ Append(r.queued, k) \in Seq(Nat)
  <2>1. r.sent \in Nat /\ r.queued \in Seq(Nat)
    BY <1>1 DEF Client
  <2>2. k \in Nat
    BY <2>1
  <2> QED
    BY <2>1, <2>2
<1>5. q \in Client /\ q.sent = r.sent /\ q.script = r.script /\ q.unread = r.unread
  <2> DEFINE w == Append(r.queued, k)
  <2>1. q = [r EXCEPT !.dialed = k, !.queued = w]
    OBVIOUS
  <2> HIDE DEF w, k
  <2> QED
    BY <1>1, <1>4, <2>1 DEF Client, w
<1> HIDE DEF q, k
<1> QED
  BY <1>1, <1>2, <1>3, <1>5, TypesOfClient

(* A connection is lost.                                                   *)
LEMMA LostXfer ==
  ASSUME TypeInv, Moving, UNCHANGED <<f, pc>>, xfer' = [xfer EXCEPT !.conn = "lost"]
  PROVE  XferType'
<1>1. xfer \in Xfer
  BY DEF TypeInv, XferType
<1>2. xfer' \in Xfer /\ UNCHANGED <<xfer.cmd, xfer.disk, xfer.name, xfer.buf, xfer.format>>
  BY <1>1 DEF Xfer
<1> QED
  BY <1>2 DEF TypeInv, XferType, Moving

LEMMA TypesLeave == ASSUME TypeInv, NEW c \in Clients, leave(c) PROVE TypeInv'
<1> DEFINE q == [clients[c] EXCEPT !.state = "gone"]
<1>1. clients[c] \in Client /\ clients[c].sent <= Len(clients[c].script)
      /\ (clients[c].unread => clients[c].sent > 0)
  BY DEF TypeInv, ClientsType
<1>2. clients' = [clients EXCEPT ![c] = q] /\ UNCHANGED serverSide
  BY DEF leave
<1>3. q \in Client /\ q.sent <= Len(q.script) /\ (q.unread => q.sent > 0)
  BY <1>1 DEF Client
<1>4. ClientsType'
  <2> HIDE DEF q
  <2>1. ClientsFit(clients')
    BY <1>2, <1>3, ClientChanged DEF TypeInv
  <2> QED
    BY <2>1 DEF ClientsFit, ClientsType
<1>5. XferType'
  <2>1. UNCHANGED <<f, pc>>
    BY <1>2 DEF serverSide
  <2>2. CASE UNCHANGED xfer
    BY <2>1, <2>2 DEF TypeInv, XferType, Moving
  <2>3. CASE xfer # NoXfer /\ xfer' = [xfer EXCEPT !.conn = "lost"]
    BY <2>1, <2>3, LostXfer DEF TypeInv, XferType
  <2> QED
    BY <2>2, <2>3 DEF leave
<1> QED
  BY <1>2, <1>4, <1>5, TypesOutside

LEMMA TypesLoseData == ASSUME TypeInv, loseData PROVE TypeInv'
<1>1. /\ pc = "copy" /\ Moving /\ Working /\ Fail
      /\ xfer' = [xfer EXCEPT !.conn = "lost"]
      /\ UNCHANGED <<watch, sessions, f, trfSocket, pc, round, cmd, sockets, files, clients>>
  BY DEF loseData, Moving, Working
<1>2. XferType'
  BY <1>1, LostXfer
<1>3. ClientsType' /\ FilesType' /\ failures' \in 0 .. MaxFailures /\ trfSocket' \in Sock
      /\ sockets' \in [Numbers -> Socket] /\ Moving'
  BY <1>1, FailType DEF TypeInv, ClientsType, FilesType, WatchType, Moving
<1> QED
  BY <1>1, <1>2, <1>3, TypesWhileMoving

-----------------------------------------------------------------------------
(* The types.                                                              *)

LEMMA TypesInit == ASSUME FtpInit PROVE TypeInv
<1> USE DEF FtpInit
<1>1. Closed \in Socket /\ Numbers \in SUBSET Numbers
  BY DEF Closed, Socket
<1>2. sockets \in [Numbers -> Socket]
  BY <1>1
<1>3. WatchType
  BY <1>2, FtpAssumption DEF WatchType, Sock
<1>4. SessionsType /\ FilesType
  BY FtpDataAssumption DEF SessionsType, FilesType
<1>5. WorkType /\ XferType
  BY DEF WorkType, XferType, Working, Moving
<1>6. ClientsType
  <2>1. PICK s \in Scripts : clients = [c \in Clients |->
          [script |-> s[c], state |-> "out", sent |-> 0, begun |-> FALSE, unread |-> FALSE,
           handled |-> 0, replies |-> <<>>, queued |-> <<>>, dialed |-> 0, got |-> <<>>]]
    OBVIOUS
  <2>2. ASSUME NEW c \in Clients
        PROVE  clients[c] \in Client /\ clients[c].sent <= Len(clients[c].script)
               /\ ~clients[c].unread
    <3>1. s[c] \in Seq(Commands)
      BY <2>1, FtpDataAssumption
    <3>2. <<>> \in Seq(Nat) /\ <<>> \in Seq(Nat \cup Strings) /\ Len(s[c]) >= 0
      BY <3>1
    <3> QED
      BY <2>1, <3>1, <3>2 DEF Client
  <2>3. clients \in [Clients -> Client]
    BY <2>1, <2>2
  <2> QED
    BY <2>2, <2>3 DEF ClientsType
<1> QED
  BY <1>3, <1>4, <1>5, <1>6 DEF TypeInv

LEMMA TypesCommand == ASSUME TypeInv, processSingleCmd PROVE TypeInv'
BY TypesUSER, TypesPASS, TypesOnlyReply, TypesQUIT, TypesPASV, TypesPORT, TypesCWD, TypesTYPE,
   TypesDELE, TypesRNFR, TypesRNTO, TypesRETR, TypesSTOR, TypesList, TypesLoopInPath, TypesOpenData,
   TypesReadRecord, TypesEndRETR, TypesRecvChunk, TypesEndSTOR, TypesEndList
DEF processSingleCmd

LEMMA TypesNext == ASSUME TypeInv, [FtpNext]_ftpVars PROVE TypeInv'
<1>1. CASE main
  BY <1>1, TypesBoot, TypesWaitForSocket, TypesAcceptClient, TypesNoAccept, TypesGetCtlLine,
     TypesLostCtl, TypesEndRound, TypesCommand DEF main
<1>2. CASE clientSteps \/ \E c \in Clients : dial(c)
  BY <1>2, TypesCall, TypesBeginCommand, TypesSendCommand, TypesLeave, TypesDial DEF clientSteps
<1>3. CASE readError \/ loseData \/ terminate
  BY <1>3, TypesReadError, TypesLoseData, TypesTerminate
<1>4. CASE UNCHANGED ftpVars
  BY <1>4
  DEF ftpVars, program, watch, TypeInv, WatchType, SessionsType, ClientsType, FilesType, WorkType,
      XferType, Working, Moving, Ctls
<1> QED
  BY <1>1, <1>2, <1>3, <1>4 DEF FtpNext

(* Every variable has its type: sockets, sessions, clients and the records *)
(* of every file; a transfer and the file it works on fit together.        *)
THEOREM TypesHold == FtpSpec => []TypeInv
<1>1. FtpInit => TypeInv
  BY TypesInit
<1>2. TypeInv /\ [FtpNext]_ftpVars => TypeInv'
  BY TypesNext
<1> QED
  BY <1>1, <1>2, PTL DEF FtpSpec

-----------------------------------------------------------------------------
(* Sockets: each that is open has an owner, which opened it for its use.   *)

MovingData == pc = "copy" /\ xfer.cmd # "STAT"
DataSock   == IF MovingData THEN xfer.sock ELSE -1
Owned(n) ==
  \/ n = srvSocket \/ n = DataSock
  \/ \E i \in DOMAIN sessions : n \in {sessions[i].ctlSocket, sessions[i].psvSocket}

(* A client has at most one session, and that is counted.                  *)
SessionsInv ==
  /\ \A i, j \in DOMAIN sessions : sessions[i].client = sessions[j].client => i = j
  /\ \A i \in DOMAIN sessions : clients[sessions[i].client].state \in {"on", "gone"}
  /\ clientSockCount = Len(sessions)
  /\ pc \in {"boot", "ended"} => Len(sessions) = 0

OpenOwned == \A n \in Numbers : sockets[n] # Closed => Owned(n)
SrvOwned  == srvSocket # -1 => sockets[srvSocket] = [use |-> "srv", client |-> 0]
DataOwned == MovingData => DataSock \in Numbers /\ sockets[DataSock].use = "data"
SessionOwned(i) ==
  /\ sockets[sessions[i].ctlSocket] = [use |-> "ctl", client |-> sessions[i].client]
  /\ sessions[i].psvSocket # -1 =>
       sockets[sessions[i].psvSocket] = [use |-> "psv", client |-> sessions[i].client]
Watched ==
  /\ clientSocks = Ctls \cup ({srvSocket} \ {-1})
  /\ \A n \in clientSocks : n < lastSockPlus1

SocketInv ==
  /\ pc = "boot" => srvSocket = -1
  /\ pc = "ended" => sockets = [n \in Numbers |-> Closed]
  /\ pc # "ended" => /\ OpenOwned /\ SrvOwned /\ DataOwned /\ Watched
                     /\ \A i \in DOMAIN sessions : SessionOwned(i)

OwnInv == SessionsInv /\ SocketInv

(* The sessions have the clients and sockets they had.                     *)
SameSockets ==
  /\ DOMAIN sessions' = DOMAIN sessions /\ Len(sessions') = Len(sessions)
  /\ \A i \in DOMAIN sessions : /\ sessions'[i].client = sessions[i].client
                                /\ sessions'[i].ctlSocket = sessions[i].ctlSocket
                                /\ sessions'[i].psvSocket = sessions[i].psvSocket

(* No client that is connected is any more as if it had never been.        *)
SameStates ==
  \A c \in Clients : clients[c].state \in {"on", "gone"} => clients'[c].state \in {"on", "gone"}

Kept ==
  /\ UNCHANGED <<srvSocket, clientSocks, lastSockPlus1, clientSockCount, sockets>>
  /\ SameSockets /\ SameStates
  /\ MovingData' <=> MovingData
  /\ DataSock' = DataSock
  /\ pc' = pc \/ {pc, pc'} \cap {"boot", "ended"} = {}

(* Numbers that sockets have.                                              *)
LEMMA NumberIs == /\ \A n \in Numbers : n \in Nat /\ n # -1 /\ n < FD_SETSIZE
                  /\ \A n \in Sock : n \in Numbers \/ n = -1
BY FtpAssumption DEF Numbers, Sock

(* Sessions by their index.                                                *)
LEMMA SessionIs ==
  ASSUME TypeInv
  PROVE  /\ DOMAIN sessions = 1 .. Len(sessions) /\ Len(sessions) \in Nat
         /\ \A i \in DOMAIN sessions :
              /\ sessions[i] \in Session /\ sessions[i].client \in Clients
              /\ sessions[i].ctlSocket \in Numbers /\ sessions[i].ctlSocket # -1
              /\ sessions[i].psvSocket \in Numbers \/ sessions[i].psvSocket = -1
<1>1. sessions \in Seq(Session)
  BY DEF TypeInv, SessionsType
<1>2. DOMAIN sessions = 1 .. Len(sessions) /\ Len(sessions) \in Nat
  BY <1>1
<1>3. \A i \in DOMAIN sessions : sessions[i] \in Session
  BY <1>1
<1>4. \A s \in Session : s.client \in Clients /\ s.ctlSocket \in Numbers /\ s.psvSocket \in Sock
  BY DEF Session
<1> QED
  BY <1>2, <1>3, <1>4, NumberIs

LEMMA OwnedKept ==
  ASSUME TypeInv, OwnInv, Kept
  PROVE  OwnInv'
<1>1. SessionsInv'
  <2>1. SessionsInv /\ SameSockets /\ SameStates /\ UNCHANGED clientSockCount
        /\ (pc' = pc \/ pc' \notin {"boot", "ended"})
    BY DEF OwnInv, Kept
  <2>2. \A i, j \in DOMAIN sessions' : sessions'[i].client = sessions'[j].client => i = j
    BY <2>1 DEF SessionsInv, SameSockets
  <2>3. \A i \in DOMAIN sessions' : clients'[sessions'[i].client].state \in {"on", "gone"}
    BY <2>1, SessionIs DEF SessionsInv, SameSockets, SameStates
  <2>4. clientSockCount' = Len(sessions')
    BY <2>1 DEF SessionsInv, SameSockets
  <2>5. pc' \in {"boot", "ended"} => Len(sessions') = 0
    BY <2>1 DEF SessionsInv, SameSockets
  <2> QED
    BY <2>2, <2>3, <2>4, <2>5 DEF SessionsInv
<1>2. Ctls' = Ctls
  BY DEF Kept, SameSockets, Ctls
<1>3. \A n : Owned(n)' <=> Owned(n)
  BY DEF Owned, Kept, SameSockets
<1>4. \A i \in DOMAIN sessions : SessionOwned(i) => SessionOwned(i)'
  BY DEF SessionOwned, Kept, SameSockets
<1>5. SocketInv'
  <2>1. pc' = "ended" => pc = "ended"
    BY DEF Kept
  <2>2. pc' = "boot" => pc = "boot"
    BY DEF Kept
  <2>3. ASSUME pc # "ended"
        PROVE  OpenOwned' /\ SrvOwned' /\ DataOwned' /\ Watched'
               /\ \A i \in DOMAIN sessions' : SessionOwned(i)'
    <3>1. OpenOwned'
      BY <1>3, <2>3 DEF OwnInv, SocketInv, OpenOwned, Kept
    <3>2. SrvOwned' /\ DataOwned' /\ Watched'
      BY <1>2, <2>3 DEF OwnInv, SocketInv, SrvOwned, DataOwned, Watched, Kept
    <3>3. \A i \in DOMAIN sessions' : SessionOwned(i)'
      BY <1>4, <2>3 DEF OwnInv, SocketInv, Kept, SameSockets
    <3> QED
      BY <3>1, <3>2, <3>3
  <2>4. pc' = "ended" => sockets' = [n \in Numbers |-> Closed]
    BY <2>1 DEF OwnInv, SocketInv, Kept
  <2>5. pc' = "boot" => srvSocket' = -1
    BY <2>2 DEF OwnInv, SocketInv, Kept
  <2>6. pc' # "ended" => pc # "ended"
    BY DEF Kept
  <2> QED
    BY <2>3, <2>4, <2>5, <2>6 DEF SocketInv
<1> QED
  BY <1>1, <1>5 DEF OwnInv

(* The sockets and clients of the sessions when one of them is set.        *)
LEMMA SetSockets ==
  ASSUME TypeInv, Working, NEW s, setSession(s), s.client = me.client,
         s.ctlSocket = me.ctlSocket, s.psvSocket = me.psvSocket
  PROVE  SameSockets
<1>1. SessionAt(cmd.h) \in 1 .. Len(sessions)
  BY MeType
<1>2. sessions \in Seq(Session \cup {s})
  BY DEF TypeInv, SessionsType
<1>3. sessions' = [sessions EXCEPT ![SessionAt(cmd.h)] = s]
  BY DEF setSession
<1>4. Len(sessions') = Len(sessions) /\ DOMAIN sessions' = DOMAIN sessions
  BY <1>1, <1>2, <1>3
<1>5. \A i \in DOMAIN sessions : sessions'[i] = IF i = SessionAt(cmd.h) THEN s ELSE sessions[i]
  BY <1>3
<1> QED
  BY <1>4, <1>5 DEF SameSockets, me

(* A command is done: its client gets replies, and that is all.            *)
Finished ==
  /\ pc' = "serve" /\ cmd' = NoCmd
  /\ \A c \in Clients :
       /\ clients'[c].state = clients[c].state /\ clients'[c].script = clients[c].script
       /\ clients'[c].sent = clients[c].sent /\ clients'[c].unread = clients[c].unread
       /\ clients'[c].got = clients[c].got
       /\ clients'[c].handled = IF c = me.client THEN clients[c].handled + 1 ELSE clients[c].handled

LEMMA Finishes ==
  ASSUME TypeInv, Working, NEW codes, Finish(codes)
  PROVE  Finished
<1>1. me.client \in Clients /\ clients[me.client] \in Client /\ clients \in [Clients -> Client]
  BY MeType DEF TypeInv, ClientsType
<1> DEFINE r == clients[me.client]
           x == r.replies \o codes
           q == [r EXCEPT !.replies = x, !.handled = @ + 1]
<1>2. clients' = [clients EXCEPT ![me.client] = q] /\ pc' = "serve" /\ cmd' = NoCmd
  BY <1>1 DEF Finish, FinishFrom
<1>3. /\ q.state = r.state /\ q.script = r.script /\ q.sent = r.sent /\ q.unread = r.unread
      /\ q.got = r.got /\ q.handled = r.handled + 1
  <2> HIDE DEF x
  <2> QED
    BY <1>1 DEF Client
<1>4. \A c \in Clients : clients'[c] = IF c = me.client THEN q ELSE clients[c]
  BY <1>1, <1>2
<1> HIDE DEF q
<1> QED
  BY <1>2, <1>3, <1>4 DEF Finished

(* A command that changes no socket.                                       *)
SimpleStep ==
  pc = "cmd" /\ Finished /\ UNCHANGED <<watch, trfSocket, xfer, round, sockets>> /\ SameSockets

LEMMA SimpleKept == ASSUME TypeInv, OwnInv, SimpleStep PROVE OwnInv'
<1>1. Kept
  BY DEF SimpleStep, Finished, Kept, SameStates, watch, MovingData, DataSock
<1> QED
  BY <1>1, OwnedKept

LEMMA Unchanged == ASSUME UNCHANGED sessions PROVE SameSockets
BY DEF SameSockets

(* The socket of a session is kept when something else of it is set.       *)
LEMMA SetOther ==
  ASSUME TypeInv, Working, NEW s,
         \/ \E a, b : s = [me EXCEPT !.notedUser = a, !.loggedIn = b]
         \/ \E a, b : s = [me EXCEPT !.loggedIn = b, !.notedUser = a]
         \/ \E a : s = [me EXCEPT !.currDisk = a]
         \/ \E a : s = [me EXCEPT !.ftpTrfBinary = a]
         \/ \E a : s = [me EXCEPT !.renameDiskIdx = a]
         \/ \E a, b : s = [me EXCEPT !.renameDiskIdx = a, !.renameFrom = b],
         setSession(s)
  PROVE  SameSockets
<1>1. me \in Session
  BY MeType
<1>2. s.client = me.client /\ s.ctlSocket = me.ctlSocket /\ s.psvSocket = me.psvSocket
  BY <1>1 DEF Session
<1> QED
  BY <1>2, SetSockets

LEMMA SimpleUSER == ASSUME TypeInv, cmdUSER PROVE SimpleStep
<1>1. pc = "cmd" /\ Working /\ Finish(<<331>>) /\ simple /\ UNCHANGED sockets
  BY DEF cmdUSER, Is, Working
<1>2. \E a, b : setSession([me EXCEPT !.notedUser = a, !.loggedIn = b])
  BY Zenon DEF cmdUSER
<1> QED
  BY <1>1, <1>2, Finishes, SetOther DEF SimpleStep, simple

LEMMA SimplePASS == ASSUME TypeInv, cmdPASS PROVE SimpleStep
<1>1. pc = "cmd" /\ Working /\ simple /\ UNCHANGED sockets
  BY DEF cmdPASS, Is, Working
<1>2. \E codes : Finish(codes)
  BY Zenon DEF cmdPASS
<1>3. \E a, b : setSession([me EXCEPT !.loggedIn = b, !.notedUser = a])
  BY Zenon DEF cmdPASS, passWord
<1> QED
  BY <1>1, <1>2, <1>3, Finishes, SetOther DEF SimpleStep, simple

LEMMA SimpleOnlyReply == ASSUME TypeInv, onlyReply PROVE SimpleStep
<1>1. pc = "cmd" /\ Working /\ simple /\ UNCHANGED <<sockets, sessions>>
  BY DEF onlyReply, Working
<1>2. \E codes : Finish(codes)
  BY Zenon DEF onlyReply
<1> QED
  BY <1>1, <1>2, Finishes, Unchanged DEF SimpleStep, simple

LEMMA SimpleCWD == ASSUME TypeInv, cmdCWD PROVE SimpleStep
<1>1. pc = "cmd" /\ Working /\ simple /\ UNCHANGED sockets
  BY DEF cmdCWD, Is, Working
<1>2. \E codes : Finish(codes)
  BY Zenon DEF cmdCWD
<1>3. UNCHANGED sessions \/ \E a : setSession([me EXCEPT !.currDisk = a])
  BY Zenon DEF cmdCWD
<1> QED
  BY <1>1, <1>2, <1>3, Finishes, SetOther, Unchanged DEF SimpleStep, simple

LEMMA SimpleTYPE == ASSUME TypeInv, cmdTYPE PROVE SimpleStep
<1>1. pc = "cmd" /\ Working /\ simple /\ UNCHANGED sockets
  BY DEF cmdTYPE, Is, Working
<1>2. \E codes : Finish(codes)
  BY Zenon DEF cmdTYPE
<1>3. UNCHANGED sessions \/ \E a : setSession([me EXCEPT !.ftpTrfBinary = a])
  BY Zenon DEF cmdTYPE
<1> QED
  BY <1>1, <1>2, <1>3, Finishes, SetOther, Unchanged DEF SimpleStep, simple

LEMMA SimpleDELE == ASSUME TypeInv, cmdDELE PROVE SimpleStep
<1>1. pc = "cmd" /\ Working /\ simple /\ UNCHANGED <<sockets, sessions>>
  BY DEF cmdDELE, Is, Working
<1>2. \E codes : Finish(codes)
  BY Zenon DEF cmdDELE
<1> QED
  BY <1>1, <1>2, Finishes, Unchanged DEF SimpleStep, simple

LEMMA SimpleRNFR == ASSUME TypeInv, cmdRNFR PROVE SimpleStep
<1>1. pc = "cmd" /\ Working /\ simple /\ UNCHANGED sockets
  BY DEF cmdRNFR, Is, Working
<1>2. \E codes : Finish(codes)
  BY Zenon DEF cmdRNFR
<1>3. \/ \E a : setSession([me EXCEPT !.renameDiskIdx = a])
      \/ \E a, b : setSession([me EXCEPT !.renameDiskIdx = a, !.renameFrom = b])
  BY Zenon DEF cmdRNFR
<1>4. Finished
  BY <1>1, <1>2, Finishes
<1>5. SameSockets
  BY <1>1, <1>3, SetOther
<1> QED
  BY <1>1, <1>4, <1>5 DEF SimpleStep, simple

LEMMA SimpleRNTO == ASSUME TypeInv, cmdRNTO PROVE SimpleStep
<1>1. pc = "cmd" /\ Working /\ simple /\ UNCHANGED sockets
  BY DEF cmdRNTO, Is, Working
<1>2. \E codes : Finish(codes)
  BY ZenonT(40) DEF cmdRNTO
<1>3. UNCHANGED sessions \/ setSession([me EXCEPT !.renameDiskIdx = Root])
  BY DEF cmdRNTO
<1>4. Finished
  BY <1>1, <1>2, Finishes
<1>5. SameSockets
  <2>1. CASE UNCHANGED sessions
    BY <2>1, Unchanged
  <2>2. CASE setSession([me EXCEPT !.renameDiskIdx = Root])
    BY <1>1, <2>2, SetOther
  <2> QED
    BY <1>3, <2>1, <2>2
<1> QED
  BY <1>1, <1>4, <1>5 DEF SimpleStep, simple

LEMMA SimpleRefuse == ASSUME TypeInv, pc = "cmd", NEW code, refuse(code) PROVE SimpleStep
<1>1. Working /\ simple /\ UNCHANGED <<sockets, sessions>> /\ Finish(<<code>>)
  BY DEF refuse, Working
<1> QED
  BY <1>1, Finishes, Unchanged DEF SimpleStep, simple

LEMMA SimpleOpenError == ASSUME TypeInv, pc = "cmd", openError PROVE SimpleStep
<1>1. Working /\ UNCHANGED <<watch, sessions, trfSocket, xfer, round, sockets>> /\ Finish(<<550>>)
  BY DEF openError, Working
<1> QED
  BY <1>1, Finishes, Unchanged DEF SimpleStep

(* Sockets that are open have numbers, and no two sessions or uses have    *)
(* the same one.                                                           *)
LEMMA OwnersDiffer ==
  ASSUME TypeInv, OwnInv, pc # "ended"
  PROVE  /\ \A i \in DOMAIN sessions : /\ sessions[i].ctlSocket # srvSocket
                                       /\ sessions[i].ctlSocket # DataSock
                                       /\ sessions[i].psvSocket # -1 =>
                                            /\ sessions[i].psvSocket # srvSocket
                                            /\ sessions[i].psvSocket # DataSock
         /\ \A i, j \in DOMAIN sessions :
              /\ sessions[i].ctlSocket # sessions[j].psvSocket
              /\ sessions[i].ctlSocket = sessions[j].ctlSocket => i = j
              /\ sessions[i].psvSocket = sessions[j].psvSocket /\ sessions[i].psvSocket # -1 => i = j
         /\ DataSock # -1 => DataSock # srvSocket
<1>1. SrvOwned /\ DataOwned /\ \A i \in DOMAIN sessions : SessionOwned(i)
  BY DEF OwnInv, SocketInv
<1>2. \A i, j \in DOMAIN sessions : sessions[i].client = sessions[j].client => i = j
  BY DEF OwnInv, SessionsInv
<1>3. srvSocket # -1 => sockets[srvSocket].use = "srv"
  BY <1>1 DEF SrvOwned
<1>4. DataSock # -1 => sockets[DataSock].use = "data"
  BY <1>1 DEF DataOwned, DataSock
<1>5. ASSUME NEW i \in DOMAIN sessions
      PROVE  /\ sockets[sessions[i].ctlSocket].use = "ctl"
             /\ sockets[sessions[i].ctlSocket].client = sessions[i].client
             /\ sessions[i].psvSocket # -1 =>
                  /\ sockets[sessions[i].psvSocket].use = "psv"
                  /\ sockets[sessions[i].psvSocket].client = sessions[i].client
  <2>1. SessionOwned(i)
    BY <1>1
  <2>2. sockets[sessions[i].ctlSocket] = [use |-> "ctl", client |-> sessions[i].client]
    BY <2>1 DEF SessionOwned
  <2>3. sessions[i].psvSocket # -1 =>
          sockets[sessions[i].psvSocket] = [use |-> "psv", client |-> sessions[i].client]
    BY <2>1 DEF SessionOwned
  <2>4. /\ sockets[sessions[i].ctlSocket].use = "ctl"
        /\ sockets[sessions[i].ctlSocket].client = sessions[i].client
    BY <2>2
  <2>5. sessions[i].psvSocket # -1 =>
          /\ sockets[sessions[i].psvSocket].use = "psv"
          /\ sockets[sessions[i].psvSocket].client = sessions[i].client
    BY <2>3
  <2> QED
    BY <2>4, <2>5
<1>6. \A i \in DOMAIN sessions : sessions[i].ctlSocket # -1
  BY SessionIs
<1>7. ASSUME NEW i \in DOMAIN sessions
      PROVE  /\ sessions[i].ctlSocket # srvSocket /\ sessions[i].ctlSocket # DataSock
             /\ sessions[i].psvSocket # -1 => /\ sessions[i].psvSocket # srvSocket
                                             /\ sessions[i].psvSocket # DataSock
  BY <1>3, <1>4, <1>5, <1>6
<1>8. ASSUME NEW i \in DOMAIN sessions, NEW j \in DOMAIN sessions
      PROVE  /\ sessions[i].ctlSocket # sessions[j].psvSocket
             /\ sessions[i].ctlSocket = sessions[j].ctlSocket => i = j
             /\ sessions[i].psvSocket = sessions[j].psvSocket /\ sessions[i].psvSocket # -1 => i = j
  <2>1. sessions[i].ctlSocket # sessions[j].psvSocket
    BY <1>5, <1>6
  <2>2. ASSUME sessions[i].ctlSocket = sessions[j].ctlSocket PROVE i = j
    BY <1>2, <1>5, <2>2
  <2>3. ASSUME sessions[i].psvSocket = sessions[j].psvSocket, sessions[i].psvSocket # -1
        PROVE  i = j
    BY <1>2, <1>5, <2>3
  <2> QED
    BY <2>1, <2>2, <2>3
<1> QED
  BY <1>3, <1>4, <1>7, <1>8

(* What an owner has is open.                                              *)
LEMMA OwnedOpen ==
  ASSUME TypeInv, OwnInv, pc # "ended", NEW n, sockets[n] = Closed
  PROVE  /\ srvSocket # -1 => n # srvSocket
         /\ DataSock # -1 => n # DataSock
         /\ \A i \in DOMAIN sessions : /\ n # sessions[i].ctlSocket
                                       /\ sessions[i].psvSocket # -1 => n # sessions[i].psvSocket
<1>1. sockets[n].use = "none"
  BY DEF Closed
<1>2. SrvOwned /\ DataOwned /\ \A i \in DOMAIN sessions : SessionOwned(i)
  BY DEF OwnInv, SocketInv
<1>3. srvSocket # -1 => n # srvSocket
  BY <1>1, <1>2 DEF SrvOwned
<1>4. DataSock # -1 => n # DataSock
  BY <1>1, <1>2 DEF DataOwned, DataSock
<1>5. ASSUME NEW i \in DOMAIN sessions
      PROVE  n # sessions[i].ctlSocket /\ (sessions[i].psvSocket # -1 => n # sessions[i].psvSocket)
  <2>1. SessionOwned(i)
    BY <1>2
  <2> QED
    BY <1>1, <2>1 DEF SessionOwned
<1> QED
  BY <1>3, <1>4, <1>5

LEMMA OwnedPASV == ASSUME TypeInv, OwnInv, cmdPASV PROVE OwnInv'
<1>1. pc = "cmd" /\ Working /\ simple
  BY DEF cmdPASV, Is, Working
<1> DEFINE n == NewNumber
           s == [me EXCEPT !.psvSocket = n, !.havingActiveClientAddr = FALSE]
<1>2. CASE (Finish(<<227>>) \/ Finish(<<500>>)) /\ UNCHANGED <<sessions, sockets>>
  <2>1. SimpleStep
    BY <1>1, <1>2, Finishes, Unchanged DEF SimpleStep, simple
  <2> QED
    BY <2>1, SimpleKept
<1>3. CASE /\ me.psvSocket < 0 /\ n >= 0
           /\ sockets' = Open(n, "psv", me.client) /\ setSession(s) /\ Finish(<<227>>)
  <2> DEFINE k == SessionAt(cmd.h)
             q == [use |-> "psv", client |-> me.client]
  <2>1. n \in Numbers /\ sockets[n] = Closed /\ n # -1
    BY <1>3, NewNumberType, NumberIs
  <2>2. me \in Session /\ k \in DOMAIN sessions /\ me = sessions[k] /\ me.psvSocket = -1
    BY <1>1, <1>3, MeType, SessionIs, NumberIs DEF me, Numbers
  <2>3. sockets \in [Numbers -> Socket] /\ sockets' = [sockets EXCEPT ![n] = q]
    BY <1>3 DEF Open, TypeInv, WatchType
  <2>4. Finished
    BY <1>1, <1>3, Finishes
  <2> HIDE DEF n, q
  <2>5. /\ sessions' = [sessions EXCEPT ![k] = s]
        /\ s.client = me.client /\ s.ctlSocket = me.ctlSocket /\ s.psvSocket = n
    BY <1>3, <2>2 DEF setSession, Session
  <2> HIDE DEF s, k
  <2>6. /\ Len(sessions') = Len(sessions) /\ DOMAIN sessions' = DOMAIN sessions
        /\ \A i \in DOMAIN sessions :
             /\ sessions'[i].client = sessions[i].client
             /\ sessions'[i].ctlSocket = sessions[i].ctlSocket
             /\ sessions'[i].psvSocket = IF i = k THEN n ELSE sessions[i].psvSocket
    <3>1. sessions \in Seq(Session \cup {s})
      BY DEF TypeInv, SessionsType
    <3>2. Len(sessions') = Len(sessions) /\ DOMAIN sessions' = DOMAIN sessions
      BY <2>2, <2>5, <3>1
    <3>3. \A i \in DOMAIN sessions : sessions'[i] = IF i = k THEN s ELSE sessions[i]
      BY <2>5
    <3> QED
      BY <2>2, <2>5, <3>2, <3>3
  <2>7. UNCHANGED <<srvSocket, clientSocks, lastSockPlus1, clientSockCount, xfer>> /\ pc' = "serve"
    BY <1>1, <2>4 DEF simple, watch, Finished
  <2>8. DataSock = -1 /\ DataSock' = -1 /\ ~MovingData'
    BY <1>1, <2>7 DEF DataSock, MovingData
  <2>9. Ctls' = Ctls
    BY <2>6 DEF Ctls
  <2>10. OwnInv /\ pc # "ended" /\ pc' # "ended" /\ pc' # "boot"
    BY <1>1, <2>7
  <2>11. \A m \in Numbers : m # n => sockets'[m] = sockets[m]
    BY <2>3
  <2>12. sockets'[n] = q
    BY <2>1, <2>3
  <2>13. OpenOwned'
    <3>1. ASSUME NEW m \in Numbers, sockets'[m] # Closed PROVE Owned(m)'
      <4>1. CASE m = n
        BY <2>2, <2>6, <4>1 DEF Owned
      <4>2. CASE m # n
        <5>1. Owned(m)
          BY <2>10, <2>11, <3>1, <4>2 DEF OwnInv, SocketInv, OpenOwned
        <5>2. m # -1
          BY NumberIs
        <5> QED
          BY <2>2, <2>6, <2>7, <2>8, <5>1, <5>2 DEF Owned
      <4> QED
        BY <4>1, <4>2
    <3> QED
      BY <3>1 DEF OpenOwned
  <2>14. SrvOwned'
    <3>1. srvSocket # -1 => srvSocket \in Numbers /\ srvSocket # n
      BY <2>1, <2>10, OwnedOpen, NumberIs DEF TypeInv, WatchType
    <3> QED
      BY <2>7, <2>10, <2>11, <3>1 DEF SrvOwned, OwnInv, SocketInv
  <2>15. \A i \in DOMAIN sessions' : SessionOwned(i)'
    <3>1. ASSUME NEW i \in DOMAIN sessions PROVE SessionOwned(i)'
      <4>1. SessionOwned(i)
        BY <2>10 DEF OwnInv, SocketInv
      <4>2. sessions[i].ctlSocket \in Numbers /\ sessions[i].ctlSocket # n
            /\ (sessions[i].psvSocket # -1 =>
                  sessions[i].psvSocket \in Numbers /\ sessions[i].psvSocket # n)
        BY <2>1, <2>10, OwnedOpen, SessionIs
      <4>3. CASE i = k
        BY <2>1, <2>2, <2>6, <2>11, <2>12, <4>1, <4>2, <4>3 DEF SessionOwned, q
      <4>4. CASE i # k
        BY <2>6, <2>11, <4>1, <4>2, <4>4 DEF SessionOwned
      <4> QED
        BY <4>3, <4>4
    <3> QED
      BY <2>6, <3>1
  <2>16. Watched' /\ DataOwned'
    BY <2>7, <2>8, <2>9, <2>10 DEF Watched, DataOwned, OwnInv, SocketInv
  <2>17. SocketInv'
    BY <2>10, <2>13, <2>14, <2>15, <2>16 DEF SocketInv
  <2>18. SessionsInv'
    BY <2>4, <2>6, <2>7, <2>10, SessionIs DEF OwnInv, SessionsInv, Finished
  <2> QED
    BY <2>17, <2>18 DEF OwnInv
<1> QED
  BY <1>2, <1>3 DEF cmdPASV

(* Sockets are closed whose owners give them up.                           *)
LEMMA OwnersAfterClose ==
  ASSUME TypeInv, OwnInv, pc # "ended", pc' \notin {"boot", "ended"},
         NEW gone, sockets' = Close(gone), Watched',
         srvSocket' # -1 => srvSocket' = srvSocket /\ srvSocket \notin gone,
         MovingData' => DataSock' = DataSock /\ DataSock # -1 /\ DataSock \notin gone,
         \A i \in DOMAIN sessions' : \E j \in DOMAIN sessions :
           /\ sessions'[i].client = sessions[j].client
           /\ sessions'[i].ctlSocket = sessions[j].ctlSocket /\ sessions[j].ctlSocket \notin gone
           /\ sessions'[i].psvSocket # -1 => /\ sessions'[i].psvSocket = sessions[j].psvSocket
                                             /\ sessions[j].psvSocket \notin gone,
         \A n \in Numbers \ gone : Owned(n) => Owned(n)'
  PROVE  SocketInv'
<1>1. OpenOwned /\ SrvOwned /\ DataOwned /\ \A i \in DOMAIN sessions : SessionOwned(i)
  BY DEF OwnInv, SocketInv
<1>2. \A n \in Numbers : sockets'[n] = IF n \in gone THEN Closed ELSE sockets[n]
  BY DEF Close
<1>3. OpenOwned'
  BY <1>1, <1>2 DEF OpenOwned
<1>4. SrvOwned'
  <2>1. srvSocket # -1 => srvSocket \in Numbers
    BY NumberIs DEF TypeInv, WatchType
  <2> QED
    BY <1>1, <1>2, <2>1 DEF SrvOwned
<1>5. DataOwned'
  <2>1. DataSock # -1 => DataSock \in Numbers /\ sockets[DataSock].use = "data"
    BY <1>1 DEF DataOwned, DataSock
  <2> QED
    BY <1>2, <2>1 DEF DataOwned
<1>6. ASSUME NEW i \in DOMAIN sessions' PROVE SessionOwned(i)'
  <2>1. PICK j \in DOMAIN sessions :
           /\ sessions'[i].client = sessions[j].client
           /\ sessions'[i].ctlSocket = sessions[j].ctlSocket /\ sessions[j].ctlSocket \notin gone
           /\ sessions'[i].psvSocket # -1 => /\ sessions'[i].psvSocket = sessions[j].psvSocket
                                             /\ sessions[j].psvSocket \notin gone
    OBVIOUS
  <2>2. SessionOwned(j) /\ sessions[j].ctlSocket \in Numbers
        /\ (sessions[j].psvSocket # -1 => sessions[j].psvSocket \in Numbers)
    BY <1>1, SessionIs
  <2>3. sockets'[sessions[j].ctlSocket] = sockets[sessions[j].ctlSocket]
    BY <1>2, <2>1, <2>2
  <2>4. sessions'[i].psvSocket # -1 =>
          sockets'[sessions[j].psvSocket] = sockets[sessions[j].psvSocket]
    BY <1>2, <2>1, <2>2
  <2> QED
    BY <2>1, <2>2, <2>3, <2>4 DEF SessionOwned
<1> QED
  BY <1>3, <1>4, <1>5, <1>6 DEF SocketInv

(* What comes of the clients when a command ends that lets go of the       *)
(* connections that wait at the passive socket.                            *)
LEMMA FinishesUnqueued ==
  ASSUME TypeInv, Working, NEW codes, FinishFrom(Unqueued(me.client), codes)
  PROVE  Finished
<1>1. me.client \in Clients /\ clients[me.client] \in Client /\ clients \in [Clients -> Client]
  BY MeType DEF TypeInv, ClientsType
<1> DEFINE r == clients[me.client]
           p == [r EXCEPT !.queued = <<>>]
           x == p.replies \o codes
           q == [p EXCEPT !.replies = x, !.handled = @ + 1]
<1>2. Unqueued(me.client) = [clients EXCEPT ![me.client] = p]
  BY <1>1 DEF Unqueued
<1>3. clients' = [clients EXCEPT ![me.client] = q] /\ pc' = "serve" /\ cmd' = NoCmd
  BY <1>1, <1>2 DEF FinishFrom
<1>4. /\ q.state = r.state /\ q.script = r.script /\ q.sent = r.sent /\ q.unread = r.unread
      /\ q.got = r.got /\ q.handled = r.handled + 1
  <2>1. p \in Client /\ p.state = r.state /\ p.script = r.script /\ p.sent = r.sent
        /\ p.unread = r.unread /\ p.got = r.got /\ p.handled = r.handled
    <3>1. <<>> \in Seq(Nat)
      OBVIOUS
    <3> QED
      BY <1>1, <3>1 DEF Client
  <2> HIDE DEF x, p
  <2> QED
    BY <1>1, <2>1 DEF Client
<1>5. \A c \in Clients : clients'[c] = IF c = me.client THEN q ELSE clients[c]
  BY <1>1, <1>3
<1> HIDE DEF q
<1> QED
  BY <1>3, <1>4, <1>5 DEF Finished

LEMMA OwnedPORT == ASSUME TypeInv, OwnInv, cmdPORT PROVE OwnInv'
<1>1. pc = "cmd" /\ Working /\ simple
  BY DEF cmdPORT, Is, Working
<1> DEFINE s == [me EXCEPT !.havingActiveClientAddr = TRUE, !.psvSocket = -1]
           gone == {me.psvSocket} \cap Numbers
<1>2. CASE Finish(<<501>>) /\ UNCHANGED <<sessions, sockets>>
  <2>1. SimpleStep
    BY <1>1, <1>2, Finishes, Unchanged DEF SimpleStep, simple
  <2> QED
    BY <2>1, SimpleKept
<1>3. CASE /\ setSession(s) /\ sockets' = Close(gone)
           /\ FinishFrom(Unqueued(me.client), <<200>>)
  <2> DEFINE k == SessionAt(cmd.h)
  <2>1. Finished
    BY <1>1, <1>3, FinishesUnqueued
  <2>2. me \in Session /\ k \in DOMAIN sessions /\ me = sessions[k]
    BY <1>1, MeType, SessionIs DEF me
  <2>3. /\ sessions' = [sessions EXCEPT ![k] = s]
        /\ s.client = me.client /\ s.ctlSocket = me.ctlSocket /\ s.psvSocket = -1
    BY <1>3, <2>2 DEF setSession, Session
  <2> HIDE DEF s, k
  <2>4. /\ Len(sessions') = Len(sessions) /\ DOMAIN sessions' = DOMAIN sessions
        /\ \A i \in DOMAIN sessions :
             /\ sessions'[i].client = sessions[i].client
             /\ sessions'[i].ctlSocket = sessions[i].ctlSocket
             /\ sessions'[i].psvSocket = IF i = k THEN -1 ELSE sessions[i].psvSocket
    <3>1. sessions \in Seq(Session \cup {s})
      BY DEF TypeInv, SessionsType
    <3>2. Len(sessions') = Len(sessions) /\ DOMAIN sessions' = DOMAIN sessions
      BY <2>2, <2>3, <3>1
    <3>3. \A i \in DOMAIN sessions : sessions'[i] = IF i = k THEN s ELSE sessions[i]
      BY <2>3
    <3> QED
      BY <2>2, <2>3, <3>2, <3>3
  <2>5. UNCHANGED <<srvSocket, clientSocks, lastSockPlus1, clientSockCount, xfer>> /\ pc' = "serve"
    BY <1>1, <2>1 DEF simple, watch, Finished
  <2>6. DataSock = -1 /\ DataSock' = -1 /\ ~MovingData'
    BY <1>1, <2>5 DEF DataSock, MovingData
  <2>7. Ctls' = Ctls
    BY <2>4 DEF Ctls
  <2>8. Watched'
    BY <1>1, <2>5, <2>7 DEF Watched, OwnInv, SocketInv
  <2>9. pc # "ended" /\ pc' \notin {"boot", "ended"}
    BY <1>1, <2>5
  <2>10. srvSocket' # -1 => srvSocket' = srvSocket /\ srvSocket \notin gone
    BY <2>2, <2>5, <2>9, OwnersDiffer
  <2>11. \A i \in DOMAIN sessions :
           /\ sessions[i].ctlSocket \notin gone
           /\ i # k /\ sessions[i].psvSocket # -1 => sessions[i].psvSocket \notin gone
    BY <2>2, <2>9, OwnersDiffer, NumberIs
  <2>12. ASSUME NEW i \in DOMAIN sessions'
         PROVE  \E j \in DOMAIN sessions :
           /\ sessions'[i].client = sessions[j].client
           /\ sessions'[i].ctlSocket = sessions[j].ctlSocket /\ sessions[j].ctlSocket \notin gone
           /\ sessions'[i].psvSocket # -1 => /\ sessions'[i].psvSocket = sessions[j].psvSocket
                                             /\ sessions[j].psvSocket \notin gone
    BY <2>4, <2>11
  <2>13. ASSUME NEW n \in Numbers \ gone, Owned(n) PROVE Owned(n)'
    <3>1. n # -1
      BY NumberIs
    <3> QED
      BY <2>2, <2>4, <2>5, <2>6, <2>13, <3>1 DEF Owned
  <2>14. SocketInv'
    <3> HIDE DEF gone
    <3> QED
      BY <1>3, <2>6, <2>8, <2>9, <2>10, <2>12, <2>13, OwnersAfterClose
  <2>15. SessionsInv'
    BY <2>1, <2>4, <2>5, SessionIs DEF OwnInv, SessionsInv, Finished
  <2> QED
    BY <2>14, <2>15 DEF OwnInv
<1> QED
  BY <1>2, <1>3 DEF cmdPORT

(* A session is given up with its sockets.                                 *)
LEMMA OwnedDrop ==
  ASSUME TypeInv, OwnInv, NEW n \in Ctls, dropClientSock(n), SameStates,
         pc \notin {"boot", "ended", "copy"}, pc' \notin {"boot", "ended", "copy"},
         UNCHANGED <<srvSocket, lastSockPlus1>>
  PROVE  OwnInv'
<1> DEFINE k == SessionAt(n)
           L == Len(sessions)
           gone == {sessions[k].ctlSocket, sessions[k].psvSocket} \cap Numbers
           old(j) == IF j < k THEN j ELSE j + 1
<1>1. /\ k \in 1 .. L /\ sessions[k].ctlSocket = n /\ L \in Nat
      /\ Len(sessions') = L - 1
      /\ DOMAIN sessions = 1 .. L /\ DOMAIN sessions' = 1 .. L - 1
      /\ \A j \in 1 .. L - 1 : sessions'[j] = sessions[old(j)]
  BY Dropped, SessionIs
<1>2. sockets' = Close(gone) /\ clientSocks' = clientSocks \ {n}
      /\ clientSockCount' = clientSockCount - 1
  BY DEF dropClientSock, SocketsOf
<1> HIDE DEF k, L
<1>3. \A j \in 1 .. L - 1 : old(j) \in 1 .. L /\ old(j) # k
  BY <1>1
<1>4. \A i \in 1 .. L : i # k => \E j \in 1 .. L - 1 : old(j) = i
  <2>1. ASSUME NEW i \in 1 .. L, i # k PROVE \E j \in 1 .. L - 1 : old(j) = i
    <3> DEFINE j == IF i < k THEN i ELSE i - 1
    <3>1. j \in 1 .. L - 1 /\ old(j) = i
      BY <1>1, <2>1
    <3> HIDE DEF j, old
    <3> QED
      BY <3>1
  <2> QED
    BY <2>1
<1>5. \A j, l \in 1 .. L - 1 : old(j) = old(l) => j = l
  BY <1>1
<1> HIDE DEF old
<1>6. DataSock = -1 /\ DataSock' = -1 /\ ~MovingData'
  BY DEF DataSock, MovingData
<1>7. \A i \in 1 .. L : i # k => /\ sessions[i].ctlSocket \notin gone
                                 /\ sessions[i].psvSocket \notin gone \/ sessions[i].psvSocket = -1
  BY <1>1, OwnersDiffer
<1>8. srvSocket \notin gone
  BY <1>1, OwnersDiffer, NumberIs
<1>9. Ctls' = Ctls \ {n}
  <2>1. ASSUME NEW m \in Ctls' PROVE m \in Ctls \ {n}
    <3>1. PICK j \in 1 .. L - 1 : m = sessions'[j].ctlSocket
      BY <1>1 DEF Ctls
    <3>2. m = sessions[old(j)].ctlSocket /\ old(j) \in 1 .. L /\ old(j) # k
      BY <1>1, <1>3, <3>1
    <3>3. m # n
      BY <1>1, <3>2, OwnersDiffer
    <3> QED
      BY <1>1, <3>2, <3>3 DEF Ctls
  <2> QED
    BY <2>1, Dropped
<1>10. Watched'
  <2>1. n # srvSocket
    BY <1>1, OwnersDiffer
  <2>2. Watched
    BY DEF OwnInv, SocketInv
  <2> QED
    BY <1>2, <1>9, <2>1, <2>2 DEF Watched
<1>11. ASSUME NEW i \in DOMAIN sessions'
       PROVE  \E j \in DOMAIN sessions :
         /\ sessions'[i].client = sessions[j].client
         /\ sessions'[i].ctlSocket = sessions[j].ctlSocket /\ sessions[j].ctlSocket \notin gone
         /\ sessions'[i].psvSocket # -1 => /\ sessions'[i].psvSocket = sessions[j].psvSocket
                                           /\ sessions[j].psvSocket \notin gone
  <2> HIDE DEF gone
  <2>1. old(i) \in DOMAIN sessions /\ old(i) # k /\ sessions'[i] = sessions[old(i)]
    BY <1>1, <1>3
  <2> QED
    BY <1>1, <1>7, <2>1
<1>12. ASSUME NEW m \in Numbers \ gone, Owned(m) PROVE Owned(m)'
  <2>1. CASE m = srvSocket
    BY <2>1 DEF Owned
  <2>2. CASE \E i \in DOMAIN sessions : m \in {sessions[i].ctlSocket, sessions[i].psvSocket}
    <3>1. PICK i \in 1 .. L : m \in {sessions[i].ctlSocket, sessions[i].psvSocket}
      BY <1>1, <2>2
    <3>2. i # k
      BY <1>12, <3>1
    <3>3. PICK j \in 1 .. L - 1 : old(j) = i
      BY <1>4, <3>2
    <3>4. sessions'[j] = sessions[i] /\ j \in DOMAIN sessions'
      BY <1>1, <3>3
    <3> QED
      BY <3>1, <3>4 DEF Owned
  <2>3. m # -1
    BY NumberIs
  <2> QED
    BY <1>6, <1>12, <2>1, <2>2, <2>3 DEF Owned
<1>13. SocketInv'
  <2> HIDE DEF gone
  <2> QED
    BY <1>2, <1>6, <1>8, <1>10, <1>11, <1>12, OwnersAfterClose
<1>14. SessionsInv'
  <2> USE DEF OwnInv, SessionsInv
  <2>1. \A i, j \in DOMAIN sessions' : sessions'[i].client = sessions'[j].client => i = j
    BY <1>1, <1>3, <1>5
  <2>2. \A i \in DOMAIN sessions' : clients'[sessions'[i].client].state \in {"on", "gone"}
    BY <1>1, <1>3, SessionIs DEF SameStates
  <2>3. clientSockCount' = Len(sessions')
    BY <1>1, <1>2 DEF L
  <2> QED
    BY <2>1, <2>2, <2>3
<1> QED
  BY <1>13, <1>14 DEF OwnInv

LEMMA OwnedQUIT == ASSUME TypeInv, OwnInv, cmdQUIT PROVE OwnInv'
<1>1. pc = "cmd" /\ Working /\ dropClientSock(cmd.h) /\ UNCHANGED <<srvSocket, lastSockPlus1>>
      /\ FinishFrom(Unqueued(me.client), IF cmd.cmd = "QUIT" THEN <<221>> ELSE <<>>)
  BY DEF cmdQUIT, Is, Working
<1>2. Finished
  BY <1>1, FinishesUnqueued
<1>3. SameStates /\ pc' = "serve"
  BY <1>2 DEF SameStates, Finished
<1>4. cmd.h \in Ctls
  BY <1>1 DEF TypeInv, WorkType
<1> QED
  BY <1>1, <1>3, <1>4, OwnedDrop

LEMMA OwnedLostCtl == ASSUME TypeInv, OwnInv, lostCtl PROVE OwnInv'
<1> DEFINE c == NextUp.client
           n == NextUp.ctlSocket
<1>1. pc = "serve" /\ round.todo # {} /\ dropClientSock(n) /\ clients' = Unqueued(c)
      /\ UNCHANGED <<srvSocket, lastSockPlus1, pc>>
  BY DEF lostCtl
<1>2. n \in Ctls /\ c \in Clients
  BY <1>1, NextUpIs
<1> HIDE DEF c, n
<1>3. SameStates
  <2>1. \A d \in Clients : clients'[d] = IF d = c THEN [clients[c] EXCEPT !.queued = <<>>]
                                         ELSE clients[d]
    BY <1>1, <1>2, UnqueuedType DEF TypeInv
  <2>2. clients[c] \in Client
    BY <1>2 DEF TypeInv, ClientsType
  <2>3. [clients[c] EXCEPT !.queued = <<>>].state = clients[c].state
    BY <2>2 DEF Client
  <2> QED
    BY <2>1, <2>3 DEF SameStates
<1> QED
  BY <1>1, <1>2, <1>3, OwnedDrop

(* What is open stays open, and a socket with an owner is opened.          *)
LEMMA OwnersAfterOpen ==
  ASSUME TypeInv, OwnInv, pc # "ended", pc' \notin {"boot", "ended"},
         NEW n \in Numbers, sockets[n] = Closed, NEW q, sockets' = [sockets EXCEPT ![n] = q], Watched',
         \/ srvSocket' = srvSocket
         \/ srvSocket' = n /\ q = [use |-> "srv", client |-> 0],
         MovingData' => \/ DataSock' = DataSock /\ DataSock # -1
                        \/ DataSock' = n /\ q.use = "data",
         \A i \in DOMAIN sessions' :
           \/ \E j \in DOMAIN sessions : /\ sessions'[i].client = sessions[j].client
                                         /\ sessions'[i].ctlSocket = sessions[j].ctlSocket
                                         /\ sessions'[i].psvSocket = sessions[j].psvSocket
           \/ /\ sessions'[i].ctlSocket = n /\ q = [use |-> "ctl", client |-> sessions'[i].client]
              /\ sessions'[i].psvSocket = -1,
         Owned(n)', \A m \in Numbers : Owned(m) => Owned(m)'
  PROVE  SocketInv'
<1>1. OpenOwned /\ SrvOwned /\ DataOwned /\ \A i \in DOMAIN sessions : SessionOwned(i)
  BY DEF OwnInv, SocketInv
<1>2. sockets \in [Numbers -> Socket]
  BY DEF TypeInv, WatchType
<1>3. sockets'[n] = q /\ \A m \in Numbers : m # n => sockets'[m] = sockets[m]
  BY <1>2
<1>4. OpenOwned'
  BY <1>1, <1>3 DEF OpenOwned
<1>5. SrvOwned'
  <2>1. srvSocket # -1 => srvSocket \in Numbers /\ srvSocket # n
    BY OwnedOpen, NumberIs DEF TypeInv, WatchType
  <2> QED
    BY <1>1, <1>3, <2>1 DEF SrvOwned
<1>6. DataOwned'
  <2>1. DataSock # -1 => DataSock \in Numbers /\ DataSock # n /\ sockets[DataSock].use = "data"
    BY <1>1, OwnedOpen DEF DataOwned, DataSock
  <2> QED
    BY <1>3, <2>1 DEF DataOwned
<1>7. ASSUME NEW i \in DOMAIN sessions' PROVE SessionOwned(i)'
  <2>1. CASE /\ sessions'[i].ctlSocket = n /\ q = [use |-> "ctl", client |-> sessions'[i].client]
             /\ sessions'[i].psvSocket = -1
    BY <1>3, <2>1 DEF SessionOwned
  <2>2. CASE \E j \in DOMAIN sessions : /\ sessions'[i].client = sessions[j].client
                                        /\ sessions'[i].ctlSocket = sessions[j].ctlSocket
                                        /\ sessions'[i].psvSocket = sessions[j].psvSocket
    <3>1. PICK j \in DOMAIN sessions : /\ sessions'[i].client = sessions[j].client
                                       /\ sessions'[i].ctlSocket = sessions[j].ctlSocket
                                       /\ sessions'[i].psvSocket = sessions[j].psvSocket
      BY <2>2
    <3>2. SessionOwned(j) /\ sessions[j].ctlSocket \in Numbers /\ sessions[j].ctlSocket # n
          /\ (sessions[j].psvSocket # -1 =>
                sessions[j].psvSocket \in Numbers /\ sessions[j].psvSocket # n)
      BY <1>1, SessionIs, OwnedOpen
    <3> QED
      BY <1>3, <3>1, <3>2 DEF SessionOwned
  <2> QED
    BY <2>1, <2>2
<1> QED
  BY <1>4, <1>5, <1>6, <1>7 DEF SocketInv

-----------------------------------------------------------------------------
(* Sockets of transfers.                                                   *)

(* The clients are as they were but for replies, what they have got and    *)
(* what waits at a passive socket.                                         *)
SameCommands ==
  \A c \in Clients :
    /\ clients'[c].state = clients[c].state /\ clients'[c].script = clients[c].script
    /\ clients'[c].sent = clients[c].sent /\ clients'[c].unread = clients[c].unread
    /\ clients'[c].handled = clients[c].handled

SameGot == \A c \in Clients : clients'[c].got = clients[c].got

LEMMA PreliminarySame ==
  ASSUME TypeInv, Working, NEW codes, Preliminary(codes)
  PROVE  SameCommands /\ SameGot
<1>1. me.client \in Clients /\ clients[me.client] \in Client /\ clients \in [Clients -> Client]
  BY MeType DEF TypeInv, ClientsType
<1> DEFINE r == clients[me.client]
           x == r.replies \o codes
           q == [r EXCEPT !.replies = x]
<1>2. clients' = [clients EXCEPT ![me.client] = q]
  BY <1>1 DEF Preliminary
<1>3. /\ q.state = r.state /\ q.script = r.script /\ q.sent = r.sent /\ q.unread = r.unread
      /\ q.got = r.got /\ q.handled = r.handled
  <2> HIDE DEF x
  <2> QED
    BY <1>1 DEF Client
<1>4. \A c \in Clients : clients'[c] = IF c = me.client THEN q ELSE clients[c]
  BY <1>1, <1>2
<1> HIDE DEF q
<1> QED
  BY <1>3, <1>4 DEF SameCommands, SameGot

LEMMA SameStill == ASSUME SameCommands PROVE SameStates
BY DEF SameCommands, SameStates

LEMMA SameIfUnchanged == ASSUME UNCHANGED clients PROVE SameCommands /\ SameGot
BY DEF SameCommands, SameGot

(* A transfer is to begin.                                                 *)
LEMMA OwnedStart ==
  ASSUME TypeInv, OwnInv, pc = "cmd", pc' = "connect", Preliminary(<< 150 >>),
         UNCHANGED <<watch, sessions, sockets>>
  PROVE  OwnInv'
<1>1. Working /\ MovingData = FALSE /\ MovingData' = FALSE
  BY DEF Working, MovingData
<1>2. SameStates
  BY <1>1, PreliminarySame, SameStill
<1>3. Kept
  BY <1>1, <1>2, Unchanged DEF Kept, watch, DataSock
<1> QED
  BY <1>3, OwnedKept

LEMMA OwnedRefuse == ASSUME TypeInv, OwnInv, pc = "cmd", NEW code, refuse(code) PROVE OwnInv'
BY SimpleRefuse, SimpleKept

LEMMA OwnedOpenError == ASSUME TypeInv, OwnInv, pc = "cmd", openError PROVE OwnInv'
BY SimpleOpenError, SimpleKept

LEMMA OwnedRETR == ASSUME TypeInv, OwnInv, cmdRETR PROVE OwnInv'
<1>1. pc = "cmd"
  BY DEF cmdRETR, Is
<1>2. \/ \E code : refuse(code)
      \/ openError
      \/ pc' = "connect" /\ Preliminary(<<150>>) /\ UNCHANGED <<watch, sessions, sockets>>
  BY Zenon DEF cmdRETR
<1> QED
  BY <1>1, <1>2, OwnedRefuse, OwnedOpenError, OwnedStart

LEMMA OwnedSTOR == ASSUME TypeInv, OwnInv, cmdSTOR PROVE OwnInv'
<1>1. pc = "cmd"
  BY DEF cmdSTOR, Is
<1>2. \/ \E code : refuse(code)
      \/ openError
      \/ pc' = "connect" /\ Preliminary(<<150>>) /\ UNCHANGED <<watch, sessions, sockets>>
  BY Zenon DEF cmdSTOR
<1> QED
  BY <1>1, <1>2, OwnedRefuse, OwnedOpenError, OwnedStart

LEMMA OwnedLoopInPath == ASSUME TypeInv, OwnInv, loopInPath PROVE OwnInv'
<1>1. pc = "cmd" /\ pc' = "looping" /\ UNCHANGED <<watch, sessions, sockets, clients>>
  BY DEF loopInPath, simple
<1>2. Kept
  BY <1>1, Unchanged DEF Kept, watch, DataSock, MovingData, SameStates
<1> QED
  BY <1>2, OwnedKept

(* What LIST, NLST and STAT do.                                            *)
Lists(e, name, conn) ==
  /\ \/ /\ cmd.cmd = "STAT"
        /\ xfer' = [Transfer(e, name) EXCEPT !.sock = cmd.h, !.conn = conn]
        /\ pc' = "copy"
     \/ /\ cmd.cmd # "STAT"
        /\ xfer' = Transfer(e, name) /\ pc' = "connect"
  /\ Preliminary(<<150>>)
  /\ UNCHANGED <<watch, sessions, f, round, cmd, sockets, files, failures>>

LEMMA ListSteps ==
  ASSUME cmdList
  PROVE  \/ \E codes : /\ Finish(codes)
                        /\ simple /\ UNCHANGED <<sessions, sockets, files, failures>>
         \/ \E e, name : Lists(e, name, IF clients[me.client].state = "on" THEN "live" ELSE "lost")
<1> DEFINE dir  == IF cmd.arg.is = "none" THEN me.currDisk
                   ELSE IF cmd.arg.is = "file" /\ getDirIdx(me, cmd.arg) # Loops THEN Invalid
                   ELSE getDirIdx(me, cmd.arg)
           d    == IF dir # Invalid THEN dir ELSE parseFullPath(me, cmd.arg)
           name == IF dir # Invalid THEN "*" ELSE cmd.arg.name
           conn == IF clients[me.client].state = "on" THEN "live" ELSE "lost"
<1>1. \/ /\ Finish(<<Refusal(d), 550>>)
         /\ simple /\ UNCHANGED <<sessions, sockets, files, failures>>
      \/ refuse(550)
      \/ /\ d >= Root
         /\ \E e \in IF dir = Root THEN {Root} ELSE DisksAt(d) :
              IF cmd.cmd = "STAT"
              THEN /\ xfer' = [Transfer(e, name) EXCEPT !.sock = cmd.h, !.conn = conn]
                   /\ trfSocket' = cmd.h
                   /\ pc' = "copy"
              ELSE /\ xfer' = Transfer(e, name)
                   /\ pc' = "connect"
                   /\ UNCHANGED trfSocket
         /\ Preliminary(<<150>>)
         /\ UNCHANGED <<watch, sessions, f, round, cmd, sockets, files, failures>>
  BY Zenon DEF cmdList
<1> HIDE DEF dir, d, name, conn
<1>2. \/ \E codes : Finish(codes) /\ simple /\ UNCHANGED <<sessions, sockets, files, failures>>
      \/ \E e, nm : Lists(e, nm, conn)
  BY <1>1 DEF Lists, refuse
<1> QED
  BY <1>2 DEF conn

LEMMA OwnedList == ASSUME TypeInv, OwnInv, cmdList PROVE OwnInv'
<1>1. pc = "cmd" /\ Working
  BY DEF cmdList, Is, Working
<1>2. CASE \E codes : Finish(codes) /\ simple /\ UNCHANGED <<sessions, sockets, files, failures>>
  <2>1. SimpleStep
    BY <1>1, <1>2, Finishes, Unchanged DEF SimpleStep, simple
  <2> QED
    BY <2>1, SimpleKept
<1>3. ASSUME NEW e, NEW name, NEW conn, Lists(e, name, conn) PROVE OwnInv'
  <2>1. Preliminary(<<150>>) /\ UNCHANGED <<watch, sessions, sockets>>
    BY <1>3 DEF Lists
  <2>2. CASE pc' = "connect"
    BY <1>1, <2>1, <2>2, OwnedStart
  <2>3. CASE xfer' = [Transfer(e, name) EXCEPT !.sock = cmd.h, !.conn = conn] /\ cmd.cmd = "STAT"
             /\ pc' = "copy"
    <3>1. xfer'.cmd = "STAT"
      BY <2>3 DEF Transfer
    <3>2. SameStates
      BY <1>1, <2>1, PreliminarySame, SameStill
    <3>3. MovingData' = FALSE /\ MovingData = FALSE
      BY <1>1, <2>3, <3>1 DEF MovingData
    <3>4. Kept
      BY <1>1, <2>1, <2>3, <3>2, <3>3, Unchanged DEF Kept, watch, DataSock
    <3> QED
      BY <3>4, OwnedKept
  <2> QED
    BY <1>3, <2>2, <2>3 DEF Lists
<1> QED
  BY <1>2, <1>3, ListSteps

-----------------------------------------------------------------------------
(* A transfer is the one of its command.                                   *)

FileTransfers == {"RETR", "STOR", "APPE"}

(* It is for a client logged in, and is about the file named; before there *)
(* is a connection nothing has been copied.                                *)
MovingInv ==
  Moving =>
    /\ xfer.cmd = cmd.cmd /\ me.loggedIn
    /\ xfer.cmd \in FileTransfers => xfer.name = cmd.arg.name
    /\ xfer.cmd \notin FileTransfers => xfer.buf = <<>>
    /\ pc = "connect" => /\ xfer.cmd # "STAT" /\ xfer.buf = <<>> /\ xfer.pos = 0
                         /\ xfer.rcvd = <<>> /\ xfer.left = cmd.arg.data /\ ~xfer.failed

LEMMA MovingEnds == ASSUME pc' \notin {"connect", "copy"} PROVE MovingInv'
BY DEF MovingInv, Moving

LEMMA MovingGoesOn ==
  ASSUME MovingInv, Moving, UNCHANGED <<cmd, sessions>>,
         pc' = "copy" \/ /\ pc' = pc
                         /\ UNCHANGED <<xfer.buf, xfer.pos, xfer.rcvd, xfer.left, xfer.failed>>,
         UNCHANGED <<xfer.cmd, xfer.name>>,
         xfer.cmd \notin FileTransfers => UNCHANGED xfer.buf
  PROVE  MovingInv'
<1>1. UNCHANGED me
  BY DEF me, SessionAt
<1> QED
  BY <1>1 DEF MovingInv, Moving

(* The transfers that RETR, STOR, APPE, LIST, NLST and STAT start with.    *)
Starting(e, name) ==
  \/ xfer' = Transfer(e, name) /\ (pc' = "connect" => cmd.cmd # "STAT")
  \/ \E b : xfer' = [Transfer(e, name) EXCEPT !.base = b] /\ cmd.cmd # "STAT"
  \/ \E s, c : xfer' = [Transfer(e, name) EXCEPT !.sock = s, !.conn = c] /\ pc' = "copy"

(* A transfer starts in MovingInv.                                         *)
LEMMA MovingBegins ==
  ASSUME TypeInv, pc = "cmd", me.loggedIn, cmd.cmd \in Transfers \cup {"STAT"},
         UNCHANGED <<cmd, sessions>>,
         NEW e, NEW name, cmd.cmd \in FileTransfers => name = cmd.arg.name,
         Starting(e, name)
  PROVE  MovingInv'
<1>1. UNCHANGED me
  BY DEF me, SessionAt
<1>2. /\ xfer'.cmd = cmd.cmd /\ xfer'.name = name /\ xfer'.buf = <<>> /\ xfer'.pos = 0
      /\ xfer'.rcvd = <<>> /\ xfer'.left = cmd.arg.data /\ xfer'.failed = FALSE
      /\ (pc' = "connect" => cmd.cmd # "STAT")
  <2>1. CASE xfer' = Transfer(e, name) /\ (pc' = "connect" => cmd.cmd # "STAT")
    BY <2>1 DEF Transfer
  <2>2. ASSUME NEW b, xfer' = [Transfer(e, name) EXCEPT !.base = b], cmd.cmd # "STAT"
        PROVE  /\ xfer'.cmd = cmd.cmd /\ xfer'.name = name /\ xfer'.buf = <<>> /\ xfer'.pos = 0
               /\ xfer'.rcvd = <<>> /\ xfer'.left = cmd.arg.data /\ xfer'.failed = FALSE
               /\ (pc' = "connect" => cmd.cmd # "STAT")
    BY <2>2 DEF Transfer
  <2>3. ASSUME NEW s, NEW c, xfer' = [Transfer(e, name) EXCEPT !.sock = s, !.conn = c], pc' = "copy"
        PROVE  /\ xfer'.cmd = cmd.cmd /\ xfer'.name = name /\ xfer'.buf = <<>> /\ xfer'.pos = 0
               /\ xfer'.rcvd = <<>> /\ xfer'.left = cmd.arg.data /\ xfer'.failed = FALSE
               /\ (pc' = "connect" => cmd.cmd # "STAT")
    BY <2>3 DEF Transfer
  <2> QED
    BY <2>1, <2>2, <2>3 DEF Starting
<1> QED
  BY <1>1, <1>2 DEF MovingInv, Moving

LEMMA MovesRETR == ASSUME TypeInv, cmdRETR PROVE MovingInv'
<1>1. pc = "cmd" /\ me.loggedIn /\ cmd.cmd = "RETR"
  BY DEF cmdRETR, Is
<1>2. \/ pc' = "serve"
      \/ \E e : xfer' = Transfer(e, cmd.arg.name) /\ pc' = "connect" /\ UNCHANGED <<cmd, sessions>>
  BY DEF cmdRETR, refuse, openError, Finish, FinishFrom
<1>3. cmd.cmd \in Transfers \cup {"STAT"} /\ cmd.cmd # "STAT"
  BY <1>1 DEF Transfers, FileTransfers
<1>4. ASSUME NEW e, xfer' = Transfer(e, cmd.arg.name), UNCHANGED <<cmd, sessions>>
      PROVE  MovingInv'
  <2>1. Starting(e, cmd.arg.name)
    BY <1>3, <1>4 DEF Starting
  <2> QED
    BY <1>1, <1>3, <1>4, <2>1, MovingBegins
<1> QED
  BY <1>2, <1>4, MovingEnds

LEMMA MovesSTOR == ASSUME TypeInv, cmdSTOR PROVE MovingInv'
<1>1. pc = "cmd" /\ me.loggedIn /\ cmd.cmd \in {"STOR", "APPE"}
  BY DEF cmdSTOR, Is
<1>2. \/ \E code : refuse(code)
      \/ openError
      \/ \E e, b : /\ xfer' = [Transfer(e, cmd.arg.name) EXCEPT !.base = b]
                   /\ pc' = "connect" /\ UNCHANGED <<cmd, sessions>>
  BY Zenon DEF cmdSTOR
<1>3. \/ pc' = "serve"
      \/ \E e, b : /\ xfer' = [Transfer(e, cmd.arg.name) EXCEPT !.base = b]
                   /\ pc' = "connect" /\ UNCHANGED <<cmd, sessions>>
  BY <1>2 DEF refuse, openError, Finish, FinishFrom
<1>4. cmd.cmd \in Transfers \cup {"STAT"} /\ cmd.cmd # "STAT"
  BY <1>1 DEF Transfers, FileTransfers
<1>5. ASSUME NEW e, NEW b, xfer' = [Transfer(e, cmd.arg.name) EXCEPT !.base = b],
             UNCHANGED <<cmd, sessions>>
      PROVE  MovingInv'
  <2>1. Starting(e, cmd.arg.name)
    BY <1>4, <1>5, Zenon DEF Starting
  <2> QED
    BY <1>1, <1>4, <1>5, <2>1, MovingBegins
<1> QED
  BY <1>3, <1>5, MovingEnds

LEMMA MovesList == ASSUME TypeInv, cmdList PROVE MovingInv'
<1>1. pc = "cmd" /\ me.loggedIn /\ cmd.cmd \in {"LIST", "NLST", "STAT"}
  BY DEF cmdList, Is
<1>2. \/ \E codes : Finish(codes)
      \/ \E e, name, conn : Lists(e, name, conn)
  BY ListSteps
<1>3. CASE \E codes : Finish(codes)
  BY <1>3, MovingEnds DEF Finish, FinishFrom
<1>4. ASSUME NEW e, NEW name, NEW conn, Lists(e, name, conn) PROVE MovingInv'
  <2>1. UNCHANGED <<cmd, sessions>>
    BY <1>4 DEF Lists
  <2>2. cmd.cmd \in Transfers \cup {"STAT"} /\ cmd.cmd \notin FileTransfers
    BY <1>1 DEF Transfers, FileTransfers
  <2>3. CASE xfer' = Transfer(e, name) /\ cmd.cmd # "STAT"
    <3>1. Starting(e, name)
      BY <2>3 DEF Starting
    <3> QED
      BY <1>1, <2>1, <2>2, <3>1, MovingBegins
  <2>4. CASE xfer' = [Transfer(e, name) EXCEPT !.sock = cmd.h, !.conn = conn] /\ pc' = "copy"
    <3>1. Starting(e, name)
      BY <2>4, Zenon DEF Starting
    <3> QED
      BY <1>1, <2>1, <2>2, <3>1, MovingBegins
  <2> QED
    BY <1>4, <2>3, <2>4 DEF Lists
<1> QED
  BY <1>2, <1>3, <1>4

(* What comes of the wait for a data connection.                           *)
LEMMA OpenDataSteps ==
  ASSUME TypeInv, openDataConnection
  PROVE  \/ NotConnected(503) \/ NotConnected(425)
         \/ \E n \in Numbers, conn \in {"live", "lost"} :
              sockets[n] = Closed /\ Connected(n, conn) /\ SameCommands /\ SameGot
<1> DEFINE c    == me.client
           n    == NewNumber
           conn == IF Head(clients[c].queued) = clients[c].sent /\ clients[c].state = "on"
                   THEN "live" ELSE "lost"
<1>1. \/ NotConnected(503)
      \/ /\ n >= 0 /\ Connected(n, conn)
         /\ clients' = [clients EXCEPT ![c].queued = Tail(@)]
      \/ n >= 0 /\ Connected(n, "live") /\ UNCHANGED clients
      \/ NotConnected(425)
  BY DEF openDataConnection
<1>2. n >= 0 => n \in Numbers /\ sockets[n] = Closed
  BY NewNumberType
<1>3. ASSUME clients' = [clients EXCEPT ![c].queued = Tail(@)] PROVE SameCommands /\ SameGot
  <2> DEFINE r == clients[c]
             x == Tail(r.queued)
             q == [r EXCEPT !.queued = x]
  <2>1. c \in Clients /\ r \in Client /\ clients \in [Clients -> Client]
    BY MeType DEF openDataConnection, Working, TypeInv, ClientsType
  <2>2. clients' = [clients EXCEPT ![c] = q]
    BY <1>3
  <2>3. /\ q.state = r.state /\ q.script = r.script /\ q.sent = r.sent /\ q.unread = r.unread
        /\ q.got = r.got /\ q.handled = r.handled
    <3> HIDE DEF x
    <3> QED
      BY <2>1 DEF Client
  <2>4. \A d \in Clients : clients'[d] = IF d = c THEN q ELSE clients[d]
    BY <2>1, <2>2
  <2> HIDE DEF q, c
  <2> QED
    BY <2>3, <2>4 DEF SameCommands, SameGot
<1> HIDE DEF n, c
<1> QED
  BY <1>1, <1>2, <1>3, SameIfUnchanged DEF conn

LEMMA MovesOpenData == ASSUME TypeInv, MovingInv, openDataConnection PROVE MovingInv'
<1>1. pc = "connect" /\ Moving
  BY DEF openDataConnection, Moving
<1>2. CASE NotConnected(503) \/ NotConnected(425)
  BY <1>2, MovingEnds DEF NotConnected, Finish, FinishFrom
<1>3. ASSUME NEW n, NEW conn, Connected(n, conn) PROVE MovingInv'
  <2>1. xfer' = [xfer EXCEPT !.sock = n, !.conn = conn] /\ xfer \in Xfer
        /\ pc' = "copy" /\ UNCHANGED <<cmd, sessions>>
    BY <1>1, <1>3 DEF Connected, TypeInv, XferType
  <2>2. UNCHANGED <<xfer.cmd, xfer.name, xfer.buf>>
    BY <2>1 DEF Xfer
  <2> QED
    BY <1>1, <2>1, <2>2, MovingGoesOn
<1> QED
  BY <1>2, <1>3, OpenDataSteps

LEMMA MovesReadRecord == ASSUME TypeInv, MovingInv, readRecord PROVE MovingInv'
<1>1. Moving /\ pc' = "copy" /\ UNCHANGED <<cmd, sessions>> /\ xfer.cmd = "RETR" /\ xfer \in Xfer
  BY DEF readRecord, Here, Moving, copying, TypeInv, XferType
<1>2. \E a, b : xfer' = [xfer EXCEPT !.pos = a, !.buf = b]
  BY Zenon DEF readRecord
<1>3. UNCHANGED <<xfer.cmd, xfer.name>>
  BY <1>1, <1>2 DEF Xfer
<1> QED
  BY <1>1, <1>3, MovingGoesOn DEF FileTransfers

LEMMA MovesReadError == ASSUME TypeInv, MovingInv, readError PROVE MovingInv'
<1>1. Moving /\ pc' = "copy" /\ UNCHANGED <<cmd, sessions>> /\ xfer.cmd = "RETR" /\ xfer \in Xfer
  BY DEF readError, Here, Moving, copying, TypeInv, XferType
<1>2. \E b, t : xfer' = [xfer EXCEPT !.failed = TRUE, !.stays = t, !.buf = b]
  BY Zenon DEF readError
<1>3. UNCHANGED <<xfer.cmd, xfer.name>>
  BY <1>1, <1>2 DEF Xfer
<1> QED
  BY <1>1, <1>3, MovingGoesOn DEF FileTransfers

LEMMA MovesRecvChunk == ASSUME TypeInv, MovingInv, recvChunk PROVE MovingInv'
<1>1. Moving /\ pc' = "copy" /\ UNCHANGED <<cmd, sessions>> /\ xfer.cmd \in {"STOR", "APPE"}
      /\ xfer \in Xfer
  BY DEF recvChunk, Here, Moving, copying, TypeInv, XferType
<1>2. PICK len \in 1 .. Len(xfer.left) :
        LET chunk == SubSeq(xfer.left, 1, len)
            s     == takeChunk(xfer.buf, chunk, xfer.format)
        IN \E n \in 0 .. Len(s.recs) :
             xfer' = [xfer EXCEPT !.buf = s.fill, !.rcvd = @ \o chunk,
                           !.left = SubSeq(@, len + 1, Len(@)), !.pos = @ + Len(s.recs),
                           !.failed = (@ \/ n < Len(s.recs))]
  BY Zenon, Received
<1>3. UNCHANGED <<xfer.cmd, xfer.name>>
  BY <1>1, <1>2 DEF Xfer
<1> QED
  BY <1>1, <1>3, MovingGoesOn DEF FileTransfers

LEMMA MovesOnLoss ==
  ASSUME TypeInv, MovingInv, UNCHANGED <<cmd, sessions, pc>>,
         UNCHANGED xfer \/ (Moving /\ xfer' = [xfer EXCEPT !.conn = "lost"])
  PROVE  MovingInv'
<1>1. CASE ~Moving
  BY <1>1 DEF MovingInv, Moving
<1>2. CASE Moving /\ UNCHANGED xfer
  BY <1>2, MovingGoesOn
<1>3. CASE Moving /\ xfer' = [xfer EXCEPT !.conn = "lost"]
  <2>1. xfer \in Xfer
    BY <1>3 DEF TypeInv, XferType
  <2>2. UNCHANGED <<xfer.cmd, xfer.name, xfer.buf, xfer.pos, xfer.rcvd, xfer.left, xfer.failed>>
    BY <1>3, <2>1 DEF Xfer
  <2> QED
    BY <1>3, <2>2, MovingGoesOn
<1> QED
  BY <1>1, <1>2, <1>3

LEMMA MovesCommand == ASSUME TypeInv, MovingInv, processSingleCmd PROVE MovingInv'
<1>1. CASE cmdUSER \/ cmdPASS \/ onlyReply \/ cmdQUIT \/ cmdPASV \/ cmdPORT
           \/ cmdCWD \/ cmdTYPE \/ cmdDELE \/ cmdRNFR \/ cmdRNTO
  <2>1. pc' = "serve"
    BY <1>1
    DEF cmdUSER, cmdPASS, onlyReply, cmdQUIT, cmdPASV, cmdPORT, cmdCWD, cmdTYPE, cmdDELE, cmdRNFR,
        cmdRNTO, Finish, FinishFrom
  <2> QED
    BY <2>1, MovingEnds
<1>2. CASE loopInPath \/ endRETR \/ endSTOR \/ endList
  <2>1. pc' \in {"serve", "looping"}
    BY <1>2 DEF loopInPath, endRETR, endSTOR, endList, endTransfer, FinishFrom
  <2> QED
    BY <2>1, MovingEnds
<1> QED
  BY <1>1, <1>2, MovesRETR, MovesSTOR, MovesList, MovesOpenData, MovesReadRecord, MovesRecvChunk
  DEF processSingleCmd

LEMMA MovesNext == ASSUME TypeInv, MovingInv, [FtpNext]_ftpVars PROVE MovingInv'
<1>1. CASE main
  <2>1. CASE boot \/ waitForSocket \/ acceptClient \/ noAccept \/ getCtlLine \/ lostCtl \/ endRound
    <3>1. pc' \notin {"connect", "copy"}
      BY <2>1
      DEF boot, waitForSocket, acceptClient, noAccept, getCtlLine, lostCtl, endRound, sock_shutdown
    <3> QED
      BY <3>1, MovingEnds
  <2> QED
    BY <1>1, <2>1, MovesCommand DEF main
<1>2. CASE clientSteps \/ \E c \in Clients : dial(c)
  <2>1. UNCHANGED <<cmd, sessions, pc>>
    BY <1>2 DEF clientSteps, call, beginCommand, sendCommand, leave, dial, serverSide
  <2>2. UNCHANGED xfer \/ (xfer # NoXfer /\ xfer' = [xfer EXCEPT !.conn = "lost"])
    <3>1. ASSUME NEW c \in Clients, leave(c)
          PROVE  xfer' = xfer \/ (xfer # NoXfer /\ xfer' = [xfer EXCEPT !.conn = "lost"])
      BY <3>1 DEF leave
    <3>2. ASSUME NEW c \in Clients, call(c) \/ beginCommand(c) \/ sendCommand(c) \/ dial(c) PROVE xfer' = xfer
      BY <3>2 DEF call, beginCommand, sendCommand, dial
    <3> QED
      BY <1>2, <3>1, <3>2 DEF clientSteps
  <2>3. xfer # NoXfer => Moving
    BY DEF TypeInv, XferType
  <2> QED
    BY <2>1, <2>2, <2>3, MovesOnLoss
<1>3. CASE readError
  BY <1>3, MovesReadError
<1>4. CASE loseData
  BY <1>4, MovesOnLoss DEF loseData, Moving
<1>5. CASE terminate
  BY <1>5, MovingEnds DEF terminate, sock_shutdown
<1>6. CASE UNCHANGED ftpVars
  <2>1. UNCHANGED <<cmd, sessions, pc>>
    BY <1>6 DEF ftpVars, program, watch
  <2>2. xfer' = xfer
    BY <1>6 DEF ftpVars, program, watch
  <2> QED
    BY <2>1, <2>2, MovesOnLoss
<1> QED
  BY <1>1, <1>2, <1>3, <1>4, <1>5, <1>6 DEF FtpNext

-----------------------------------------------------------------------------
(* Sockets while a transfer goes on, and at its end.                       *)

(* One client has got some bytes.                                          *)
GotMore(b) ==
  \A c \in Clients :
    clients'[c].got = IF c = me.client THEN clients[c].got \o b ELSE clients[c].got

(* A command is done, whatever its client has got.                         *)
Done ==
  /\ pc' = "serve" /\ cmd' = NoCmd
  /\ \A c \in Clients :
       /\ clients'[c].state = clients[c].state /\ clients'[c].script = clients[c].script
       /\ clients'[c].sent = clients[c].sent /\ clients'[c].unread = clients[c].unread
       /\ clients'[c].handled = IF c = me.client THEN clients[c].handled + 1 ELSE clients[c].handled

LEMMA FinishedDone == ASSUME Finished PROVE Done /\ SameGot
BY DEF Finished, Done, SameGot

LEMMA DoneStill == ASSUME Done PROVE SameStates
BY DEF Done, SameStates

LEMMA GotIs ==
  ASSUME TypeInv, Working, NEW b
  PROVE  /\ me.client \in Clients
         /\ \E q : /\ Got(b) = [clients EXCEPT ![me.client] = q]
                   /\ q = [clients[me.client] EXCEPT !.got = @ \o b]
                   /\ q.state = clients[me.client].state /\ q.script = clients[me.client].script
                   /\ q.sent = clients[me.client].sent /\ q.unread = clients[me.client].unread
                   /\ q.handled = clients[me.client].handled
                   /\ q.replies = clients[me.client].replies /\ q.queued = clients[me.client].queued
                   /\ q.dialed = clients[me.client].dialed
                   /\ q.got = clients[me.client].got \o b
                   /\ DOMAIN q = DOMAIN clients[me.client]
<1>1. me.client \in Clients /\ clients[me.client] \in Client
  BY MeType
<1> DEFINE r == clients[me.client]
           x == r.got \o b
           q == [r EXCEPT !.got = x]
<1>2. Got(b) = [clients EXCEPT ![me.client] = q]
  BY <1>1 DEF Got
<1>3. /\ q.state = r.state /\ q.script = r.script /\ q.sent = r.sent /\ q.unread = r.unread
      /\ q.handled = r.handled /\ q.replies = r.replies /\ q.queued = r.queued
      /\ q.dialed = r.dialed /\ q.got = x /\ DOMAIN q = DOMAIN r
  <2> HIDE DEF x
  <2> QED
    BY <1>1 DEF Client
<1> QED
  BY <1>1, <1>2, <1>3

LEMMA GotSame ==
  ASSUME TypeInv, Working, NEW b,
         \/ clients' = Got(b)
         \/ \E code : clients' = [Got(b) EXCEPT ![me.client].replies = Append(@, code)]
  PROVE  SameCommands /\ GotMore(b)
<1> DEFINE r == clients[me.client]
<1>1. PICK q : /\ Got(b) = [clients EXCEPT ![me.client] = q]
               /\ q.state = r.state /\ q.script = r.script
               /\ q.sent = r.sent /\ q.unread = r.unread
               /\ q.handled = r.handled /\ q.got = r.got \o b /\ DOMAIN q = DOMAIN r
               /\ q = [r EXCEPT !.got = @ \o b]
  BY GotIs
<1>2. me.client \in Clients /\ clients \in [Clients -> Client] /\ r \in Client
  BY MeType DEF TypeInv, ClientsType
<1>3. \E p : /\ clients' = [clients EXCEPT ![me.client] = p]
             /\ p.state = q.state /\ p.script = q.script /\ p.sent = q.sent /\ p.unread = q.unread
             /\ p.handled = q.handled /\ p.got = q.got
  <2>1. CASE clients' = Got(b)
    BY <1>1, <2>1
  <2>2. ASSUME NEW code, clients' = [Got(b) EXCEPT ![me.client].replies = Append(@, code)]
        PROVE  \E p : /\ clients' = [clients EXCEPT ![me.client] = p]
                      /\ p.state = q.state /\ p.script = q.script /\ p.sent = q.sent
                      /\ p.unread = q.unread /\ p.handled = q.handled /\ p.got = q.got
    <3> DEFINE x == Append(q.replies, code)
               p == [q EXCEPT !.replies = x]
    <3>1. Got(b)[me.client] = q
      BY <1>1, <1>2
    <3>2. clients' = [Got(b) EXCEPT ![me.client] = p]
      BY <2>2, <3>1
    <3> HIDE DEF p
    <3>3. clients' = [clients EXCEPT ![me.client] = p]
      BY <1>1, <1>2, <3>2
    <3> USE DEF p
    <3>4. /\ p.state = q.state /\ p.script = q.script /\ p.sent = q.sent /\ p.unread = q.unread
          /\ p.handled = q.handled /\ p.got = q.got
      <4>1. DOMAIN q = {"script", "state", "sent", "unread", "handled", "replies", "queued", "dialed",
                        "got", "begun"}
        BY <1>1, <1>2 DEF Client
      <4> HIDE DEF x
      <4> QED
        BY <4>1
    <3> QED
      BY <3>3, <3>4
  <2> QED
    BY <2>1, <2>2
<1>4. PICK p : /\ clients' = [clients EXCEPT ![me.client] = p]
               /\ p.state = r.state /\ p.script = r.script /\ p.sent = r.sent /\ p.unread = r.unread
               /\ p.handled = r.handled /\ p.got = r.got \o b
  BY <1>1, <1>3
<1>5. \A c \in Clients : clients'[c] = IF c = me.client THEN p ELSE clients[c]
  BY <1>2, <1>4
<1>6. ASSUME NEW c \in Clients
      PROVE  /\ clients'[c].state = clients[c].state /\ clients'[c].script = clients[c].script
             /\ clients'[c].sent = clients[c].sent /\ clients'[c].unread = clients[c].unread
             /\ clients'[c].handled = clients[c].handled
             /\ clients'[c].got = IF c = me.client THEN clients[c].got \o b ELSE clients[c].got
  <2>1. CASE c = me.client
    BY <1>4, <1>5, <2>1
  <2>2. CASE c # me.client
    BY <1>5, <2>2
  <2> QED
    BY <2>1, <2>2
<1> QED
  BY <1>6 DEF SameCommands, GotMore

LEMMA GotDone ==
  ASSUME TypeInv, Working, NEW b, NEW codes, FinishFrom(Got(b), codes)
  PROVE  Done /\ GotMore(b)
<1> DEFINE r == clients[me.client]
<1>1. PICK q : /\ Got(b) = [clients EXCEPT ![me.client] = q]
               /\ q.state = r.state /\ q.script = r.script
               /\ q.sent = r.sent /\ q.unread = r.unread
               /\ q.handled = r.handled /\ q.got = r.got \o b /\ DOMAIN q = DOMAIN r
  BY GotIs
<1>2. me.client \in Clients /\ clients \in [Clients -> Client] /\ r \in Client
  BY MeType DEF TypeInv, ClientsType
<1> DEFINE x == q.replies \o codes
           p == [q EXCEPT !.replies = x, !.handled = @ + 1]
<1>3. Got(b)[me.client] = q
  BY <1>1, <1>2
<1>4. clients' = [clients EXCEPT ![me.client] = p] /\ pc' = "serve" /\ cmd' = NoCmd
  <2>1. clients' = [Got(b) EXCEPT ![me.client] = p] /\ pc' = "serve" /\ cmd' = NoCmd
    BY <1>3 DEF FinishFrom
  <2> QED
    BY <1>1, <1>2, <2>1
<1>5. /\ p.state = r.state /\ p.script = r.script /\ p.sent = r.sent /\ p.unread = r.unread
      /\ p.handled = r.handled + 1 /\ p.got = r.got \o b
  <2>1. DOMAIN q = {"script", "state", "sent", "unread", "handled", "replies", "queued", "dialed",
                    "got", "begun"}
    BY <1>1, <1>2 DEF Client
  <2> HIDE DEF x
  <2> QED
    BY <1>1, <2>1
<1> HIDE DEF p
<1>6. \A c \in Clients : clients'[c] = IF c = me.client THEN p ELSE clients[c]
  BY <1>2, <1>4
<1>7. ASSUME NEW c \in Clients
      PROVE  /\ clients'[c].state = clients[c].state /\ clients'[c].script = clients[c].script
             /\ clients'[c].sent = clients[c].sent /\ clients'[c].unread = clients[c].unread
             /\ clients'[c].handled = IF c = me.client THEN clients[c].handled + 1
                                                       ELSE clients[c].handled
             /\ clients'[c].got = IF c = me.client THEN clients[c].got \o b ELSE clients[c].got
  <2>1. CASE c = me.client
    BY <1>5, <1>6, <2>1
  <2>2. CASE c # me.client
    BY <1>6, <2>2
  <2> QED
    BY <2>1, <2>2
<1> QED
  BY <1>4, <1>7 DEF Done, GotMore

(* What the end of a transfer does: clients are done, the socket is closed. *)
LEMMA EndsTransfer ==
  ASSUME TypeInv, Working, NEW cls, NEW codes, endTransfer(cls, codes),
         cls = clients \/ \E b : cls = Got(b)
  PROVE  Done
<1>1. FinishFrom(cls, codes \o <<226>>)
  BY DEF endTransfer
<1>2. CASE cls = clients
  <2>1. Finish(codes \o <<226>>)
    BY <1>1, <1>2 DEF Finish
  <2> QED
    BY <2>1, Finishes, FinishedDone
<1>3. CASE \E b : cls = Got(b)
  BY <1>1, <1>3, GotDone
<1> QED
  BY <1>2, <1>3

LEMMA OwnedEnd ==
  ASSUME TypeInv, OwnInv, pc = "copy", Done, NEW cls, NEW codes, endTransfer(cls, codes)
  PROVE  OwnInv'
<1>1. UNCHANGED <<watch, sessions>> /\ xfer' = NoXfer /\ pc' = "serve" /\ SameStates
      /\ sockets' = IF xfer.cmd = "STAT" THEN sockets ELSE Close({xfer.sock})
  BY DoneStill DEF endTransfer, Done
<1>2. ~MovingData' /\ DataSock' = -1
  BY <1>1 DEF MovingData, DataSock
<1>3. CASE xfer.cmd = "STAT"
  <2>1. MovingData = FALSE /\ MovingData' = FALSE
    BY <1>2, <1>3 DEF MovingData
  <2>2. Kept
    BY <1>1, <1>3, <2>1, Unchanged DEF Kept, watch, DataSock
  <2> QED
    BY <2>2, OwnedKept
<1>4. CASE xfer.cmd # "STAT"
  <2> DEFINE gone == {xfer.sock}
  <2>1. MovingData /\ DataSock = xfer.sock
    BY <1>4 DEF MovingData, DataSock
  <2>2. DataSock \in Numbers
    BY <2>1 DEF OwnInv, SocketInv, DataOwned
  <2>3. DataSock # -1
    BY <2>2, NumberIs
  <2>4. UNCHANGED <<srvSocket, clientSocks, lastSockPlus1, clientSockCount>> /\ sockets' = Close(gone)
    BY <1>1, <1>4 DEF watch
  <2>5. Watched'
    BY <1>1, <2>4 DEF Watched, Ctls, OwnInv, SocketInv
  <2>6. srvSocket \notin gone
    BY <2>1, <2>3, OwnersDiffer
  <2>7. \A j \in DOMAIN sessions :
          /\ sessions[j].ctlSocket \notin gone
          /\ sessions[j].psvSocket # -1 => sessions[j].psvSocket \notin gone
    BY <2>1, OwnersDiffer
  <2>8. \A m \in Numbers \ gone : Owned(m) => Owned(m)'
    BY <1>1, <2>1, <2>4 DEF Owned
  <2>9. SocketInv'
    <3> HIDE DEF gone
    <3>1. \A i \in DOMAIN sessions' : \E j \in DOMAIN sessions :
           /\ sessions'[i].client = sessions[j].client
           /\ sessions'[i].ctlSocket = sessions[j].ctlSocket /\ sessions[j].ctlSocket \notin gone
           /\ sessions'[i].psvSocket # -1 => /\ sessions'[i].psvSocket = sessions[j].psvSocket
                                             /\ sessions[j].psvSocket \notin gone
      BY <1>1, <2>7
    <3> QED
      BY <1>1, <1>2, <2>4, <2>5, <2>6, <2>8, <3>1, OwnersAfterClose
  <2>10. SessionsInv'
    <3>1. \A i \in DOMAIN sessions : clients'[sessions[i].client].state \in {"on", "gone"}
      BY <1>1, SessionIs DEF SameStates, OwnInv, SessionsInv
    <3> QED
      BY <1>1, <2>4, <3>1 DEF OwnInv, SessionsInv
  <2> QED
    BY <2>9, <2>10 DEF OwnInv
<1> QED
  BY <1>3, <1>4

(* Transfers end the same way.                                             *)
LEMMA Endings ==
  ASSUME endRETR \/ endSTOR \/ endList
  PROVE  \E cls, codes : endTransfer(cls, codes) /\ (cls = clients \/ \E b : cls = Got(b))
<1>1. CASE endRETR
  BY <1>1, Zenon DEF endRETR, transmitEnd
<1>2. CASE endSTOR
  BY <1>2, Zenon DEF endSTOR
<1>3. CASE endList
  BY <1>3, Zenon DEF endList
<1> QED
  BY <1>1, <1>2, <1>3

LEMMA OwnedEndings == ASSUME TypeInv, OwnInv, endRETR \/ endSTOR \/ endList PROVE OwnInv'
<1>1. pc = "copy" /\ Working
  BY DEF endRETR, endSTOR, endList, Here, Working
<1> QED
  BY <1>1, Endings, EndsTransfer, OwnedEnd

(* The transfer goes on with the socket it has.                            *)
LEMMA OwnedCopying ==
  ASSUME TypeInv, OwnInv, pc = "copy", copying, pc' = pc, SameCommands,
         UNCHANGED <<xfer.cmd, xfer.sock>>
  PROVE  OwnInv'
<1>1. MovingData' = MovingData /\ DataSock' = DataSock
  BY DEF MovingData, DataSock
<1>2. Kept
  BY <1>1, SameStill, Unchanged DEF Kept, copying, watch
<1> QED
  BY <1>2, OwnedKept

LEMMA OwnedReadRecord == ASSUME TypeInv, OwnInv, readRecord PROVE OwnInv'
<1>1. pc = "copy" /\ Working /\ copying /\ pc' = pc /\ xfer \in Xfer
  BY DEF readRecord, Here, Working, TypeInv, XferType, Moving
<1>2. \E a, b : xfer' = [xfer EXCEPT !.pos = a, !.buf = b]
  BY Zenon DEF readRecord
<1>3. \E b : clients' = Got(b)
  BY Zenon DEF readRecord
<1>4. UNCHANGED <<xfer.cmd, xfer.sock>>
  BY <1>1, <1>2 DEF Xfer
<1> QED
  BY <1>1, <1>3, <1>4, GotSame, OwnedCopying

(* A read error is answered in the midst of the transfer.                  *)
LEMMA ReadErrorClients ==
  ASSUME readError
  PROVE  \E b : \E code : clients' = [Got(b) EXCEPT ![me.client].replies = Append(@, code)]
<1> DEFINE again == IF xfer.format.binary THEN <<>> ELSE <<LF>>
           b == transmitUnit(xfer.buf, again, Live).out
<1>1. clients' = [Got(b) EXCEPT ![me.client].replies = Append(@, 550)]
  BY Zenon DEF readError
<1> HIDE DEF b
<1>2. \E code : clients' = [Got(b) EXCEPT ![me.client].replies = Append(@, code)]
  BY <1>1
<1> QED
  BY <1>2

LEMMA OwnedReadError == ASSUME TypeInv, OwnInv, readError PROVE OwnInv'
<1>1. pc = "copy" /\ Working /\ copying /\ pc' = pc /\ xfer \in Xfer
  BY DEF readError, Here, Working, TypeInv, XferType, Moving
<1>2. \E b, t : xfer' = [xfer EXCEPT !.failed = TRUE, !.stays = t, !.buf = b]
  BY Zenon DEF readError
<1>3. \E b : \E code : clients' = [Got(b) EXCEPT ![me.client].replies = Append(@, code)]
  BY ReadErrorClients
<1>4. UNCHANGED <<xfer.cmd, xfer.sock>>
  BY <1>1, <1>2 DEF Xfer
<1> QED
  BY <1>1, <1>3, <1>4, GotSame, OwnedCopying

LEMMA OwnedRecvChunk == ASSUME TypeInv, OwnInv, recvChunk PROVE OwnInv'
<1>1. pc = "copy" /\ Working /\ copying /\ pc' = pc /\ xfer \in Xfer
  BY DEF recvChunk, Here, Working, TypeInv, XferType, Moving
<1>2. PICK len \in 1 .. Len(xfer.left) :
        LET chunk == SubSeq(xfer.left, 1, len)
            s     == takeChunk(xfer.buf, chunk, xfer.format)
        IN \E n \in 0 .. Len(s.recs) :
             /\ Preliminary(Errors(Len(s.recs) - n))
             /\ xfer' = [xfer EXCEPT !.buf = s.fill, !.rcvd = @ \o chunk,
                           !.left = SubSeq(@, len + 1, Len(@)), !.pos = @ + Len(s.recs),
                           !.failed = (@ \/ n < Len(s.recs))]
  BY Zenon, Received
<1>3. UNCHANGED <<xfer.cmd, xfer.sock>>
  BY <1>1, <1>2 DEF Xfer
<1>4. \E codes : Preliminary(codes)
  BY <1>2, Zenon
<1> QED
  BY <1>1, <1>3, <1>4, PreliminarySame, OwnedCopying

LEMMA OwnedConnected ==
  ASSUME TypeInv, OwnInv, MovingInv, pc = "connect", NEW n \in Numbers, NEW conn,
         sockets[n] = Closed, Connected(n, conn), SameCommands
  PROVE  OwnInv'
<1> DEFINE q == [use |-> "data", client |-> me.client]
<1>1. /\ sockets' = [sockets EXCEPT ![n] = q]
      /\ xfer' = [xfer EXCEPT !.sock = n, !.conn = conn]
      /\ pc' = "copy" /\ UNCHANGED <<srvSocket, clientSocks, lastSockPlus1, clientSockCount, sessions>>
  BY DEF Connected, Open, watch
<1>2. xfer \in Xfer /\ xfer.cmd # "STAT"
  BY DEF TypeInv, XferType, Moving, MovingInv
<1>3. xfer'.cmd = xfer.cmd /\ xfer'.sock = n
  BY <1>1, <1>2 DEF Xfer
<1>4. MovingData' /\ DataSock' = n /\ DataSock = -1
  BY <1>1, <1>2, <1>3 DEF MovingData, DataSock
<1>5. Owned(n)' /\ \A m \in Numbers : Owned(m) => Owned(m)'
  BY <1>1, <1>4, NumberIs DEF Owned
<1>6. Watched'
  BY <1>1 DEF Watched, Ctls, OwnInv, SocketInv
<1>7. q.use = "data"
  OBVIOUS
<1>8. SocketInv'
  <2> HIDE DEF q
  <2> QED
    BY <1>1, <1>4, <1>5, <1>6, <1>7, OwnersAfterOpen
<1>9. SessionsInv'
  <2>1. \A i \in DOMAIN sessions : clients'[sessions[i].client].state \in {"on", "gone"}
    BY SessionIs DEF SameCommands, OwnInv, SessionsInv
  <2> QED
    BY <1>1, <2>1 DEF OwnInv, SessionsInv
<1> QED
  BY <1>8, <1>9 DEF OwnInv

LEMMA OwnedOpenData == ASSUME TypeInv, OwnInv, MovingInv, openDataConnection PROVE OwnInv'
<1>1. pc = "connect" /\ Working
  BY DEF openDataConnection, Working
<1>2. ASSUME NEW code, NotConnected(code) PROVE OwnInv'
  <2>1. Finish(<<code>>) /\ xfer' = NoXfer /\ UNCHANGED <<watch, sessions, sockets>>
    BY <1>2 DEF NotConnected
  <2>2. SameStates /\ pc' = "serve"
    BY <1>1, <2>1, Finishes, FinishedDone, DoneStill DEF Done
  <2>3. MovingData' = FALSE /\ MovingData = FALSE
    BY <1>1, <2>2 DEF MovingData
  <2>4. Kept
    BY <1>1, <2>1, <2>2, <2>3, Unchanged DEF Kept, watch, DataSock
  <2> QED
    BY <2>4, OwnedKept
<1> QED
  BY <1>1, <1>2, OpenDataSteps, OwnedConnected

-----------------------------------------------------------------------------
(* Sockets in the main loop.                                               *)

LEMMA OwnedShutdown ==
  ASSUME TypeInv, OwnInv, pc \notin {"copy", "ended"}, sock_shutdown
  PROVE  OwnInv'
<1> DEFINE all == ({trfSocket, srvSocket} \cap Numbers)
                    \cup UNION {SocketsOf(sessions[i]) : i \in DOMAIN sessions}
<1>1. /\ sockets' = Close(all) /\ sessions' = <<>> /\ pc' = "ended"
      /\ clientSockCount' = clientSockCount - Len(sessions)
  BY DEF sock_shutdown
<1>2. DataSock = -1
  BY DEF DataSock, MovingData
<1>3. ASSUME NEW n \in Numbers, n \notin all PROVE sockets[n] = Closed
  <2>1. ~Owned(n)
    <3>1. n # srvSocket /\ n # -1
      BY <1>3, NumberIs
    <3>2. ASSUME NEW i \in DOMAIN sessions PROVE n \notin {sessions[i].ctlSocket, sessions[i].psvSocket}
      BY <1>3 DEF SocketsOf
    <3> QED
      BY <1>2, <3>1, <3>2 DEF Owned
  <2> QED
    BY <2>1 DEF OwnInv, SocketInv, OpenOwned
<1>4. sockets' = [n \in Numbers |-> Closed]
  <2> HIDE DEF all
  <2>1. sockets' = [n \in Numbers |-> IF n \in all THEN Closed ELSE sockets[n]]
    BY <1>1 DEF Close
  <2> QED
    BY <1>3, <2>1
<1>5. Len(sessions') = 0 /\ DOMAIN sessions' = {} /\ clientSockCount' = 0
  <2>1. Len(sessions) \in Nat /\ clientSockCount = Len(sessions)
    BY SessionIs DEF OwnInv, SessionsInv
  <2> QED
    BY <1>1, <2>1
<1> QED
  BY <1>1, <1>4, <1>5 DEF OwnInv, SocketInv, SessionsInv

LEMMA OwnedBoot == ASSUME TypeInv, OwnInv, boot PROVE OwnInv'
<1>1. pc = "boot" /\ UNCHANGED clients
  BY DEF boot
<1>2. CASE sock_shutdown
  BY <1>1, <1>2, OwnedShutdown
<1> DEFINE q == [use |-> "srv", client |-> 0]
<1>3. ASSUME NEW n, n = NewNumber,
             srvSocket' = n, sockets' = Open(n, "srv", 0), initClientSocks(n),
             pc' = "wait", UNCHANGED <<sessions, xfer>>
      PROVE  OwnInv'
  <2>1. 0 \in Numbers /\ sockets[0] = Closed
    BY <1>1, FtpAssumption DEF TypeInv, WorkType, Numbers
  <2>2. n \in Numbers /\ sockets[n] = Closed
    BY <1>3, <2>1, NewNumberType
  <2>3. sockets' = [sockets EXCEPT ![n] = q] /\ srvSocket' = n /\ q = [use |-> "srv", client |-> 0]
    BY <1>3 DEF Open
  <2>4. DOMAIN sessions = {} /\ UNCHANGED sessions /\ Len(sessions) = 0 /\ srvSocket = -1
    <3>1. Len(sessions) = 0
      BY <1>1 DEF OwnInv, SessionsInv
    <3> QED
      BY <1>1, <1>3, <3>1, SessionIs DEF OwnInv, SocketInv
  <2>5. clientSocks' = {n} /\ lastSockPlus1' = n + 1 /\ clientSockCount' = 0
    BY <1>3 DEF initClientSocks
  <2>6. ~MovingData' /\ DataSock = -1
    BY <1>1, <1>3 DEF MovingData, DataSock
  <2>7. Watched'
    BY <2>2, <2>3, <2>4, <2>5, NumberIs DEF Watched, Ctls
  <2>8. Owned(n)' /\ \A m \in Numbers : Owned(m) => Owned(m)'
    BY <2>3, <2>4, <2>6, NumberIs DEF Owned
  <2>9. SocketInv'
    <3> HIDE DEF q
    <3> QED
      BY <1>1, <1>3, <2>2, <2>3, <2>4, <2>6, <2>7, <2>8, OwnersAfterOpen
  <2>10. SessionsInv'
    BY <1>3, <2>4, <2>5 DEF SessionsInv
  <2> QED
    BY <2>9, <2>10 DEF OwnInv
<1> QED
  BY <1>2, <1>3 DEF boot

(* Steps of the main loop that open and close nothing.                     *)
LEMMA OwnedIdle ==
  ASSUME TypeInv, OwnInv, ~Moving, UNCHANGED <<watch, sessions, sockets>>, SameStates, ~Moving',
         pc' = pc \/ {pc, pc'} \cap {"boot", "ended"} = {}
  PROVE  OwnInv'
<1>1. MovingData' = FALSE /\ MovingData = FALSE
  BY DEF MovingData, Moving
<1>2. Kept
  BY <1>1, Unchanged DEF Kept, watch, DataSock
<1> QED
  BY <1>2, OwnedKept

LEMMA OwnedSteps ==
  ASSUME TypeInv, OwnInv, waitForSocket \/ noAccept \/ getCtlLine \/ endRound \/ terminate
  PROVE  OwnInv'
<1>1. CASE waitForSocket \/ noAccept
  BY <1>1, OwnedIdle DEF waitForSocket, noAccept, program, watch, Moving, SameStates
<1>2. CASE getCtlLine
  <2>1. /\ pc = "serve" /\ round.todo # {} /\ pc' = "cmd" /\ UNCHANGED <<watch, sessions, sockets>>
        /\ clients' = [clients EXCEPT ![NextUp.client].unread = FALSE]
    BY <1>2 DEF getCtlLine, program
  <2> DEFINE c == NextUp.client
             q == [clients[c] EXCEPT !.unread = FALSE]
  <2>2. c \in Clients /\ clients \in [Clients -> Client]
    BY <2>1, NextUpIs DEF TypeInv, ClientsType
  <2> HIDE DEF c
  <2>3. clients' = [clients EXCEPT ![c] = q] /\ q.state = clients[c].state
    BY <2>1, <2>2 DEF Client, c
  <2> HIDE DEF q
  <2>4. SameStates
    BY <2>2, <2>3 DEF SameStates
  <2> QED
    BY <2>1, <2>4, OwnedIdle DEF Moving
<1>3. CASE endRound
  <2>1. pc = "serve" /\ UNCHANGED clients
    BY <1>3 DEF endRound
  <2>2. CASE sock_shutdown
    BY <2>1, <2>2, OwnedShutdown
  <2>3. CASE pc' = "wait" /\ UNCHANGED <<program, sockets>>
    BY <2>1, <2>3, OwnedIdle DEF program, Moving, SameStates
  <2> QED
    BY <1>3, <2>2, <2>3 DEF endRound
<1>4. CASE terminate
  BY <1>4, OwnedShutdown DEF terminate
<1> QED
  BY <1>1, <1>2, <1>3, <1>4

LEMMA OwnedAcceptClient == ASSUME TypeInv, OwnInv, acceptClient PROVE OwnInv'
<1>1. pc = "accept" /\ srvSocket \in round.active /\ ~MovingData /\ DataSock = -1
  BY DEF acceptClient, MovingData, DataSock
<1>2. CASE sock_shutdown
  BY <1>1, <1>2, OwnedShutdown
<1>3. ASSUME NEW c \in Clients, NEW n, n = NewNumber,
             clients[c].state = "calling", n >= 0, addClientSock(n, c),
             sockets' = Open(n, "ctl", c),
             clients' = [clients EXCEPT ![c].state = "on", ![c].replies = << 220 >>],
             pc' = "serve", UNCHANGED <<srvSocket, xfer>>
      PROVE  OwnInv'
  <2> DEFINE q == [use |-> "ctl", client |-> c]
             L == Len(sessions)
             s == NewSession(n, c)
  <2>1. n \in Numbers /\ sockets[n] = Closed
    BY <1>3, NewNumberType
  <2>2. sockets' = [sockets EXCEPT ![n] = q]
    BY <1>3 DEF Open
  <2>3. /\ clientSocks' = clientSocks \cup {n} /\ clientSockCount' = clientSockCount + 1
        /\ lastSockPlus1' = Max({lastSockPlus1, n + 1}) /\ sessions' = <<s>> \o sessions
    BY <1>3 DEF addClientSock
  <2>4. s.client = c /\ s.ctlSocket = n /\ s.psvSocket = -1
    BY DEF NewSession
  <2>5. DOMAIN sessions = 1 .. L /\ L \in Nat /\ sessions \in Seq(Session)
    BY SessionIs DEF TypeInv, SessionsType
  <2> HIDE DEF s
  <2>6. /\ Len(sessions') = L + 1 /\ DOMAIN sessions' = 1 .. L + 1 /\ sessions'[1] = s
        /\ \A i \in 1 .. L : sessions'[i + 1] = sessions[i]
    <3>1. sessions \in Seq(Session \cup {s}) /\ <<s>> \in Seq(Session \cup {s})
      BY <2>5
    <3> QED
      BY <2>3, <2>5, <3>1
  <2>7. \A i \in 2 .. L + 1 : i - 1 \in 1 .. L /\ sessions'[i] = sessions[i - 1]
    BY <2>5, <2>6
  <2> HIDE DEF L
  <2>8. Ctls' = Ctls \cup {n}
    <3>1. ASSUME NEW m \in Ctls' PROVE m \in Ctls \cup {n}
      <4>1. PICK i \in 1 .. L + 1 : m = sessions'[i].ctlSocket
        BY <2>6 DEF Ctls
      <4>2. CASE i = 1
        BY <2>4, <2>6, <4>1, <4>2
      <4>3. CASE i \in 2 .. L + 1
        BY <2>5, <2>7, <4>1, <4>3 DEF Ctls
      <4> QED
        BY <2>5, <4>2, <4>3
    <3>2. ASSUME NEW m \in Ctls PROVE m \in Ctls'
      <4>1. PICK i \in 1 .. L : m = sessions[i].ctlSocket
        BY <2>5 DEF Ctls
      <4>2. i + 1 \in 1 .. L + 1 /\ sessions'[i + 1] = sessions[i]
        BY <2>5, <2>6
      <4> QED
        BY <2>6, <4>1, <4>2 DEF Ctls
    <3>3. n \in Ctls'
      BY <2>4, <2>5, <2>6 DEF Ctls
    <3> QED
      BY <3>1, <3>2, <3>3
  <2>9. Watched'
    <3>1. lastSockPlus1 \in Nat /\ n + 1 \in Nat /\ n \in Nat
      BY <2>1, NumberIs, FtpAssumption DEF TypeInv, WatchType
    <3>2. lastSockPlus1' \in Nat /\ lastSockPlus1' >= lastSockPlus1 /\ n < lastSockPlus1'
      <4>1. Max({lastSockPlus1, n + 1}) = IF lastSockPlus1 <= n + 1 THEN n + 1 ELSE lastSockPlus1
        BY <3>1, MaxOfTwo
      <4> QED
        BY <2>3, <3>1, <4>1
    <3>3. \A m \in clientSocks : m \in Nat /\ m < lastSockPlus1
      BY <1>1, NumberIs DEF OwnInv, SocketInv, Watched, TypeInv, WatchType
    <3>4. \A m \in clientSocks' : m < lastSockPlus1'
      BY <2>3, <3>1, <3>2, <3>3
    <3> QED
      BY <1>1, <1>3, <2>3, <2>8, <3>4 DEF Watched, OwnInv, SocketInv
  <2>10. \A i \in DOMAIN sessions' :
           \/ \E j \in DOMAIN sessions : /\ sessions'[i].client = sessions[j].client
                                         /\ sessions'[i].ctlSocket = sessions[j].ctlSocket
                                         /\ sessions'[i].psvSocket = sessions[j].psvSocket
           \/ /\ sessions'[i].ctlSocket = n /\ q = [use |-> "ctl", client |-> sessions'[i].client]
              /\ sessions'[i].psvSocket = -1
    <3>1. ASSUME NEW i \in 2 .. L + 1
          PROVE  \E j \in DOMAIN sessions : /\ sessions'[i].client = sessions[j].client
                                            /\ sessions'[i].ctlSocket = sessions[j].ctlSocket
                                            /\ sessions'[i].psvSocket = sessions[j].psvSocket
      BY <2>5, <2>7
    <3>2. \A i \in DOMAIN sessions' : i = 1 \/ i \in 2 .. L + 1
      BY <2>5, <2>6
    <3> QED
      BY <2>4, <2>6, <3>1, <3>2
  <2>11. Owned(n)'
    <3>1. 1 \in DOMAIN sessions'
      BY <2>5, <2>6
    <3> QED
      BY <2>4, <2>6, <3>1 DEF Owned
  <2>12. ASSUME NEW m \in Numbers, Owned(m) PROVE Owned(m)'
    <3>1. CASE m = srvSocket
      BY <1>3, <3>1 DEF Owned
    <3>2. CASE \E i \in DOMAIN sessions : m \in {sessions[i].ctlSocket, sessions[i].psvSocket}
      <4>1. PICK i \in 1 .. L : m \in {sessions[i].ctlSocket, sessions[i].psvSocket}
        BY <2>5, <3>2
      <4>2. i + 1 \in DOMAIN sessions' /\ sessions'[i + 1] = sessions[i]
        BY <2>5, <2>6
      <4> QED
        BY <4>1, <4>2 DEF Owned
    <3>3. m # -1
      BY NumberIs
    <3> QED
      BY <1>1, <2>12, <3>1, <3>2, <3>3 DEF Owned
  <2>13. SocketInv'
    <3>1. ~MovingData' /\ pc # "ended" /\ pc' \notin {"boot", "ended"}
      BY <1>1, <1>3 DEF MovingData
    <3> HIDE DEF q
    <3> QED
      BY <1>3, <2>1, <2>2, <2>9, <2>10, <2>11, <2>12, <3>1, OwnersAfterOpen
  <2>14. SessionsInv'
    <3>1. /\ \A i, j \in DOMAIN sessions : sessions[i].client = sessions[j].client => i = j
          /\ \A i \in DOMAIN sessions : clients[sessions[i].client].state \in {"on", "gone"}
          /\ clientSockCount = L
      BY DEF OwnInv, SessionsInv, L
    <3>2. \A i \in 1 .. L : sessions[i].client \in Clients /\ sessions[i].client # c
      BY <1>3, <2>5, <3>1, SessionIs
    <3>3. clients'[c].state = "on" /\ \A d \in Clients : d # c => clients'[d] = clients[d]
      <4>1. clients[c] \in Client /\ clients \in [Clients -> Client]
        BY DEF TypeInv, ClientsType
      <4> DEFINE p == [clients[c] EXCEPT !.state = "on", !.replies = <<220>>]
      <4>2. clients' = [clients EXCEPT ![c] = p]
        BY <1>3, <4>1
      <4>3. p.state = "on"
        BY <4>1 DEF Client
      <4> HIDE DEF p
      <4> QED
        BY <4>1, <4>2, <4>3
    <3>4. ASSUME NEW i \in DOMAIN sessions', NEW j \in DOMAIN sessions',
                 sessions'[i].client = sessions'[j].client
          PROVE  i = j
      <4>1. \A k \in DOMAIN sessions' : k = 1 \/ k \in 2 .. L + 1
        BY <2>5, <2>6
      <4>2. \A k \in 2 .. L + 1 : sessions'[k].client # c
        BY <2>7, <3>2
      <4>3. CASE i \in 2 .. L + 1 /\ j \in 2 .. L + 1
        <5>1. i - 1 = j - 1
          BY <2>5, <2>7, <3>1, <3>4, <4>3
        <5> QED
          BY <2>5, <4>3, <5>1
      <4> QED
        BY <2>4, <2>6, <3>4, <4>1, <4>2, <4>3
    <3>5. ASSUME NEW i \in DOMAIN sessions' PROVE clients'[sessions'[i].client].state \in {"on", "gone"}
      <4>1. CASE i = 1
        BY <2>4, <2>6, <3>3, <4>1
      <4>2. CASE i \in 2 .. L + 1
        BY <2>5, <2>7, <3>1, <3>2, <3>3, <4>2
      <4> QED
        BY <2>5, <2>6, <4>1, <4>2
    <3> QED
      BY <1>3, <2>3, <2>6, <3>1, <3>4, <3>5 DEF SessionsInv
  <2> QED
    BY <2>13, <2>14 DEF OwnInv
<1>4. CASE /\ srvSocket' = -1 /\ clientSocks' = clientSocks \ {srvSocket}
           /\ sockets' = Close({srvSocket})
           /\ clients' = [c \in Clients |-> IF clients[c].state = "calling"
                                            THEN [clients[c] EXCEPT !.state = "gone"] ELSE clients[c]]
           /\ pc' = "serve"
           /\ UNCHANGED <<lastSockPlus1, clientSockCount, sessions, xfer>>
  <2> DEFINE gone == {srvSocket}
  <2>1. SameStates
    BY <1>4 DEF SameStates
  <2>2. srvSocket # -1
    BY <1>1, NumberIs DEF TypeInv, WatchType
  <2>3. \A i \in DOMAIN sessions : sessions[i].ctlSocket \notin gone
                                   /\ (sessions[i].psvSocket # -1 => sessions[i].psvSocket \notin gone)
    BY <1>1, OwnersDiffer
  <2>4. Watched'
    BY <1>1, <1>4, <2>2, <2>3 DEF Watched, Ctls, OwnInv, SocketInv
  <2>5. \A m \in Numbers \ gone : Owned(m) => Owned(m)'
    BY <1>1, <1>4, NumberIs DEF Owned
  <2>6. SocketInv'
    <3>1. \A i \in DOMAIN sessions' : \E j \in DOMAIN sessions :
           /\ sessions'[i].client = sessions[j].client
           /\ sessions'[i].ctlSocket = sessions[j].ctlSocket /\ sessions[j].ctlSocket \notin gone
           /\ sessions'[i].psvSocket # -1 => /\ sessions'[i].psvSocket = sessions[j].psvSocket
                                             /\ sessions[j].psvSocket \notin gone
      BY <1>4, <2>3
    <3>2. ~MovingData'
      BY <1>4 DEF MovingData
    <3>3. sockets' = Close(gone) /\ pc # "ended" /\ pc' \notin {"boot", "ended"} /\ srvSocket' = -1
      BY <1>1, <1>4
    <3> HIDE DEF gone
    <3> QED
      BY <2>4, <2>5, <3>1, <3>2, <3>3, OwnersAfterClose
  <2>7. SessionsInv'
    <3>1. \A i \in DOMAIN sessions : clients'[sessions[i].client].state \in {"on", "gone"}
      BY <2>1, SessionIs DEF SameStates, OwnInv, SessionsInv
    <3> QED
      BY <1>4, <3>1 DEF OwnInv, SessionsInv
  <2> QED
    BY <2>6, <2>7 DEF OwnInv
<1> QED
  BY <1>2, <1>3, <1>4 DEF acceptClient

LEMMA OwnedCommand == ASSUME TypeInv, OwnInv, MovingInv, processSingleCmd PROVE OwnInv'
<1>1. CASE cmdUSER \/ cmdPASS \/ onlyReply \/ cmdCWD \/ cmdTYPE \/ cmdDELE \/ cmdRNFR \/ cmdRNTO
  BY <1>1, SimpleUSER, SimplePASS, SimpleOnlyReply, SimpleCWD, SimpleTYPE, SimpleDELE, SimpleRNFR,
     SimpleRNTO, SimpleKept
<1> QED
  BY <1>1, OwnedQUIT, OwnedPASV, OwnedPORT, OwnedRETR, OwnedSTOR, OwnedList, OwnedLoopInPath,
     OwnedOpenData, OwnedReadRecord, OwnedRecvChunk, OwnedEndings
  DEF processSingleCmd

(* The clients outside do nothing to the sockets.                          *)
LEMMA OwnedOutside ==
  ASSUME TypeInv, OwnInv, UNCHANGED <<watch, sessions, pc, sockets>>, SameStates,
         UNCHANGED xfer \/ (xfer # NoXfer /\ xfer' = [xfer EXCEPT !.conn = "lost"])
  PROVE  OwnInv'
<1>1. UNCHANGED <<srvSocket, clientSocks, lastSockPlus1, clientSockCount, sessions, pc, sockets>>
  BY DEF watch
<1>2. MovingData' = MovingData /\ DataSock' = DataSock
  <2>1. CASE xfer # NoXfer /\ xfer' = [xfer EXCEPT !.conn = "lost"]
    <3>1. xfer \in Xfer
      BY <2>1 DEF TypeInv, XferType
    <3>2. UNCHANGED <<xfer.cmd, xfer.sock>>
      BY <2>1, <3>1 DEF Xfer
    <3> QED
      BY <1>1, <3>2 DEF MovingData, DataSock
  <2>2. CASE UNCHANGED xfer
    BY <1>1, <2>2 DEF MovingData, DataSock
  <2> QED
    BY <2>1, <2>2
<1>3. Kept
  BY <1>1, <1>2, Unchanged DEF Kept
<1> QED
  BY <1>3, OwnedKept

LEMMA OwnedClients ==
  ASSUME TypeInv, OwnInv, NEW c \in Clients, call(c) \/ beginCommand(c) \/ sendCommand(c) \/ leave(c) \/ dial(c)
  PROVE  OwnInv'
<1>1. UNCHANGED <<watch, sessions, pc, sockets>>
  BY DEF call, beginCommand, sendCommand, leave, dial, serverSide
<1>2. clients[c] \in Client /\ clients \in [Clients -> Client]
  BY DEF TypeInv, ClientsType
<1>3. SameStates
  <2>1. CASE call(c)
    <3>1. clients[c].state = "out" /\ clients' = [clients EXCEPT ![c].state = "calling"]
      BY <2>1 DEF call
    <3>2. \A d \in Clients : d # c => clients'[d] = clients[d]
      BY <1>2, <3>1
    <3> QED
      BY <3>1, <3>2 DEF SameStates
  <2>5. CASE beginCommand(c)
    <3> DEFINE q == [clients[c] EXCEPT !.begun = TRUE]
    <3>1. clients' = [clients EXCEPT ![c] = q]
      BY <2>5 DEF beginCommand
    <3>2. q.state = clients[c].state
      BY <1>2 DEF Client
    <3> HIDE DEF q
    <3> QED
      BY <1>2, <3>1, <3>2 DEF SameStates
  <2>2. CASE sendCommand(c)
    <3> DEFINE q == [clients[c] EXCEPT !.sent = @ + 1, !.begun = FALSE, !.unread = TRUE,
                                       !.replies = <<>>, !.got = <<>>]
    <3>1. clients' = [clients EXCEPT ![c] = q]
      BY <1>2, <2>2 DEF sendCommand
    <3>2. q.state = clients[c].state
      BY <1>2 DEF Client
    <3> HIDE DEF q
    <3> QED
      BY <1>2, <3>1, <3>2 DEF SameStates
  <2>3. CASE leave(c)
    <3>1. clients' = [clients EXCEPT ![c] = [clients[c] EXCEPT !.state = "gone"]]
      BY <2>3 DEF leave
    <3>2. [clients[c] EXCEPT !.state = "gone"].state = "gone"
      BY <1>2 DEF Client
    <3> QED
      BY <1>2, <3>1, <3>2 DEF SameStates
  <2>4. CASE dial(c)
    <3> DEFINE k == IF Between(c) THEN clients[c].sent + 1 ELSE clients[c].sent
               w == Append(clients[c].queued, k)
               q == [clients[c] EXCEPT !.dialed = k, !.queued = w]
    <3>1. clients' = [clients EXCEPT ![c].dialed = k, ![c].queued = Append(@, k)]
      BY <2>4, Zenon DEF dial
    <3>2. clients' = [clients EXCEPT ![c] = q]
      BY <1>2, <3>1
    <3> HIDE DEF w, k
    <3>3. q.state = clients[c].state
      BY <1>2 DEF Client
    <3> HIDE DEF q
    <3> QED
      BY <1>2, <3>2, <3>3 DEF SameStates
  <2> QED
    BY <2>1, <2>2, <2>3, <2>4, <2>5
<1>4. xfer' = xfer \/ (xfer # NoXfer /\ xfer' = [xfer EXCEPT !.conn = "lost"])
  <2>1. leave(c) => xfer' = xfer \/ (xfer # NoXfer /\ xfer' = [xfer EXCEPT !.conn = "lost"])
    BY DEF leave
  <2>2. call(c) \/ beginCommand(c) \/ sendCommand(c) \/ dial(c) => xfer' = xfer
    BY DEF call, beginCommand, sendCommand, dial
  <2> QED
    BY <2>1, <2>2
<1> QED
  BY <1>1, <1>3, <1>4, OwnedOutside

LEMMA OwnedNext == ASSUME TypeInv, MovingInv, OwnInv, [FtpNext]_ftpVars PROVE OwnInv'
<1>1. CASE main
  BY <1>1, OwnedBoot, OwnedSteps, OwnedAcceptClient, OwnedLostCtl, OwnedCommand DEF main
<1>2. CASE clientSteps \/ \E c \in Clients : dial(c)
  BY <1>2, OwnedClients DEF clientSteps
<1>3. CASE readError
  BY <1>3, OwnedReadError
<1>4. CASE terminate
  BY <1>4, OwnedSteps
<1>5. CASE loseData
  <2>1. UNCHANGED <<watch, sessions, pc, sockets>> /\ SameStates
    BY <1>5 DEF loseData, SameStates
  <2>2. xfer # NoXfer /\ xfer' = [xfer EXCEPT !.conn = "lost"]
    <3>1. Moving /\ xfer.cmd # "STAT" /\ xfer \in Xfer
      BY <1>5 DEF loseData, Moving, TypeInv, XferType
    <3>2. xfer.cmd # "none"
      BY <3>1 DEF Xfer, Transfers
    <3> QED
      BY <1>5, <3>2 DEF loseData, NoXfer
  <2> QED
    BY <2>1, <2>2, OwnedOutside
<1>6. CASE UNCHANGED ftpVars
  <2>1. UNCHANGED <<watch, sessions, pc, sockets>> /\ SameStates
    BY <1>6 DEF ftpVars, program, watch, SameStates
  <2>2. UNCHANGED xfer
    BY <1>6 DEF ftpVars, program
  <2> QED
    BY <2>1, <2>2, OwnedOutside
<1> QED
  BY <1>1, <1>2, <1>3, <1>4, <1>5, <1>6 DEF FtpNext

LEMMA OwnedInit == ASSUME FtpInit PROVE OwnInv /\ MovingInv
<1> USE DEF FtpInit
<1>1. SessionsInv
  BY DEF SessionsInv
<1>2. ~MovingData /\ DataSock = -1 /\ Ctls = {}
  BY DEF MovingData, DataSock, Ctls
<1>3. \A n \in Numbers : sockets[n] = Closed
  OBVIOUS
<1>4. SocketInv
  BY <1>2, <1>3 DEF SocketInv, OpenOwned, SrvOwned, DataOwned, Watched
<1>5. MovingInv
  BY DEF MovingInv, Moving
<1> QED
  BY <1>1, <1>4, <1>5 DEF OwnInv

(* Every socket that is open has its owner, and every owner its socket.    *)
THEOREM OwnersHold == FtpSpec => [](OwnInv /\ MovingInv)
<1>1. FtpInit => OwnInv /\ MovingInv
  BY OwnedInit
<1>2. TypeInv /\ OwnInv /\ MovingInv /\ [FtpNext]_ftpVars => (OwnInv /\ MovingInv)'
  BY OwnedNext, MovesNext
<1> QED
  BY <1>1, <1>2, TypesHold, PTL DEF FtpSpec

LEMMA Matched == ASSUME TypeInv, OwnInv PROVE SocketsMatch
<1> DEFINE used(i) == SocketsOf(sessions[i])
           mine    == IF srvSocket # -1 THEN {srvSocket} ELSE {}
           moving  == IF pc = "copy" /\ xfer.cmd # "STAT" THEN {xfer.sock} ELSE {}
           ctls    == {sessions[i].ctlSocket : i \in DOMAIN sessions}
<1>1. pc = "ended" => \A n \in Numbers : sockets[n] = Closed
  BY DEF OwnInv, SocketInv
<1>2. \A i \in DOMAIN sessions : \A n :
        n \in used(i) <=> /\ n \in Numbers
                          /\ n = sessions[i].ctlSocket \/ n = sessions[i].psvSocket
  BY DEF SocketsOf
<1>3. moving = IF MovingData THEN {DataSock} ELSE {}
  BY DEF MovingData, DataSock
<1>4. clientSockCount = Len(sessions)
  BY DEF OwnInv, SessionsInv
<1> HIDE DEF used, moving
<1>5. ASSUME pc # "ended"
      PROVE  /\ \A i, j \in DOMAIN sessions : i # j => used(i) \cap used(j) = {}
             /\ \A i \in DOMAIN sessions :
                  LET s == sessions[i]
                  IN /\ sockets[s.ctlSocket] = [use |-> "ctl", client |-> s.client]
                     /\ s.psvSocket >= 0 =>
                          sockets[s.psvSocket] = [use |-> "psv", client |-> s.client]
             /\ {n \in Numbers : sockets[n] # Closed}
                  = mine \cup moving \cup UNION {used(i) : i \in DOMAIN sessions}
             /\ clientSocks = ctls \cup mine
             /\ \A n \in clientSocks : n < lastSockPlus1
  <2>1. OpenOwned /\ SrvOwned /\ DataOwned /\ Watched /\ \A i \in DOMAIN sessions : SessionOwned(i)
    BY <1>5 DEF OwnInv, SocketInv
  <2>2. ASSUME NEW i \in DOMAIN sessions, NEW j \in DOMAIN sessions, i # j
        PROVE  used(i) \cap used(j) = {}
    BY <1>2, <1>5, <2>2, OwnersDiffer, NumberIs
  <2>3. ASSUME NEW i \in DOMAIN sessions
        PROVE  /\ sockets[sessions[i].ctlSocket] = [use |-> "ctl", client |-> sessions[i].client]
               /\ sessions[i].psvSocket >= 0 =>
                    sockets[sessions[i].psvSocket] = [use |-> "psv", client |-> sessions[i].client]
    <3>1. sessions[i].psvSocket >= 0 => sessions[i].psvSocket # -1
      BY SessionIs, NumberIs
    <3> QED
      BY <2>1, <3>1 DEF SessionOwned
  <2>4. ASSUME NEW n \in Numbers
        PROVE  sockets[n] # Closed <=>
                 n \in mine \/ n \in moving \/ \E i \in DOMAIN sessions : n \in used(i)
    <3>1. n # -1
      BY NumberIs
    <3>2. sockets[n] # Closed => Owned(n)
      BY <2>1 DEF OpenOwned
    <3>3. Owned(n) <=> n \in mine \/ n \in moving \/ \E i \in DOMAIN sessions : n \in used(i)
      BY <1>2, <1>3, <3>1 DEF Owned, DataSock
    <3>4. Owned(n) => sockets[n] # Closed
      BY <1>5, <3>1, OwnedOpen DEF Owned
    <3> QED
      BY <3>2, <3>3, <3>4
  <2>5. mine \subseteq Numbers /\ moving \subseteq Numbers
        /\ \A i \in DOMAIN sessions : used(i) \subseteq Numbers
    BY <1>2, <1>3, <2>1, NumberIs DEF DataOwned, TypeInv, WatchType
  <2>6. clientSocks = ctls \cup mine /\ \A n \in clientSocks : n < lastSockPlus1
    BY <2>1 DEF Watched, Ctls
  <2>7. {n \in Numbers : sockets[n] # Closed}
          = mine \cup moving \cup UNION {used(i) : i \in DOMAIN sessions}
    <3> HIDE DEF mine
    <3> QED
      BY <2>4, <2>5
  <2> QED
    BY <2>2, <2>3, <2>6, <2>7
<1> QED
  BY <1>1, <1>4, <1>5 DEF SocketsMatch, used, moving

(* Every socket that is open belongs to the server, one session or the     *)
(* transfer, as what it was opened for; the sessions are those watched and *)
(* counted, and at the end nothing is open.                                *)
THEOREM SocketsAlwaysMatch == FtpSpec => []SocketsMatch
<1>1. TypeInv /\ OwnInv => SocketsMatch
  BY Matched
<1> QED
  BY <1>1, TypesHold, OwnersHold, PTL

(* There are no more sessions than clients.                                *)
LEMMA SessionsFit == ASSUME TypeInv, OwnInv PROVE clientSockCount \in 0 .. Cardinality(Clients)
<1>1. clientSockCount = Len(sessions) /\ DOMAIN sessions = 1 .. Len(sessions) /\ Len(sessions) \in Nat
      /\ \A i \in 1 .. Len(sessions) : sessions[i].client \in Clients
  BY SessionIs DEF OwnInv, SessionsInv
<1>2. IsFiniteSet(Clients) /\ Cardinality(Clients) \in Nat
  BY FtpAssumption, FS_CardinalityType
<1>3. IsFiniteSet(1 .. Len(sessions)) /\ Cardinality(1 .. Len(sessions)) = Len(sessions)
  <2> DEFINE n == Len(sessions)
  <2>1. n \in Nat
    BY <1>1
  <2>2. IsFiniteSet(1 .. n) /\ Cardinality(1 .. n) = IF 1 > n THEN 0 ELSE n - 1 + 1
    <3> HIDE DEF n
    <3> QED
      BY <2>1, FS_Interval
  <2> HIDE DEF n
  <2>3. (IF 1 > n THEN 0 ELSE n - 1 + 1) = n
    BY <2>1
  <2>4. Cardinality(1 .. n) = n
    BY <2>2, <2>3
  <2> QED
    BY <2>2, <2>4 DEF n
<1>4. ASSUME Cardinality(Clients) < Len(sessions) PROVE FALSE
  <2> DEFINE h == [i \in 1 .. Len(sessions) |-> sessions[i].client]
  <2>1. h \in [1 .. Len(sessions) -> Clients]
    BY <1>1
  <2>2. \E i, j \in 1 .. Len(sessions) : i # j /\ h[i] = h[j]
    <3> HIDE DEF h
    <3> QED
      BY <1>2, <1>3, <1>4, <2>1, FS_PigeonHole
  <2> QED
    BY <1>1, <2>2 DEF OwnInv, SessionsInv
<1> QED
  BY <1>1, <1>2, <1>4

(* The types as TLC checks them.                                           *)
THEOREM FtpTypesHold == FtpSpec => []FtpTypeOK
<1>1. TypeInv /\ OwnInv => FtpTypeOK
  <2> SUFFICES ASSUME TypeInv, OwnInv PROVE FtpTypeOK
    OBVIOUS
  <2>1. {srvSocket, trfSocket} \subseteq Sock /\ clientSocks \subseteq Numbers
        /\ lastSockPlus1 \in 0 .. FD_SETSIZE /\ failures \in 0 .. MaxFailures
    BY DEF TypeInv, WatchType
  <2>2. ASSUME NEW i \in DOMAIN sessions
        PROVE  LET s == sessions[i]
               IN /\ s.client \in Clients /\ s.ctlSocket \in Numbers /\ s.psvSocket \in Sock
                  /\ {s.loggedIn, s.havingActiveClientAddr, s.ftpTrfBinary} \subseteq BOOLEAN
                  /\ s.notedUser \in STRING \cup {""}
                  /\ (s.renameDiskIdx # Root => s.renameFrom \in Names)
                  /\ {s.currDisk, s.renameDiskIdx} \subseteq Disk
    <3>1. sessions[i] \in Session
      BY SessionIs
    <3> QED
      BY <3>1 DEF Session, Users
  <2>3. pc \in {"boot", "wait", "accept", "serve", "cmd", "connect", "copy", "ended", "looping"}
    BY DEF TypeInv, WorkType
  <2>4. (pc \in {"connect", "copy"}) = (xfer # NoXfer)
    <3>1. Moving => xfer # NoXfer
      <4>1. Moving => xfer \in Xfer
        BY DEF TypeInv, XferType
      <4>2. \A x \in Xfer : x.cmd # "none"
        BY DEF Xfer, Transfers
      <4> QED
        BY <4>1, <4>2 DEF NoXfer
    <3>2. ~Moving => xfer = NoXfer
      BY DEF TypeInv, XferType
    <3> QED
      BY <3>1, <3>2 DEF Moving
  <2>5. /\ pc = "copy" /\ xfer.cmd = "RETR" => f.is = "read"
        /\ pc = "copy" /\ xfer.cmd \in {"STOR", "APPE"} => f.is = "write"
    BY DEF TypeInv, XferType, Moving
  <2>6. sockets \in [Numbers -> [use : {"none", "srv", "ctl", "psv", "data"}, client : Clients \cup {0}]]
    BY DEF TypeInv, WatchType, Socket
  <2> QED
    BY <2>1, <2>2, <2>3, <2>4, <2>5, <2>6, SessionsFit DEF FtpTypeOK
<1> QED
  BY <1>1, TypesHold, OwnersHold, PTL

=============================================================================
