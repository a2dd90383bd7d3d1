-------------------------- MODULE FtpServerProofs ---------------------------
(***************************************************************************)
(* What the FTP server guarantees its clients, for any of them and their   *)
(* scripts: who may change which file (ChangesAllowed), and that what is   *)
(* stored and what is sent is neither lost, doubled nor out of order       *)
(* (StoredInOrder, DoneIsComplete).  CommandsInv, AuthInv, StoreInv and    *)
(* FetchInv are inductive with the invariants of FtpServerTypeProofs.      *)
(***************************************************************************)
EXTENDS FtpServerTypeProofs

-----------------------------------------------------------------------------
(* Who may do what, by the commands a client has said.                     *)

(* The last element of a set of indices, or none.                          *)
LEMMA LastIn ==
  ASSUME NEW n \in Nat, NEW T, T \subseteq 1 .. n
  PROVE  /\ Max({0} \cup T) \in 0 .. n /\ (Max({0} \cup T) > 0 => Max({0} \cup T) \in T)
         /\ \A y \in T : y <= Max({0} \cup T)
<1> DEFINE Z == {0} \cup T
<1>1. Z \subseteq 0 .. n /\ Z # {} /\ 0 \in Z
  OBVIOUS
<1>2. Max(Z) \in Z /\ \A y \in Z : y <= Max(Z)
  <2> HIDE DEF Z
  <2> QED
    BY <1>1, MaxOf
<1>3. T \subseteq Nat /\ \A y \in T : y \in Z
  OBVIOUS
<1>4. Max(Z) \in {0} \cup T /\ Max(Z) \in 0 .. n
  BY <1>1, <1>2
<1> QED
  BY <1>2, <1>3, <1>4

(* An index behind all others is the last.                                 *)
LEMMA LastAdded ==
  ASSUME NEW n \in Nat, NEW T, T \subseteq 1 .. n
  PROVE  Max({0} \cup (T \cup {n + 1})) = n + 1
<1> DEFINE Z == T \cup {n + 1}
           m == Max({0} \cup Z)
<1>1. Z \subseteq 1 .. n + 1 /\ n + 1 \in Nat /\ n + 1 \in Z
  OBVIOUS
<1>2. m \in 0 .. n + 1 /\ \A y \in Z : y <= m
  <2> DEFINE l == n + 1
  <2>1. l \in Nat /\ Z \subseteq 1 .. l
    BY <1>1
  <2> HIDE DEF Z, l
  <2>2. Max({0} \cup Z) \in 0 .. l /\ \A y \in Z : y <= Max({0} \cup Z)
    BY <2>1, LastIn
  <2> QED
    BY <2>2 DEF l
<1>3. n + 1 <= m
  BY <1>1, <1>2
<1>4. m = n + 1
  <2> HIDE DEF m
  <2> QED
    BY <1>2, <1>3
<1> QED
  BY <1>4

LEMMA LastOfType ==
  ASSUME NEW cmds \in Seq(Commands), NEW names
  PROVE  /\ LastOf(cmds, names) \in 0 .. Len(cmds)
         /\ LastOf(cmds, names) > 0 => cmds[LastOf(cmds, names)].cmd \in names
         /\ \A i \in 1 .. Len(cmds) : cmds[i].cmd \in names => i <= LastOf(cmds, names)
<1> DEFINE T == {i \in DOMAIN cmds : cmds[i].cmd \in names}
           n == Len(cmds)
<1>1. n \in Nat /\ DOMAIN cmds = 1 .. n /\ T \subseteq 1 .. n
  OBVIOUS
<1>2. LastOf(cmds, names) = Max({0} \cup T)
  BY Zenon DEF LastOf
<1>3. \A i : i \in T <=> i \in 1 .. n /\ cmds[i].cmd \in names
  BY <1>1
<1> HIDE DEF T, n
<1>4. /\ Max({0} \cup T) \in 0 .. n /\ (Max({0} \cup T) > 0 => Max({0} \cup T) \in T)
      /\ \A y \in T : y <= Max({0} \cup T)
  BY <1>1, LastIn
<1> QED
  BY <1>2, <1>3, <1>4 DEF n

(* One command more.                                                       *)
LEMMA Said1 ==
  ASSUME NEW cmds \in Seq(Commands), NEW k \in Commands
  PROVE  /\ Append(cmds, k) \in Seq(Commands) /\ Len(Append(cmds, k)) = Len(cmds) + 1
         /\ DOMAIN Append(cmds, k) = 1 .. Len(cmds) + 1 /\ DOMAIN cmds = 1 .. Len(cmds)
         /\ Append(cmds, k)[Len(cmds) + 1] = k
         /\ \A i \in 1 .. Len(cmds) : Append(cmds, k)[i] = cmds[i]
OBVIOUS

LEMMA LastOfNext ==
  ASSUME NEW cmds \in Seq(Commands), NEW k \in Commands, NEW names
  PROVE  LastOf(Append(cmds, k), names)
           = IF k.cmd \in names THEN Len(cmds) + 1 ELSE LastOf(cmds, names)
<1> DEFINE n == Len(cmds)
           more == Append(cmds, k)
           T == {i \in DOMAIN cmds : cmds[i].cmd \in names}
           Z == {i \in DOMAIN more : more[i].cmd \in names}
<1>1. n \in Nat /\ DOMAIN cmds = 1 .. n /\ DOMAIN more = 1 .. n + 1 /\ more[n + 1] = k
      /\ \A i \in 1 .. n : more[i] = cmds[i]
  BY Said1
<1>2. T \subseteq 1 .. n
  BY <1>1
<1>3. LastOf(cmds, names) = Max({0} \cup T) /\ LastOf(more, names) = Max({0} \cup Z)
  BY Zenon DEF LastOf
<1>4. Z = IF k.cmd \in names THEN T \cup {n + 1} ELSE T
  <2> HIDE DEF more, n
  <2>1. \A i \in 1 .. n + 1 : i \in 1 .. n \/ i = n + 1
    BY <1>1
  <2>2. 1 .. n \subseteq 1 .. n + 1 /\ n + 1 \in 1 .. n + 1 /\ n + 1 \notin 1 .. n
    BY <1>1
  <2>3. CASE k.cmd \in names
    <3>1. \A i : i \in Z <=> i \in T \cup {n + 1}
      BY <1>1, <2>1, <2>2, <2>3
    <3> HIDE DEF Z, T
    <3> QED
      BY <2>3, <3>1
  <2>4. CASE k.cmd \notin names
    <3>1. \A i : i \in Z <=> i \in T
      BY <1>1, <2>1, <2>2, <2>4
    <3> HIDE DEF Z, T
    <3> QED
      BY <2>4, <3>1
  <2> QED
    BY <2>3, <2>4
<1> HIDE DEF Z, T, n, more
<1>5. Max({0} \cup (T \cup {n + 1})) = n + 1
  BY <1>1, <1>2, LastAdded
<1> QED
  BY <1>3, <1>4, <1>5 DEF n, more

(* The user named by the last USER, if there was no PASS since.            *)
Noted(cmds) ==
  LET p == LastOf(cmds, {"PASS"})
      u == LastOf(cmds, {"USER"})
  IN IF u > p THEN cmds[u].arg.word ELSE ""

(* How one command more changes who the client is: PASS with the noted     *)
(* name and the password logs in, USER notes a name and logs out.          *)
LEMMA AuthorisedNext ==
  ASSUME NEW cmds \in Seq(Commands), NEW k \in Commands
  PROVE  /\ k.cmd = "USER" => /\ ~Authorised(Append(cmds, k))
                              /\ Noted(Append(cmds, k)) = k.arg.word
         /\ k.cmd = "PASS" =>
              /\ Authorised(Append(cmds, k))
                   <=> ~reqPwd \/ (Noted(cmds) = "right" /\ k.arg.word = "right")
              /\ Noted(Append(cmds, k)) = ""
         /\ k.cmd \notin {"USER", "PASS"} =>
              /\ Authorised(Append(cmds, k)) <=> Authorised(cmds)
              /\ Noted(Append(cmds, k)) = Noted(cmds)
<1> DEFINE n == Len(cmds)
           more == Append(cmds, k)
           p == LastOf(cmds, {"PASS"})
           u == LastOf(cmds, {"USER"})
           q == LastOf(more, {"PASS"})
           v == LastOf(more, {"USER"})
<1>1. n \in Nat /\ more[n + 1] = k /\ \A i \in 1 .. n : more[i] = cmds[i]
  BY Said1
<1>2. q = IF k.cmd = "PASS" THEN n + 1 ELSE p
  BY LastOfNext
<1>3. v = IF k.cmd = "USER" THEN n + 1 ELSE u
  BY LastOfNext
<1>4. /\ p \in 0 .. n /\ (p > 0 => cmds[p].cmd = "PASS")
      /\ \A i \in 1 .. n : cmds[i].cmd = "PASS" => i <= p
  BY LastOfType
<1>5. u \in 0 .. n /\ (u > 0 => cmds[u].cmd = "USER")
  BY LastOfType
<1>6. Authorised(cmds) <=>
        /\ u < p
        /\ reqPwd => /\ 0 < u /\ cmds[u].arg.word = "right" /\ cmds[p].arg.word = "right"
                     /\ \A i \in u + 1 .. p - 1 : cmds[i].cmd # "PASS"
  BY Zenon DEF Authorised
<1>7. Authorised(more) <=>
        /\ v < q
        /\ reqPwd => /\ 0 < v /\ more[v].arg.word = "right" /\ more[q].arg.word = "right"
                     /\ \A i \in v + 1 .. q - 1 : more[i].cmd # "PASS"
  BY Zenon DEF Authorised
<1>8. (u > p => Noted(cmds) = cmds[u].arg.word) /\ (~(u > p) => Noted(cmds) = "")
  BY Zenon DEF Noted
<1>9. (v > q => Noted(more) = more[v].arg.word) /\ (~(v > q) => Noted(more) = "")
  BY Zenon DEF Noted
<1> HIDE DEF n, more, p, u, q, v
<1>10. CASE k.cmd = "USER"
  <2>1. v = n + 1 /\ q = p /\ v > q /\ ~(v < q)
    BY <1>1, <1>2, <1>3, <1>4, <1>10
  <2>2. ~Authorised(more) /\ Noted(more) = k.arg.word
    BY <1>1, <1>7, <1>9, <2>1
  <2> QED
    BY <1>10, <2>2 DEF more
<1>11. CASE k.cmd = "PASS"
  <2>1. q = n + 1 /\ v = u /\ v < q
    BY <1>2, <1>3, <1>5, <1>11, <1>1
  <2>2. Noted(more) = ""
    <3>1. ~(v > q)
      BY <1>1, <1>5, <2>1
    <3> QED
      BY <1>9, <3>1, Zenon
  <2>3. Authorised(more) <=>
          (reqPwd => /\ 0 < u /\ cmds[u].arg.word = "right" /\ k.arg.word = "right"
                     /\ \A i \in u + 1 .. n : cmds[i].cmd # "PASS")
    BY <1>1, <1>5, <1>7, <2>1
  <2>4. (\A i \in u + 1 .. n : cmds[i].cmd # "PASS") <=> p <= u
    BY <1>1, <1>4, <1>5
  <2>5. 0 < u => p # u
    BY <1>4, <1>5
  <2>6. (0 < u /\ cmds[u].arg.word = "right" /\ p <= u) <=> Noted(cmds) = "right"
    <3>1. CASE u > p
      <4>1. Noted(cmds) = cmds[u].arg.word
        BY <1>8, <3>1, Zenon
      <4>2. 0 < u /\ p <= u
        BY <1>4, <1>5, <3>1
      <4> QED
        BY <4>1, <4>2, Zenon
    <3>2. CASE ~(u > p)
      <4>1. Noted(cmds) = "" /\ "" # "right"
        BY <1>8, <3>2
      <4>2. ~(0 < u /\ p <= u)
        BY <1>4, <1>5, <2>5, <3>2
      <4> QED
        BY <4>1, <4>2, Zenon
    <3> QED
      BY <3>1, <3>2
  <2> QED
    BY <1>11, <2>2, <2>3, <2>4, <2>6 DEF more
<1>12. CASE k.cmd \notin {"USER", "PASS"}
  <2>1. q = p /\ v = u
    BY <1>2, <1>3, <1>12
  <2>2. u > 0 => more[u] = cmds[u]
    BY <1>1, <1>5
  <2>3. p > 0 => more[p] = cmds[p]
    BY <1>1, <1>4
  <2>4. \A i \in u + 1 .. p - 1 : more[i] = cmds[i]
    BY <1>1, <1>4, <1>5
  <2>5. Noted(more) = Noted(cmds)
    <3>1. CASE u > p
      <4>1. Noted(cmds) = cmds[u].arg.word
        BY <1>8, <3>1, Zenon
      <4>2. more[u] = cmds[u]
        BY <1>4, <1>5, <2>2, <3>1
      <4>3. Noted(more) = more[u].arg.word
        BY <1>9, <2>1, <3>1, Zenon
      <4> QED
        BY <4>1, <4>2, <4>3
    <3>2. CASE ~(u > p)
      BY <1>8, <1>9, <2>1, <3>2, Zenon
    <3> QED
      BY <3>1, <3>2
  <2>6. Authorised(more) <=> Authorised(cmds)
    BY <1>4, <1>5, <1>1, <1>6, <1>7, <2>1, <2>2, <2>3, <2>4
  <2> QED
    BY <1>12, <2>5, <2>6 DEF more
<1> QED
  BY <1>10, <1>11, <1>12 DEF more

(* What has been said before is not changed by one command more.           *)
LEMMA SaidBefore ==
  ASSUME NEW cmds \in Seq(Commands), NEW k \in Commands, NEW i \in 0 .. Len(cmds)
  PROVE  SubSeq(Append(cmds, k), 1, i) = SubSeq(cmds, 1, i)
<1>1. Append(cmds, k) \in Seq(Commands) /\ Len(Append(cmds, k)) = Len(cmds) + 1
      /\ \A j \in 1 .. Len(cmds) : Append(cmds, k)[j] = cmds[j]
  BY Said1
<1> DEFINE more == Append(cmds, k)
<1>2. \A j \in 1 .. i : more[j] = cmds[j]
  BY <1>1
<1> HIDE DEF more
<1>3. Len(cmds) \in Nat /\ more \in Seq(Commands) /\ Len(more) = Len(cmds) + 1
  BY <1>1 DEF more
<1>4. SubSeq(more, 1, i) = [j \in 1 .. i |-> more[j]]
  BY <1>3
<1>5. SubSeq(cmds, 1, i) = [j \in 1 .. i |-> cmds[j]]
  BY <1>3
<1> QED
  BY <1>2, <1>4, <1>5 DEF more

(* How one command more changes what file is to be renamed.                *)
LEMMA LastHeardNext ==
  ASSUME NEW cmds \in Seq(Commands), NEW k \in Commands
  PROVE  /\ LastHeard(cmds) \in 0 .. Len(cmds)
         /\ LastHeard(Append(cmds, k)) = IF k.cmd = "RNFR" /\ Authorised(cmds)
                                         THEN Len(cmds) + 1 ELSE LastHeard(cmds)
<1> DEFINE n == Len(cmds)
           more == Append(cmds, k)
           T == {i \in DOMAIN cmds : cmds[i].cmd = "RNFR" /\ Authorised(SubSeq(cmds, 1, i - 1))}
           Z == {i \in DOMAIN more : more[i].cmd = "RNFR" /\ Authorised(SubSeq(more, 1, i - 1))}
           heard == k.cmd = "RNFR" /\ Authorised(cmds)
<1>1. n \in Nat /\ DOMAIN cmds = 1 .. n /\ DOMAIN more = 1 .. n + 1 /\ more[n + 1] = k
      /\ \A i \in 1 .. n : more[i] = cmds[i]
  BY Said1
<1>2. T \subseteq 1 .. n
  BY <1>1
<1>3. LastHeard(cmds) = Max({0} \cup T) /\ LastHeard(more) = Max({0} \cup Z)
  BY Zenon DEF LastHeard
<1>4. \A i \in 1 .. n + 1 : SubSeq(more, 1, i - 1) = SubSeq(cmds, 1, i - 1)
  <2>1. ASSUME NEW i \in 1 .. n + 1 PROVE SubSeq(more, 1, i - 1) = SubSeq(cmds, 1, i - 1)
    <3>1. i - 1 \in 0 .. n
      BY <1>1
    <3> QED
      BY <3>1, SaidBefore
  <2> QED
    BY <2>1
<1>5. SubSeq(cmds, 1, n) = cmds
  OBVIOUS
<1>6. Z = IF heard THEN T \cup {n + 1} ELSE T
  <2> HIDE DEF more, n
  <2>1. \A i \in 1 .. n + 1 : i \in 1 .. n \/ i = n + 1
    BY <1>1
  <2>2. 1 .. n \subseteq 1 .. n + 1 /\ n + 1 \in 1 .. n + 1 /\ n + 1 \notin 1 .. n /\ (n + 1) - 1 = n
    BY <1>1
  <2>3. \A i : i \in Z <=> i \in T \/ (i = n + 1 /\ heard)
    <3>1. ASSUME NEW i \in 1 .. n PROVE i \in Z <=> i \in T
      BY <1>1, <1>4, <2>2, <3>1
    <3>2. n + 1 \in Z <=> heard
      BY <1>1, <1>4, <1>5, <2>2
    <3>3. \A i : (i \in Z => i \in 1 .. n + 1) /\ (i \in T => i \in 1 .. n)
      BY <1>1
    <3> HIDE DEF Z, T, heard
    <3> QED
      BY <2>1, <2>2, <3>1, <3>2, <3>3
  <2> HIDE DEF Z, T, heard
  <2>4. CASE heard
    BY <2>3, <2>4
  <2>5. CASE ~heard
    BY <2>3, <2>5
  <2> QED
    BY <2>4, <2>5
<1> HIDE DEF Z, T, more, heard
<1>7. Max({0} \cup T) \in 0 .. n
  BY <1>1, <1>2, LastIn
<1>8. Max({0} \cup (T \cup {n + 1})) = n + 1
  BY <1>1, <1>2, LastAdded
<1>9. LastHeard(more) = IF heard THEN n + 1 ELSE LastHeard(cmds)
  BY <1>3, <1>6, <1>8
<1> QED
  BY <1>3, <1>7, <1>9 DEF n, more, heard

-----------------------------------------------------------------------------
(* The commands of a client: it sends one at a time, and the server works  *)
(* on the one that was sent last.                                          *)

ScriptsKept == \E s \in Scripts : \A c \in Clients : clients[c].script = s[c]

Counted(c) ==
  LET r == clients[c]
  IN /\ r.handled <= r.sent /\ r.sent <= r.handled + 1
     /\ r.unread => r.sent = r.handled + 1
     /\ r.state \in {"out", "calling"} => r.sent = 0

AtWork ==
  Working =>
    LET r == clients[me.client]
    IN /\ ~r.unread /\ r.sent = r.handled + 1
       /\ cmd.cmd = r.script[r.sent].cmd /\ cmd.arg = r.script[r.sent].arg

CommandsInv == ScriptsKept /\ (\A c \in Clients : Counted(c)) /\ AtWork

(* The client of the command is done with it, or the command goes on.      *)
GoesOn == SameCommands /\ UNCHANGED <<cmd, sessions>> /\ Working'

(* What every step of a command comes to; only the transfer to a client    *)
(* gives it something.                                                     *)
Delivers == readRecord \/ readError \/ endRETR \/ endList

LEMMA CommandSteps ==
  ASSUME TypeInv, processSingleCmd \/ readError
  PROVE  Working /\ (Done \/ GoesOn) /\ (SameGot \/ Delivers)
<1>1. CASE cmdUSER \/ cmdPASS \/ onlyReply \/ cmdCWD \/ cmdTYPE \/ cmdDELE \/ cmdRNFR \/ cmdRNTO
  <2>1. SimpleStep
    BY <1>1, SimpleUSER, SimplePASS, SimpleOnlyReply, SimpleCWD, SimpleTYPE, SimpleDELE, SimpleRNFR,
       SimpleRNTO
  <2> QED
    BY <2>1, FinishedDone DEF SimpleStep, Working
<1>2. CASE cmdPASV
  <2>1. Working
    BY <1>2 DEF cmdPASV, Is, Working
  <2>2. \E codes : Finish(codes)
    BY <1>2, Zenon DEF cmdPASV
  <2> QED
    BY <2>1, <2>2, Finishes, FinishedDone
<1>3. CASE cmdQUIT \/ cmdPORT
  <2>1. Working /\ ((\E codes : Finish(codes)) \/ \E codes : FinishFrom(Unqueued(me.client), codes))
    BY <1>3, Zenon DEF cmdQUIT, cmdPORT, Is, Working
  <2> QED
    BY <2>1, Finishes, FinishesUnqueued, FinishedDone
<1>4. CASE cmdRETR \/ cmdSTOR
  <2>1. pc = "cmd"
    BY <1>4 DEF cmdRETR, cmdSTOR, Is
  <2>2. \/ \E code : refuse(code)
        \/ openError
        \/ pc' = "connect" /\ Preliminary(<<150>>) /\ UNCHANGED <<sessions, cmd>>
    BY <1>4, Zenon DEF cmdRETR, cmdSTOR
  <2>3. CASE (\E code : refuse(code)) \/ openError
    BY <2>1, <2>3, SimpleRefuse, SimpleOpenError, FinishedDone DEF SimpleStep, Working
  <2>4. CASE pc' = "connect" /\ Preliminary(<<150>>) /\ UNCHANGED <<sessions, cmd>>
    BY <2>1, <2>4, PreliminarySame DEF GoesOn, Working
  <2> QED
    BY <2>2, <2>3, <2>4
<1>5. CASE cmdList
  <2>1. pc = "cmd" /\ Working
    BY <1>5 DEF cmdList, Is, Working
  <2>2. ASSUME NEW codes, Finish(codes) PROVE Done /\ SameGot
    BY <2>1, <2>2, Finishes, FinishedDone
  <2>3. ASSUME NEW e, NEW name, NEW conn, Lists(e, name, conn) PROVE GoesOn /\ SameGot
    BY <2>1, <2>3, PreliminarySame DEF Lists, GoesOn, Working
  <2> QED
    BY <1>5, <2>1, <2>2, <2>3, ListSteps
<1>6. CASE loopInPath
  BY <1>6, SameIfUnchanged DEF loopInPath, simple, GoesOn, Working
<1>7. CASE openDataConnection
  <2>1. Working
    BY <1>7 DEF openDataConnection, Working
  <2>2. ASSUME NEW code, NotConnected(code) PROVE Done /\ SameGot
    BY <2>1, <2>2, Finishes, FinishedDone DEF NotConnected
  <2>3. ASSUME NEW n, NEW conn, Connected(n, conn), SameCommands, SameGot PROVE GoesOn /\ SameGot
    BY <2>3 DEF Connected, GoesOn, Working
  <2> QED
    BY <1>7, <2>1, <2>2, <2>3, OpenDataSteps
<1>8. CASE readRecord \/ readError
  <2>1. Working /\ Working' /\ UNCHANGED <<cmd, sessions>>
    BY <1>8 DEF readRecord, readError, Here, Working, copying
  <2>2. \/ \E b : clients' = Got(b)
        \/ \E b : \E code : clients' = [Got(b) EXCEPT ![me.client].replies = Append(@, code)]
    <3>1. CASE readRecord
      BY <3>1, Zenon DEF readRecord
    <3>2. CASE readError
      BY <3>2, ReadErrorClients
    <3> QED
      BY <1>8, <3>1, <3>2
  <2> QED
    BY <2>1, <2>2, <1>8, GotSame DEF GoesOn, Delivers
<1>9. CASE recvChunk
  <2>1. Working /\ Working' /\ UNCHANGED <<cmd, sessions>>
    BY <1>9 DEF recvChunk, Here, Working, copying
  <2>2. \E codes : Preliminary(codes)
    BY <1>9, Zenon DEF recvChunk
  <2> QED
    BY <2>1, <2>2, PreliminarySame DEF GoesOn
<1>10. CASE endRETR \/ endSTOR \/ endList
  <2>1. Working
    BY <1>10 DEF endRETR, endSTOR, endList, Here, Working
  <2>2. \E cls, codes : endTransfer(cls, codes) /\ (cls = clients \/ \E b : cls = Got(b))
    BY <1>10, Endings
  <2>3. Done
    BY <2>1, <2>2, EndsTransfer
  <2>4. CASE endSTOR
    <3>1. \E codes : Finish(codes)
      BY <2>4, Zenon DEF endSTOR, endTransfer, Finish
    <3> QED
      BY <2>1, <3>1, Finishes, FinishedDone
  <2> QED
    BY <1>10, <2>1, <2>3, <2>4 DEF Delivers
<1> QED
  BY <1>1, <1>2, <1>3, <1>4, <1>5, <1>6, <1>7, <1>8, <1>9, <1>10 DEF processSingleCmd

(* Steps of a client outside are steps of that client alone.               *)
LEMMA ClientActs ==
  ASSUME TypeInv, NEW c \in Clients, call(c) \/ beginCommand(c) \/ sendCommand(c) \/ leave(c) \/ dial(c)
  PROVE  /\ \A d \in Clients : d # c => clients'[d] = clients[d]
         /\ clients'[c].script = clients[c].script /\ clients'[c].handled = clients[c].handled
         /\ clients'[c].state \in {"out", "calling"} => clients[c].state \in {"out", "calling"}
         /\ \/ /\ sendCommand(c) /\ clients[c].state = "on" /\ clients[c].handled = clients[c].sent
               /\ clients'[c].sent = clients[c].sent + 1 /\ clients'[c].unread /\ clients'[c].got = <<>>
               /\ clients'[c].state = "on"
            \/ UNCHANGED <<clients[c].sent, clients[c].unread, clients[c].got>>
<1>1. clients[c] \in Client /\ clients \in [Clients -> Client]
  BY DEF TypeInv, ClientsType
<1> DEFINE Acts(q) ==
      /\ q.script = clients[c].script /\ q.handled = clients[c].handled
      /\ q.state \in {"out", "calling"} => clients[c].state \in {"out", "calling"}
      /\ \/ /\ sendCommand(c) /\ clients[c].state = "on" /\ clients[c].handled = clients[c].sent
            /\ q.sent = clients[c].sent + 1 /\ q.unread /\ q.got = <<>> /\ q.state = "on"
         \/ q.sent = clients[c].sent /\ q.unread = clients[c].unread /\ q.got = clients[c].got
<1>2. \E q : clients' = [clients EXCEPT ![c] = q] /\ Acts(q)
  <2>1. CASE call(c)
    <3> DEFINE q == [clients[c] EXCEPT !.state = "calling"]
    <3>1. clients' = [clients EXCEPT ![c] = q] /\ clients[c].state = "out"
      BY <1>1, <2>1 DEF call
    <3>2. Acts(q)
      BY <1>1, <3>1 DEF Client
    <3> HIDE DEF q, Acts
    <3> QED
      BY <3>1, <3>2
  <2>5. CASE beginCommand(c)
    <3> DEFINE q == [clients[c] EXCEPT !.begun = TRUE]
    <3>1. clients' = [clients EXCEPT ![c] = q]
      BY <1>1, <2>5 DEF beginCommand
    <3>2. Acts(q)
      BY <1>1 DEF Client
    <3> HIDE DEF q, Acts
    <3> QED
      BY <3>1, <3>2
  <2>2. CASE sendCommand(c)
    <3> DEFINE q == [clients[c] EXCEPT !.sent = @ + 1, !.begun = FALSE, !.unread = TRUE,
                                       !.replies = <<>>, !.got = <<>>]
    <3>1. clients' = [clients EXCEPT ![c] = q]
      BY <1>1, <2>2 DEF sendCommand
    <3>2. clients[c].state = "on" /\ clients[c].handled = clients[c].sent
      BY <2>2 DEF sendCommand, HasNext, Between
    <3>3. Acts(q)
      BY <1>1, <2>2, <3>2 DEF Client
    <3> HIDE DEF q, Acts
    <3> QED
      BY <3>1, <3>3
  <2>3. CASE leave(c)
    <3> DEFINE q == [clients[c] EXCEPT !.state = "gone"]
    <3>1. clients' = [clients EXCEPT ![c] = q]
      BY <1>1, <2>3 DEF leave
    <3>2. Acts(q)
      BY <1>1 DEF Client
    <3> HIDE DEF q, Acts
    <3> QED
      BY <3>1, <3>2
  <2>4. CASE dial(c)
    <3> DEFINE k == IF Between(c) THEN clients[c].sent + 1 ELSE clients[c].sent
               w == Append(clients[c].queued, k)
               q == [clients[c] EXCEPT !.dialed = k, !.queued = w]
    <3>1. clients' = [clients EXCEPT ![c].dialed = k, ![c].queued = Append(@, k)]
      BY <2>4, Zenon DEF dial
    <3>2. clients' = [clients EXCEPT ![c] = q]
      BY <1>1, <3>1
    <3> HIDE DEF w, k
    <3>3. Acts(q)
      BY <1>1 DEF Client
    <3> HIDE DEF q, Acts
    <3> QED
      BY <3>2, <3>3
  <2> HIDE DEF Acts
  <2> QED
    BY <2>1, <2>2, <2>3, <2>4, <2>5
<1>3. PICK q : clients' = [clients EXCEPT ![c] = q] /\ Acts(q)
  BY <1>2
<1>4. clients'[c] = q /\ \A d \in Clients : d # c => clients'[d] = clients[d]
  BY <1>1, <1>3
<1> QED
  BY <1>3, <1>4

(* The commands and scripts are as they were.                              *)
LEMMA CommandsSame ==
  ASSUME TypeInv, CommandsInv,
         \A c \in Clients :
           /\ clients'[c].script = clients[c].script /\ clients'[c].handled = clients[c].handled
           /\ clients'[c].sent = clients[c].sent /\ clients'[c].unread = clients[c].unread
           /\ clients'[c].state \in {"out", "calling"} => clients[c].state \in {"out", "calling"},
         ~Working' \/ (Working /\ UNCHANGED <<cmd, sessions>>)
  PROVE  CommandsInv'
<1>1. ScriptsKept'
  BY DEF CommandsInv, ScriptsKept
<1>2. \A c \in Clients : Counted(c)'
  BY DEF CommandsInv, Counted
<1>3. AtWork'
  <2>1. CASE ~Working'
    BY <2>1 DEF AtWork
  <2>2. CASE Working /\ UNCHANGED <<cmd, sessions>>
    <3>1. UNCHANGED me /\ me.client \in Clients
      BY <2>2, MeType DEF me, SessionAt
    <3> QED
      BY <2>2, <3>1 DEF AtWork, CommandsInv
  <2> QED
    BY <2>1, <2>2
<1> QED
  BY <1>1, <1>2, <1>3 DEF CommandsInv

LEMMA CommandsOfCommand ==
  ASSUME TypeInv, CommandsInv, processSingleCmd \/ readError PROVE CommandsInv'
<1>1. Working /\ (Done \/ GoesOn)
  BY CommandSteps
<1>2. CASE GoesOn
  BY <1>1, <1>2, CommandsSame DEF GoesOn, SameCommands
<1>3. CASE Done
  <2>1. ~Working' /\ ScriptsKept'
    BY <1>3 DEF Done, Working, ScriptsKept, CommandsInv
  <2>2. me.client \in Clients /\ \A c \in Clients : clients[c] \in Client
    BY <1>1, MeType DEF TypeInv, ClientsType
  <2>3. ~clients[me.client].unread /\ clients[me.client].sent = clients[me.client].handled + 1
    BY <1>1 DEF CommandsInv, AtWork
  <2>4. ASSUME NEW c \in Clients PROVE Counted(c)'
    <3>1. Counted(c) /\ clients[c].sent \in Nat /\ clients[c].handled \in Nat
      BY <2>2 DEF CommandsInv, Client
    <3>2. CASE c = me.client
      BY <1>3, <2>3, <3>1, <3>2 DEF Counted, Done
    <3>3. CASE c # me.client
      BY <1>3, <3>1, <3>3 DEF Counted, Done
    <3> QED
      BY <3>2, <3>3
  <2> QED
    BY <2>1, <2>4 DEF CommandsInv, AtWork
<1> QED
  BY <1>1, <1>2, <1>3

LEMMA CommandsOfClients ==
  ASSUME TypeInv, CommandsInv, NEW c \in Clients,
         call(c) \/ beginCommand(c) \/ sendCommand(c) \/ leave(c) \/ dial(c)
  PROVE  CommandsInv'
<1>1. UNCHANGED <<cmd, sessions, pc>>
  BY DEF call, beginCommand, sendCommand, leave, dial, serverSide
<1>2. UNCHANGED me /\ Working' = Working
  BY <1>1 DEF me, SessionAt, Working
<1>3. /\ \A d \in Clients : d # c => clients'[d] = clients[d]
      /\ clients'[c].script = clients[c].script /\ clients'[c].handled = clients[c].handled
      /\ clients'[c].state \in {"out", "calling"} => clients[c].state \in {"out", "calling"}
      /\ \/ /\ clients[c].state = "on" /\ clients[c].handled = clients[c].sent
            /\ clients'[c].sent = clients[c].sent + 1 /\ clients'[c].unread /\ clients'[c].state = "on"
         \/ UNCHANGED <<clients[c].sent, clients[c].unread>>
  BY ClientActs
<1>4. CASE UNCHANGED <<clients[c].sent, clients[c].unread>>
  <2>1. ASSUME NEW d \in Clients
        PROVE  /\ clients'[d].script = clients[d].script /\ clients'[d].handled = clients[d].handled
               /\ clients'[d].sent = clients[d].sent /\ clients'[d].unread = clients[d].unread
               /\ clients'[d].state \in {"out", "calling"} => clients[d].state \in {"out", "calling"}
    BY <1>3, <1>4
  <2> QED
    BY <1>1, <1>2, <2>1, CommandsSame
<1>5. CASE /\ clients[c].state = "on" /\ clients[c].handled = clients[c].sent
           /\ clients'[c].sent = clients[c].sent + 1 /\ clients'[c].unread /\ clients'[c].state = "on"
  <2>1. ScriptsKept'
    <3>1. \A d \in Clients : clients'[d].script = clients[d].script
      BY <1>3
    <3> QED
      BY <3>1 DEF CommandsInv, ScriptsKept
  <2>2. ASSUME NEW d \in Clients PROVE Counted(d)'
    <3>1. Counted(d) /\ clients[d] \in Client
      BY DEF CommandsInv, TypeInv, ClientsType
    <3>2. CASE d = c
      BY <1>3, <1>5, <3>1, <3>2 DEF Counted, Client
    <3>3. CASE d # c
      BY <1>3, <3>1, <3>3 DEF Counted
    <3> QED
      BY <3>2, <3>3
  <2>3. AtWork'
    <3>1. CASE Working
      <4>1. me.client \in Clients /\ clients[me.client].sent = clients[me.client].handled + 1
        BY <3>1, MeType DEF CommandsInv, AtWork
      <4>2. clients[c].sent \in Nat
        BY DEF TypeInv, ClientsType, Client
      <4>3. me.client # c
        BY <1>5, <4>1, <4>2
      <4>4. clients'[me.client] = clients[me.client]
        BY <1>3, <4>1, <4>3
      <4> QED
        BY <1>1, <1>2, <3>1, <4>4 DEF CommandsInv, AtWork
    <3>2. CASE ~Working
      BY <1>2, <3>2 DEF AtWork
    <3> QED
      BY <3>1, <3>2
  <2> QED
    BY <2>1, <2>2, <2>3 DEF CommandsInv
<1> QED
  BY <1>3, <1>4, <1>5

(* Two sessions never have the same socket.                                *)
LEMMA OneSession ==
  ASSUME TypeInv, OwnInv, pc # "ended", NEW i \in DOMAIN sessions, NEW j \in DOMAIN sessions,
         sessions[i].ctlSocket = sessions[j].ctlSocket
  PROVE  i = j
<1>1. SessionOwned(i) /\ SessionOwned(j)
  BY DEF OwnInv, SocketInv
<1>2. sessions[i].client = sessions[j].client
  BY <1>1 DEF SessionOwned
<1> QED
  BY <1>2 DEF OwnInv, SessionsInv

(* The server takes up the command its client has sent.                    *)
LEMMA TakesUp ==
  ASSUME TypeInv, OwnInv, getCtlLine
  PROVE  /\ Working' /\ UNCHANGED sessions /\ me' = NextUp /\ NextUp.client \in Clients
         /\ cmd'.cmd = Current(NextUp.client).cmd /\ cmd'.arg = Current(NextUp.client).arg
         /\ clients[NextUp.client].unread /\ ~clients'[NextUp.client].unread
         /\ \A c \in Clients :
              /\ clients'[c].script = clients[c].script /\ clients'[c].handled = clients[c].handled
              /\ clients'[c].sent = clients[c].sent /\ clients'[c].state = clients[c].state
              /\ clients'[c].got = clients[c].got
              /\ c # NextUp.client => clients'[c].unread = clients[c].unread
<1>1. pc = "serve" /\ round.todo # {} /\ pc' = "cmd" /\ UNCHANGED sessions
  BY DEF getCtlLine, program
<1>2. PICK i \in DOMAIN sessions : NextUp = sessions[i]
  BY <1>1, NextUpIs, SessionIs
<1>3. cmd' = [cmd |-> Current(NextUp.client).cmd, arg |-> Current(NextUp.client).arg,
              h |-> NextUp.ctlSocket]
      /\ clients[NextUp.client].unread
      /\ clients' = [clients EXCEPT ![NextUp.client].unread = FALSE]
  BY DEF getCtlLine
<1>4. me' = NextUp
  <2> DEFINE k == CHOOSE k \in DOMAIN sessions : sessions[k].ctlSocket = NextUp.ctlSocket
  <2>1. k \in DOMAIN sessions /\ sessions[k].ctlSocket = NextUp.ctlSocket
    BY <1>2
  <2>2. cmd'.h = NextUp.ctlSocket
    BY <1>3
  <2>3. me' = sessions[k]
    BY <1>1, <2>2 DEF me, SessionAt
  <2> HIDE DEF k
  <2>4. k = i
    BY <1>1, <1>2, <2>1, OneSession
  <2> QED
    BY <1>2, <2>3, <2>4
<1>5. NextUp.client \in Clients /\ clients \in [Clients -> Client]
  BY <1>1, NextUpIs DEF TypeInv, ClientsType
<1> DEFINE c == NextUp.client
           q == [clients[c] EXCEPT !.unread = FALSE]
<1>6. clients' = [clients EXCEPT ![c] = q]
  BY <1>3, <1>5
<1>7. /\ q.script = clients[c].script /\ q.handled = clients[c].handled /\ q.sent = clients[c].sent
      /\ q.state = clients[c].state /\ q.got = clients[c].got /\ q.unread = FALSE
  BY <1>5 DEF Client
<1> HIDE DEF c, q
<1>8. clients'[c] = q /\ \A d \in Clients : d # c => clients'[d] = clients[d]
  BY <1>5, <1>6 DEF c
<1>9. ASSUME NEW d \in Clients
      PROVE  /\ clients'[d].script = clients[d].script /\ clients'[d].handled = clients[d].handled
             /\ clients'[d].sent = clients[d].sent /\ clients'[d].state = clients[d].state
             /\ clients'[d].got = clients[d].got
             /\ d # c => clients'[d].unread = clients[d].unread
  <2>1. CASE d = c
    BY <1>7, <1>8, <2>1
  <2>2. CASE d # c
    BY <1>8, <2>2
  <2> QED
    BY <2>1, <2>2
<1> QED
  BY <1>1, <1>3, <1>4, <1>5, <1>7, <1>8, <1>9 DEF Working, c

LEMMA CommandsOfGetCtlLine == ASSUME TypeInv, OwnInv, CommandsInv, getCtlLine PROVE CommandsInv'
<1> DEFINE c == NextUp.client
<1>1. /\ Working' /\ me' = NextUp /\ c \in Clients
      /\ cmd'.cmd = Current(c).cmd /\ cmd'.arg = Current(c).arg
      /\ clients[c].unread /\ ~clients'[c].unread
      /\ \A d \in Clients :
           /\ clients'[d].script = clients[d].script /\ clients'[d].handled = clients[d].handled
           /\ clients'[d].sent = clients[d].sent /\ clients'[d].state = clients[d].state
           /\ d # c => clients'[d].unread = clients[d].unread
  BY TakesUp
<1>2. ScriptsKept'
  BY <1>1 DEF CommandsInv, ScriptsKept
<1>3. me'.client = c
  BY <1>1
<1> HIDE DEF c
<1>4. \A d \in Clients : Counted(d)'
  BY <1>1 DEF CommandsInv, Counted
<1>5. clients[c].sent = clients[c].handled + 1
  BY <1>1 DEF CommandsInv, Counted
<1>6. AtWork'
  BY <1>1, <1>3, <1>5 DEF AtWork, Current
<1> QED
  BY <1>2, <1>4, <1>6 DEF CommandsInv

(* What becomes of the clients when a connection is accepted, or none can  *)
(* be any more.                                                            *)
LEMMA AcceptedClients ==
  ASSUME TypeInv, acceptClient
  PROVE  ~Working' /\ \A c \in Clients :
           /\ clients'[c].script = clients[c].script /\ clients'[c].handled = clients[c].handled
           /\ clients'[c].sent = clients[c].sent /\ clients'[c].unread = clients[c].unread
           /\ clients'[c].state \in {"out", "calling"} => clients[c].state \in {"out", "calling"}
           /\ clients'[c].got = clients[c].got
<1>1. ~Working'
  BY DEF acceptClient, sock_shutdown, Working
<1>2. clients \in [Clients -> Client]
  BY DEF TypeInv, ClientsType
<1>3. \/ UNCHANGED clients
      \/ \E c \in Clients : clients' = [clients EXCEPT ![c].state = "on", ![c].replies = <<220>>]
      \/ clients' = [c \in Clients |-> IF clients[c].state = "calling"
                                       THEN [clients[c] EXCEPT !.state = "gone"] ELSE clients[c]]
  BY Zenon DEF acceptClient
<1>4. ASSUME NEW c \in Clients, clients' = [clients EXCEPT ![c].state = "on", ![c].replies = << 220 >>],
             NEW d \in Clients
      PROVE  /\ clients'[d].script = clients[d].script /\ clients'[d].handled = clients[d].handled
             /\ clients'[d].sent = clients[d].sent /\ clients'[d].unread = clients[d].unread
             /\ clients'[d].state \in {"out", "calling"} => clients[d].state \in {"out", "calling"}
             /\ clients'[d].got = clients[d].got
  <2> DEFINE q == [clients[c] EXCEPT !.state = "on", !.replies = <<220>>]
  <2>1. clients' = [clients EXCEPT ![c] = q]
    BY <1>2, <1>4
  <2>2. /\ q.script = clients[c].script /\ q.handled = clients[c].handled /\ q.sent = clients[c].sent
        /\ q.state = "on" /\ q.got = clients[c].got /\ q.unread = clients[c].unread
    BY <1>2 DEF Client
  <2> HIDE DEF q
  <2>3. clients'[c] = q /\ (d # c => clients'[d] = clients[d])
    BY <1>2, <2>1
  <2> QED
    BY <2>2, <2>3
<1>5. ASSUME clients' = [c \in Clients |-> IF clients[c].state = "calling"
                                  THEN [clients[c] EXCEPT !.state = "gone"] ELSE clients[c]],
             NEW d \in Clients
      PROVE  /\ clients'[d].script = clients[d].script /\ clients'[d].handled = clients[d].handled
             /\ clients'[d].sent = clients[d].sent /\ clients'[d].unread = clients[d].unread
             /\ clients'[d].state \in {"out", "calling"} => clients[d].state \in {"out", "calling"}
             /\ clients'[d].got = clients[d].got
  <2>1. clients'[d] = clients[d] \/ clients'[d] = [clients[d] EXCEPT !.state = "gone"]
    BY <1>5
  <2> QED
    BY <1>2, <2>1 DEF Client
<1> QED
  BY <1>1, <1>3, <1>4, <1>5

LEMMA CommandsNext == ASSUME TypeInv, OwnInv, CommandsInv, [FtpNext]_ftpVars PROVE CommandsInv'
<1> DEFINE Same ==
      \A c \in Clients :
        /\ clients'[c].script = clients[c].script /\ clients'[c].handled = clients[c].handled
        /\ clients'[c].sent = clients[c].sent /\ clients'[c].unread = clients[c].unread
        /\ clients'[c].state \in {"out", "calling"} => clients[c].state \in {"out", "calling"}
<1>1. CASE main
  <2>1. CASE boot \/ waitForSocket \/ noAccept \/ endRound
    <3>1. ~Working' /\ UNCHANGED clients
      BY <2>1 DEF boot, waitForSocket, noAccept, endRound, sock_shutdown, Working
    <3> QED
      BY <3>1, CommandsSame
  <2>2. CASE acceptClient
    BY <2>2, AcceptedClients, CommandsSame
  <2>3. CASE lostCtl
    <3>1. pc = "serve" /\ round.todo # {} /\ clients' = Unqueued(NextUp.client) /\ ~Working'
      BY <2>3 DEF lostCtl, Working
    <3>2. NextUp.client \in Clients
      BY <3>1, NextUpIs
    <3>3. \A d \in Clients : clients'[d] = IF d = NextUp.client
                                           THEN [clients[d] EXCEPT !.queued = <<>>] ELSE clients[d]
      BY <3>1, <3>2, UnqueuedType DEF TypeInv
    <3>4. Same
      <4>1. ASSUME NEW d \in Clients
            PROVE  clients'[d] = clients[d] \/ clients'[d] = [clients[d] EXCEPT !.queued = <<>>]
        BY <3>3
      <4>2. \A d \in Clients : clients[d] \in Client
        BY DEF TypeInv, ClientsType
      <4> QED
        BY <4>1, <4>2 DEF Client
    <3> QED
      BY <3>1, <3>4, CommandsSame
  <2> QED
    BY <1>1, <2>1, <2>2, <2>3, CommandsOfGetCtlLine, CommandsOfCommand DEF main
<1>2. CASE clientSteps \/ \E c \in Clients : dial(c)
  BY <1>2, CommandsOfClients DEF clientSteps
<1>3. CASE readError
  BY <1>3, CommandsOfCommand
<1>4. CASE terminate
  <2>1. ~Working' /\ UNCHANGED clients
    BY <1>4 DEF terminate, sock_shutdown, Working
  <2> QED
    BY <2>1, CommandsSame
<1>5. CASE loseData \/ UNCHANGED ftpVars
  <2>1. UNCHANGED <<clients, cmd, sessions, pc>>
    BY <1>5 DEF loseData, ftpVars, program, watch
  <2>2. Working' = Working
    BY <2>1 DEF Working
  <2> QED
    BY <2>1, <2>2, CommandsSame
<1> QED
  BY <1>1, <1>2, <1>3, <1>4, <1>5 DEF FtpNext

LEMMA CommandsInit == ASSUME FtpInit PROVE CommandsInv
<1>1. ~Working
  BY DEF FtpInit, Working
<1>2. PICK s \in Scripts : clients = [c \in Clients |->
         [script |-> s[c], state |-> "out", sent |-> 0, begun |-> FALSE, unread |-> FALSE,
          handled |-> 0, replies |-> <<>>, queued |-> <<>>, dialed |-> 0, got |-> <<>>]]
  BY DEF FtpInit
<1>3. ScriptsKept /\ \A c \in Clients : Counted(c)
  BY <1>2 DEF ScriptsKept, Counted
<1> QED
  BY <1>1, <1>3 DEF CommandsInv, AtWork

(* The server works on each command once, in the order they were sent, and *)
(* on none that was not sent: what is at work is the last one sent.        *)
THEOREM CommandsHold == FtpSpec => []CommandsInv
<1>1. FtpInit => CommandsInv
  BY CommandsInit
<1>2. TypeInv /\ OwnInv /\ CommandsInv /\ [FtpNext]_ftpVars => CommandsInv'
  BY CommandsNext
<1> QED
  BY <1>1, <1>2, TypesHold, OwnersHold, PTL DEF FtpSpec

-----------------------------------------------------------------------------
(* What a session knows of its client is what the client has said.         *)

Heard(s, said) ==
  /\ s.loggedIn <=> Authorised(said)
  /\ reqPwd => s.notedUser = Noted(said)
  /\ s.renameDiskIdx # Root => /\ LastHeard(said) > 0
                               /\ s.renameFrom = said[LastHeard(said)].arg.name

AuthInv == \A i \in DOMAIN sessions : Heard(sessions[i], Said(sessions[i].client))

(* The same client, known as the same.                                     *)
SameLogin(s, t) ==
  /\ s.client = t.client /\ s.loggedIn = t.loggedIn /\ s.notedUser = t.notedUser
  /\ s.renameDiskIdx = Root \/ (s.renameDiskIdx = t.renameDiskIdx /\ s.renameFrom = t.renameFrom)

LEMMA SaidIs ==
  ASSUME TypeInv, CommandsInv, NEW c \in Clients
  PROVE  /\ Said(c) \in Seq(Commands) /\ Len(Said(c)) = clients[c].handled
         /\ clients[c].script \in Seq(Commands) /\ clients[c].handled \in Nat
         /\ clients[c].handled <= Len(clients[c].script)
<1>1. clients[c] \in Client /\ clients[c].sent <= Len(clients[c].script)
  BY DEF TypeInv, ClientsType
<1>2. clients[c].script \in Seq(Commands) /\ clients[c].handled \in Nat /\ clients[c].sent \in Nat
  BY <1>1 DEF Client
<1>3. clients[c].handled <= clients[c].sent
  BY DEF CommandsInv, Counted
<1>4. clients[c].handled <= Len(clients[c].script)
  BY <1>1, <1>2, <1>3
<1> DEFINE s == clients[c].script
           h == clients[c].handled
<1>5. SubSeq(s, 1, h) \in Seq(Commands) /\ Len(SubSeq(s, 1, h)) = h
  <2>1. s \in Seq(Commands) /\ h \in 0 .. Len(s)
    BY <1>2, <1>4
  <2> HIDE DEF s, h
  <2> QED
    BY <2>1
<1> QED
  BY <1>2, <1>4, <1>5 DEF Said

LEMMA SaidSame ==
  ASSUME NEW c, clients'[c].script = clients[c].script, clients'[c].handled = clients[c].handled
  PROVE  Said(c)' = Said(c)
BY DEF Said

(* The command at work is the next to have been said.                      *)
AtHand == clients[me.client].script[clients[me.client].sent]

LEMMA SaidMore ==
  ASSUME TypeInv, CommandsInv, Working, Done
  PROVE  /\ AtHand \in Commands /\ AtHand.cmd = cmd.cmd /\ AtHand.arg = cmd.arg
         /\ Said(me.client) \in Seq(Commands)
         /\ \A c \in Clients : Said(c)' = IF c = me.client THEN Append(Said(c), AtHand)
                                                           ELSE Said(c)
<1> DEFINE s == clients[me.client].script
           h == clients[me.client].handled
<1>1. me.client \in Clients /\ clients[me.client].sent <= Len(s)
  BY MeType DEF TypeInv, ClientsType
<1>2. clients[me.client].sent = h + 1 /\ cmd.cmd = s[h + 1].cmd /\ cmd.arg = s[h + 1].arg
  BY DEF CommandsInv, AtWork
<1>3. s \in Seq(Commands) /\ h \in Nat /\ Said(me.client) \in Seq(Commands)
  BY <1>1, SaidIs
<1>4. h + 1 \in 1 .. Len(s)
  BY <1>1, <1>2, <1>3
<1>5. AtHand = s[h + 1] /\ AtHand \in Commands
  BY <1>2, <1>3, <1>4 DEF AtHand
<1>6. clients'[me.client].script = s /\ clients'[me.client].handled = h + 1
  BY <1>1 DEF Done
<1>7. SubSeq(s, 1, h + 1) = Append(SubSeq(s, 1, h), s[h + 1])
  <2> HIDE DEF s, h
  <2> QED
    BY <1>3, <1>4
<1>8. ASSUME NEW c \in Clients, c = me.client PROVE Said(c)' = Append(Said(c), AtHand)
  <2> HIDE DEF s, h
  <2>1. Said(c) = SubSeq(s, 1, h)
    BY <1>8 DEF Said, s, h
  <2>2. SubSeq(clients'[c].script, 1, clients'[c].handled) = SubSeq(s, 1, h + 1)
    BY <1>6, <1>8
  <2> QED
    BY <1>5, <1>7, <2>1, <2>2 DEF Said
<1>9. \A c \in Clients : c # me.client => Said(c)' = Said(c)
  BY SaidSame DEF Done
<1> QED
  BY <1>2, <1>3, <1>5, <1>8, <1>9

(* What has been heard stays so for the sessions of clients that have said *)
(* no more.                                                                *)
LEMMA AuthKept ==
  ASSUME AuthInv,
         \A i \in DOMAIN sessions' : \E j \in DOMAIN sessions :
           /\ SameLogin(sessions'[i], sessions[j])
           /\ clients'[sessions[j].client].script = clients[sessions[j].client].script
           /\ clients'[sessions[j].client].handled = clients[sessions[j].client].handled
  PROVE  AuthInv'
<1>1. ASSUME NEW i \in DOMAIN sessions'
      PROVE  \E c : c = sessions'[i].client /\ Heard(sessions'[i], SubSeq(clients'[c].script, 1, clients'[c].handled))
  <2>1. PICK j \in DOMAIN sessions :
           /\ SameLogin(sessions'[i], sessions[j])
           /\ clients'[sessions[j].client].script = clients[sessions[j].client].script
           /\ clients'[sessions[j].client].handled = clients[sessions[j].client].handled
    OBVIOUS
  <2> DEFINE c == sessions[j].client
             said == SubSeq(clients[c].script, 1, clients[c].handled)
  <2>2. Heard(sessions[j], said)
    BY DEF AuthInv, Said
  <2>3. SubSeq(clients'[c].script, 1, clients'[c].handled) = said
    BY <2>1
  <2> HIDE DEF said
  <2>4. Heard(sessions'[i], said)
    BY <2>1, <2>2, Zenon DEF Heard, SameLogin
  <2>5. c = sessions'[i].client
    BY <2>1 DEF SameLogin
  <2> HIDE DEF c
  <2> QED
    BY <2>3, <2>4, <2>5
<1> QED
  BY <1>1 DEF AuthInv, Said

(* A command has been said by the client of one session.                   *)
LEMMA AuthDone ==
  ASSUME TypeInv, OwnInv, CommandsInv, AuthInv, Working, Done,
         \A i \in DOMAIN sessions' :
           \/ /\ sessions'[i].client = me.client
              /\ Heard(sessions'[i], Append(Said(me.client), AtHand))
           \/ \E j \in DOMAIN sessions : sessions'[i] = sessions[j] /\ j # SessionAt(cmd.h)
  PROVE  AuthInv'
<1>1. \A c \in Clients : Said(c)' = IF c = me.client THEN Append(Said(c), AtHand) ELSE Said(c)
  BY SaidMore
<1>2. me.client \in Clients /\ SessionAt(cmd.h) \in DOMAIN sessions /\ me = sessions[SessionAt(cmd.h)]
  BY MeType, SessionIs DEF me
<1>3. ASSUME NEW i \in DOMAIN sessions'
      PROVE  \E c \in Clients : c = sessions'[i].client /\ Heard(sessions'[i], Said(c)')
  <2>1. CASE /\ sessions'[i].client = me.client
             /\ Heard(sessions'[i], Append(Said(me.client), AtHand))
    BY <1>1, <1>2, <2>1
  <2>2. ASSUME NEW j \in DOMAIN sessions, sessions'[i] = sessions[j], j # SessionAt(cmd.h),
               NEW c, c = sessions[j].client
        PROVE  c \in Clients /\ c = sessions'[i].client /\ Heard(sessions'[i], Said(c)')
    <3>1. c \in Clients /\ c # me.client
      BY <1>2, <2>2, SessionIs DEF OwnInv, SessionsInv
    <3>2. Said(c)' = Said(c)
      BY <1>1, <3>1
    <3>3. Heard(sessions[j], Said(c))
      BY <2>2 DEF AuthInv
    <3> QED
      BY <2>2, <3>1, <3>2, <3>3
  <2> QED
    BY <2>1, <2>2
<1> QED
  BY <1>3 DEF AuthInv

(* A command that is neither about who the client is nor about a renaming. *)
LEMMA HeardOther ==
  ASSUME NEW said \in Seq(Commands), NEW k \in Commands, NEW t, Heard(t, said),
         NEW s, SameLogin(s, t), k.cmd \notin {"USER", "PASS"},
         k.cmd = "RNFR" => ~t.loggedIn \/ s.renameDiskIdx = Root
  PROVE  Heard(s, Append(said, k))
<1> DEFINE more == Append(said, k)
           l == LastHeard(said)
<1>1. (Authorised(more) <=> Authorised(said)) /\ Noted(more) = Noted(said)
  BY AuthorisedNext
<1>2. l \in 0 .. Len(said) /\ LastHeard(more) = IF k.cmd = "RNFR" /\ Authorised(said)
                                                THEN Len(said) + 1 ELSE l
  BY LastHeardNext
<1>3. Len(said) \in Nat /\ \A i \in 1 .. Len(said) : more[i] = said[i]
  BY Said1
<1> HIDE DEF more, l
<1>4. (s.loggedIn <=> Authorised(more)) /\ (reqPwd => s.notedUser = Noted(more))
  BY <1>1 DEF Heard, SameLogin
<1>5. ASSUME s.renameDiskIdx # Root
      PROVE  LastHeard(more) > 0 /\ s.renameFrom = more[LastHeard(more)].arg.name
  <2>1. t.renameDiskIdx # Root /\ s.renameFrom = t.renameFrom
    BY <1>5 DEF SameLogin
  <2>2. l > 0 /\ t.renameFrom = said[l].arg.name
    BY <2>1 DEF Heard, l
  <2>3. LastHeard(more) = l
    BY <1>2, <1>5 DEF Heard
  <2>4. more[l] = said[l]
    BY <1>2, <1>3, <2>2
  <2> QED
    BY <2>1, <2>2, <2>3, <2>4
<1> QED
  BY <1>4, <1>5 DEF Heard, more

(* Setting the session that is served.                                     *)
LEMMA AuthSet ==
  ASSUME TypeInv, OwnInv, CommandsInv, AuthInv, Working, Done, NEW s, setSession(s),
         s.client = me.client, Heard(s, Append(Said(me.client), AtHand))
  PROVE  AuthInv'
<1>1. SessionAt(cmd.h) \in DOMAIN sessions /\ sessions' = [sessions EXCEPT ![SessionAt(cmd.h)] = s]
  BY MeType, SessionIs DEF setSession
<1>2. DOMAIN sessions' = DOMAIN sessions /\ \A i \in DOMAIN sessions :
        sessions'[i] = IF i = SessionAt(cmd.h) THEN s ELSE sessions[i]
  BY <1>1
<1>3. ASSUME NEW i \in DOMAIN sessions'
      PROVE  \/ /\ sessions'[i].client = me.client
                /\ Heard(sessions'[i], Append(Said(me.client), AtHand))
             \/ \E j \in DOMAIN sessions : sessions'[i] = sessions[j] /\ j # SessionAt(cmd.h)
  <2>1. CASE i = SessionAt(cmd.h)
    BY <1>2, <2>1
  <2>2. CASE i # SessionAt(cmd.h)
    BY <1>2, <2>2
  <2> QED
    BY <2>1, <2>2
<1> QED
  BY <1>3, AuthDone

(* The session is known as before.                                         *)
LEMMA AuthSetOther ==
  ASSUME TypeInv, OwnInv, CommandsInv, AuthInv, Working, Done,
         NEW s, setSession(s), SameLogin(s, me),
         cmd.cmd \notin {"USER", "PASS"}, cmd.cmd = "RNFR" => ~me.loggedIn \/ s.renameDiskIdx = Root
  PROVE  AuthInv'
<1>1. AtHand \in Commands /\ AtHand.cmd = cmd.cmd /\ Said(me.client) \in Seq(Commands)
  BY SaidMore
<1>2. Heard(me, Said(me.client))
  BY MeType, SessionIs DEF AuthInv, me
<1>3. Heard(s, Append(Said(me.client), AtHand))
  BY <1>1, <1>2, HeardOther
<1> QED
  BY <1>3, AuthSet DEF SameLogin

LEMMA AuthQuiet ==
  ASSUME TypeInv, OwnInv, CommandsInv, AuthInv, Working, Done, UNCHANGED sessions,
         cmd.cmd \notin {"USER", "PASS"}, cmd.cmd = "RNFR" => ~me.loggedIn
  PROVE  AuthInv'
<1>1. SessionAt(cmd.h) \in DOMAIN sessions /\ sessions \in Seq(Session)
  BY MeType, SessionIs DEF TypeInv, SessionsType
<1>2. setSession(me)
  BY <1>1 DEF setSession, me
<1>3. SameLogin(me, me)
  BY DEF SameLogin
<1> QED
  BY <1>2, <1>3, AuthSetOther

(* What a command makes of what a session knows of its client.             *)

LEMMA AuthUSER == ASSUME TypeInv, OwnInv, CommandsInv, AuthInv, cmdUSER PROVE AuthInv'
<1> DEFINE s == [me EXCEPT !.notedUser = IF reqPwd THEN cmd.arg.word ELSE @, !.loggedIn = FALSE]
           said == Said(me.client)
           more == Append(said, AtHand)
<1>1. Working /\ Done /\ cmd.cmd = "USER" /\ setSession(s)
  BY SimpleUSER, FinishedDone DEF SimpleStep, cmdUSER, Is, Working
<1>2. AtHand \in Commands /\ AtHand.cmd = "USER" /\ AtHand.arg = cmd.arg /\ said \in Seq(Commands)
  BY <1>1, SaidMore
<1>3. me \in Session /\ Heard(me, said)
  BY <1>1, MeType, SessionIs DEF AuthInv, me
<1>4. ~Authorised(more) /\ Noted(more) = cmd.arg.word
  BY <1>2, AuthorisedNext
<1>5. LastHeard(more) = LastHeard(said) /\ LastHeard(said) \in 0 .. Len(said)
  BY <1>2, LastHeardNext
<1>6. \A i \in 1 .. Len(said) : more[i] = said[i]
  BY <1>2, Said1
<1>7. /\ s.client = me.client /\ s.loggedIn = FALSE
      /\ reqPwd => s.notedUser = cmd.arg.word
      /\ s.renameDiskIdx = me.renameDiskIdx /\ s.renameFrom = me.renameFrom
  BY <1>3 DEF Session
<1> HIDE DEF s, more, said
<1>8. Heard(s, more)
  <2>1. s.renameDiskIdx # Root =>
          LastHeard(more) > 0 /\ s.renameFrom = more[LastHeard(more)].arg.name
    BY <1>3, <1>5, <1>6, <1>7 DEF Heard
  <2> QED
    BY <1>4, <1>7, <2>1 DEF Heard
<1> QED
  BY <1>1, <1>7, <1>8, AuthSet DEF more, said

LEMMA AuthPASS == ASSUME TypeInv, OwnInv, CommandsInv, AuthInv, cmdPASS PROVE AuthInv'
<1> DEFINE ok == ~reqPwd \/ (me.notedUser = "right" /\ cmd.arg.word = "right")
           s == [me EXCEPT !.loggedIn = ok, !.notedUser = ""]
           said == Said(me.client)
           more == Append(said, AtHand)
<1>1. Working /\ Done /\ cmd.cmd = "PASS"
  BY SimplePASS, FinishedDone DEF SimpleStep, cmdPASS, Is, Working
<1>2. setSession(s)
  BY Zenon DEF cmdPASS, passWord
<1>3. AtHand \in Commands /\ AtHand.cmd = "PASS" /\ AtHand.arg = cmd.arg /\ said \in Seq(Commands)
  BY <1>1, SaidMore
<1>4. me \in Session /\ Heard(me, said)
  BY <1>1, MeType, SessionIs DEF AuthInv, me
<1>5. /\ Authorised(more) <=> ~reqPwd \/ (Noted(said) = "right" /\ cmd.arg.word = "right")
      /\ Noted(more) = ""
  <2> HIDE DEF said
  <2>1. /\ Authorised(Append(said, AtHand))
             <=> ~reqPwd \/ (Noted(said) = "right" /\ AtHand.arg.word = "right")
        /\ Noted(Append(said, AtHand)) = ""
    BY <1>3, AuthorisedNext
  <2> QED
    BY <1>3, <2>1
<1>6. LastHeard(more) = LastHeard(said) /\ LastHeard(said) \in 0 .. Len(said)
  BY <1>3, LastHeardNext
<1>7. \A i \in 1 .. Len(said) : more[i] = said[i]
  BY <1>3, Said1
<1>8. ok <=> Authorised(more)
  BY <1>4, <1>5 DEF Heard
<1>9. /\ s.client = me.client /\ (s.loggedIn <=> ok) /\ s.notedUser = ""
      /\ s.renameDiskIdx = me.renameDiskIdx /\ s.renameFrom = me.renameFrom
  <2>1. ok = TRUE \/ ok = FALSE
    OBVIOUS
  <2> HIDE DEF ok
  <2>2. CASE ok = TRUE
    <3>1. s = [me EXCEPT !.loggedIn = TRUE, !.notedUser = ""]
      BY <2>2
    <3> HIDE DEF s
    <3>2. /\ s.client = me.client /\ s.loggedIn = TRUE /\ s.notedUser = ""
          /\ s.renameDiskIdx = me.renameDiskIdx /\ s.renameFrom = me.renameFrom
      BY <1>4, <3>1 DEF Session
    <3> QED
      BY <2>2, <3>2
  <2>3. CASE ok = FALSE
    <3>1. s = [me EXCEPT !.loggedIn = FALSE, !.notedUser = ""]
      BY <2>3
    <3> HIDE DEF s
    <3>2. /\ s.client = me.client /\ s.loggedIn = FALSE /\ s.notedUser = ""
          /\ s.renameDiskIdx = me.renameDiskIdx /\ s.renameFrom = me.renameFrom
      BY <1>4, <3>1 DEF Session
    <3> QED
      BY <2>3, <3>2
  <2> QED
    BY <2>1, <2>2, <2>3
<1> HIDE DEF s, more, said, ok
<1>10. Heard(s, more)
  <2>1. s.renameDiskIdx # Root =>
          LastHeard(more) > 0 /\ s.renameFrom = more[LastHeard(more)].arg.name
    <3>1. me.renameDiskIdx # Root =>
            LastHeard(said) > 0 /\ me.renameFrom = said[LastHeard(said)].arg.name
      BY <1>4, Zenon DEF Heard
    <3>2. s.renameDiskIdx = me.renameDiskIdx /\ s.renameFrom = me.renameFrom
      BY <1>9
    <3>3. LastHeard(said) > 0 => LastHeard(said) \in 1 .. Len(said)
      BY <1>3, <1>6
    <3> QED
      BY <1>6, <1>7, <3>1, <3>2, <3>3
  <2>2. s.loggedIn <=> Authorised(more)
    BY <1>8, <1>9
  <2>3. s.notedUser = Noted(more)
    BY <1>5, <1>9
  <2> QED
    BY <2>1, <2>2, <2>3, Zenon DEF Heard
<1> QED
  BY <1>1, <1>2, <1>9, <1>10, AuthSet DEF more, said

LEMMA AuthOnlyReply == ASSUME TypeInv, OwnInv, CommandsInv, AuthInv, onlyReply PROVE AuthInv'
<1>1. Working /\ Done /\ UNCHANGED sessions
  BY SimpleOnlyReply, FinishedDone DEF SimpleStep, onlyReply, Working
<1>2. cmd.cmd \notin {"USER", "PASS"} /\ (cmd.cmd = "RNFR" => ~me.loggedIn)
  BY DEF onlyReply, BeforeLogin, WithLogin
<1> QED
  BY <1>1, <1>2, AuthQuiet

(* The session is set, but not in what it knows of its client.             *)
LEMMA SameLogins ==
  ASSUME TypeInv, Working, NEW s,
         \/ \E a : s = [me EXCEPT !.currDisk = a]
         \/ \E a : s = [me EXCEPT !.ftpTrfBinary = a]
         \/ s = [me EXCEPT !.renameDiskIdx = Root]
         \/ \E a, b : s = [me EXCEPT !.psvSocket = a, !.havingActiveClientAddr = b]
         \/ \E a, b : s = [me EXCEPT !.havingActiveClientAddr = b, !.psvSocket = a]
  PROVE  SameLogin(s, me)
<1>1. me \in Session
  BY MeType
<1> QED
  BY <1>1 DEF Session, SameLogin

LEMMA AuthCWD == ASSUME TypeInv, OwnInv, CommandsInv, AuthInv, cmdCWD \/ cmdTYPE PROVE AuthInv'
<1>1. Working /\ Done /\ cmd.cmd \notin {"USER", "PASS", "RNFR"}
  BY SimpleCWD, SimpleTYPE, FinishedDone DEF SimpleStep, cmdCWD, cmdTYPE, Is, Working
<1>2. \/ UNCHANGED sessions
      \/ \E a : setSession([me EXCEPT !.currDisk = a])
      \/ \E a : setSession([me EXCEPT !.ftpTrfBinary = a])
  BY Zenon DEF cmdCWD, cmdTYPE
<1>3. UNCHANGED sessions \/ \E s : setSession(s) /\ SameLogin(s, me)
  BY <1>1, <1>2, SameLogins
<1> QED
  BY <1>1, <1>3, AuthQuiet, AuthSetOther

LEMMA AuthDELE == ASSUME TypeInv, OwnInv, CommandsInv, AuthInv, cmdDELE PROVE AuthInv'
<1>1. Working /\ Done /\ cmd.cmd = "DELE" /\ UNCHANGED sessions
  BY SimpleDELE, FinishedDone DEF SimpleStep, cmdDELE, Is, Working
<1> QED
  BY <1>1, AuthQuiet

LEMMA AuthRNFR == ASSUME TypeInv, OwnInv, CommandsInv, AuthInv, cmdRNFR PROVE AuthInv'
<1> DEFINE none == [me EXCEPT !.renameDiskIdx = Root]
           some(d) == [me EXCEPT !.renameDiskIdx = d, !.renameFrom = cmd.arg.name]
           said == Said(me.client)
           more == Append(said, AtHand)
<1>1. Working /\ Done /\ cmd.cmd = "RNFR" /\ me.loggedIn
  BY SimpleRNFR, FinishedDone DEF SimpleStep, cmdRNFR, Is, Working
<1>2. setSession(none) \/ \E d : setSession(some(d))
  BY Zenon DEF cmdRNFR
<1>3. me \in Session /\ Heard(me, said)
  BY <1>1, MeType, SessionIs DEF AuthInv, me
<1>4. CASE setSession(none)
  <2>1. SameLogin(none, me) /\ none.renameDiskIdx = Root
    BY <1>3 DEF Session, SameLogin
  <2> QED
    BY <1>1, <1>4, <2>1, AuthSetOther
<1>5. ASSUME NEW d, setSession(some(d)) PROVE AuthInv'
  <2>1. AtHand \in Commands /\ AtHand.cmd = "RNFR" /\ AtHand.arg = cmd.arg /\ said \in Seq(Commands)
    BY <1>1, SaidMore
  <2>2. (Authorised(more) <=> Authorised(said)) /\ Noted(more) = Noted(said)
    BY <2>1, AuthorisedNext
  <2>3. LastHeard(more) = Len(said) + 1 /\ Len(said) + 1 > 0
    BY <1>1, <1>3, <2>1, LastHeardNext DEF Heard
  <2>4. more[Len(said) + 1] = AtHand
    BY <2>1, Said1
  <2> DEFINE s == some(d)
  <2>5. /\ s.client = me.client /\ s.loggedIn = me.loggedIn /\ s.notedUser = me.notedUser
        /\ s.renameFrom = cmd.arg.name
    BY <1>3 DEF Session
  <2> HIDE DEF s, said, more
  <2>6. Heard(s, more)
    <3>1. (s.loggedIn <=> Authorised(more)) /\ (reqPwd => s.notedUser = Noted(more))
      BY <1>3, <2>2, <2>5 DEF Heard
    <3>2. LastHeard(more) > 0 /\ s.renameFrom = more[LastHeard(more)].arg.name
      BY <2>1, <2>3, <2>4, <2>5
    <3> QED
      BY <3>1, <3>2 DEF Heard
  <2>7. setSession(s)
    BY <1>5 DEF s
  <2> QED
    BY <1>1, <2>5, <2>6, <2>7, AuthSet DEF more, said
<1> HIDE DEF none, some
<1> QED
  BY <1>2, <1>4, <1>5

LEMMA AuthRNTO == ASSUME TypeInv, OwnInv, CommandsInv, AuthInv, cmdRNTO PROVE AuthInv'
<1>1. Working /\ Done /\ cmd.cmd = "RNTO"
  BY SimpleRNTO, FinishedDone DEF SimpleStep, cmdRNTO, Is, Working
<1>2. UNCHANGED sessions \/ setSession([me EXCEPT !.renameDiskIdx = Root])
  BY Zenon DEF cmdRNTO
<1>3. UNCHANGED sessions \/ \E s : setSession(s) /\ SameLogin(s, me)
  BY <1>1, <1>2, SameLogins
<1> QED
  BY <1>1, <1>3, AuthQuiet, AuthSetOther

LEMMA AuthQUIT == ASSUME TypeInv, OwnInv, CommandsInv, AuthInv, cmdQUIT PROVE AuthInv'
<1>1. Working /\ cmd.h \in Ctls /\ dropClientSock(cmd.h)
  BY DEF cmdQUIT, Is, Working, TypeInv, WorkType
<1>4. \E codes : FinishFrom(Unqueued(me.client), codes)
  BY Zenon DEF cmdQUIT
<1>2. Done
  BY <1>1, <1>4, FinishesUnqueued, FinishedDone
<1>3. ASSUME NEW i \in DOMAIN sessions'
      PROVE  \E j \in DOMAIN sessions : sessions'[i] = sessions[j] /\ j # SessionAt(cmd.h)
  <2> DEFINE k == SessionAt(cmd.h)
             j == IF i < k THEN i ELSE i + 1
  <2>1. /\ k \in 1 .. Len(sessions) /\ DOMAIN sessions = 1 .. Len(sessions)
        /\ i \in 1 .. Len(sessions) - 1 /\ sessions'[i] = sessions[j]
    BY <1>1, Dropped
  <2>2. j \in 1 .. Len(sessions) /\ j # k
    <3> HIDE DEF k
    <3>1. Len(sessions) \in Nat
      BY SessionIs
    <3> QED
      BY <2>1, <3>1
  <2> QED
    BY <2>1, <2>2
<1> QED
  BY <1>1, <1>2, <1>3, AuthDone

LEMMA AuthPASV == ASSUME TypeInv, OwnInv, CommandsInv, AuthInv, cmdPASV PROVE AuthInv'
<1>1. Working /\ cmd.cmd \notin {"USER", "PASS", "RNFR"}
  BY DEF cmdPASV, Is, Working
<1>2. \/ UNCHANGED sessions
      \/ \E a, b : setSession([me EXCEPT !.psvSocket = a, !.havingActiveClientAddr = b])
  BY Zenon DEF cmdPASV
<1>3. \E codes : Finish(codes)
  BY Zenon DEF cmdPASV
<1>4. Done
  BY <1>1, <1>3, Finishes, FinishedDone
<1>5. UNCHANGED sessions \/ \E s : setSession(s) /\ SameLogin(s, me)
  BY <1>1, <1>2, SameLogins
<1> QED
  BY <1>1, <1>4, <1>5, AuthQuiet, AuthSetOther

LEMMA AuthPORT == ASSUME TypeInv, OwnInv, CommandsInv, AuthInv, cmdPORT PROVE AuthInv'
<1>1. Working /\ cmd.cmd \notin {"USER", "PASS", "RNFR"}
  BY DEF cmdPORT, Is, Working
<1>2. \/ UNCHANGED sessions
      \/ \E a, b : setSession([me EXCEPT !.havingActiveClientAddr = b, !.psvSocket = a])
  BY Zenon DEF cmdPORT
<1>3. (\E codes : Finish(codes)) \/ (\E codes : FinishFrom(Unqueued(me.client), codes))
  BY Zenon DEF cmdPORT
<1>4. Done
  BY <1>1, <1>3, Finishes, FinishesUnqueued, FinishedDone
<1>5. UNCHANGED sessions \/ \E s : setSession(s) /\ SameLogin(s, me)
  BY <1>1, <1>2, SameLogins
<1> QED
  BY <1>1, <1>4, <1>5, AuthQuiet, AuthSetOther

(* As long as the command goes on nothing is learned of the client.        *)
LEMMA SameLoginIs == \A s : SameLogin(s, s)
BY DEF SameLogin

LEMMA AuthGoesOn == ASSUME TypeInv, AuthInv, GoesOn PROVE AuthInv'
<1>1. ASSUME NEW i \in DOMAIN sessions'
      PROVE  \E j \in DOMAIN sessions :
               /\ SameLogin(sessions'[i], sessions[j])
               /\ clients'[sessions[j].client].script = clients[sessions[j].client].script
               /\ clients'[sessions[j].client].handled = clients[sessions[j].client].handled
  <2>1. sessions' = sessions /\ i \in DOMAIN sessions /\ sessions[i].client \in Clients
    BY SessionIs DEF GoesOn
  <2>2. SameLogin(sessions'[i], sessions[i])
    BY <2>1, SameLoginIs
  <2>3. \A c \in Clients : clients'[c].script = clients[c].script
                           /\ clients'[c].handled = clients[c].handled
    BY DEF GoesOn, SameCommands
  <2> QED
    BY <2>1, <2>2, <2>3
<1> QED
  BY <1>1, AuthKept

(* The last step of a transfer, or of a command refused.                   *)
LEMMA AuthTransfers ==
  ASSUME TypeInv, OwnInv, MovingInv, CommandsInv, AuthInv,
         \/ cmdRETR \/ cmdSTOR \/ cmdList \/ loopInPath \/ openDataConnection
         \/ readRecord \/ readError \/ recvChunk \/ endRETR \/ endSTOR \/ endList
  PROVE  AuthInv'
<1>1. Working /\ (Done \/ GoesOn)
  BY CommandSteps DEF processSingleCmd
<1>2. CASE GoesOn
  BY <1>2, AuthGoesOn
<1>3. CASE Done
  <2>1. pc' = "serve"
    BY <1>3 DEF Done
  <2>2. UNCHANGED sessions
    <3>1. CASE cmdRETR \/ cmdSTOR
      <4>1. \/ \E code : refuse(code)
            \/ openError
            \/ pc' = "connect" /\ Preliminary(<<150>>) /\ UNCHANGED <<sessions, cmd>>
        BY <3>1, Zenon DEF cmdRETR, cmdSTOR
      <4> QED
        BY <4>1, <2>1 DEF refuse, openError
    <3>2. CASE cmdList
      BY <3>2, ListSteps DEF Lists
    <3>3. CASE loopInPath
      BY <3>3 DEF loopInPath
    <3>4. CASE openDataConnection
      <4>1. \/ NotConnected(503) \/ NotConnected(425) \/ \E n, conn : Connected(n, conn)
        BY <3>4, OpenDataSteps
      <4> QED
        BY <4>1 DEF NotConnected, Connected
    <3>5. CASE readRecord \/ readError \/ recvChunk
      BY <3>5 DEF readRecord, readError, recvChunk, copying
    <3>6. CASE endRETR \/ endSTOR \/ endList
      <4>1. \E cls, codes : endTransfer(cls, codes)
        BY <3>6, Endings
      <4> QED
        BY <4>1 DEF endTransfer
    <3> QED
      BY <3>1, <3>2, <3>3, <3>4, <3>5, <3>6
  <2>3. cmd.cmd \in Transfers \cup {"STAT"}
    <3>1. CASE cmdRETR \/ cmdSTOR \/ cmdList
      BY <3>1 DEF cmdRETR, cmdSTOR, cmdList, Is, Transfers
    <3>2. CASE loopInPath
      BY <3>2, <2>1 DEF loopInPath
    <3>3. CASE pc \in {"connect", "copy"}
      BY <3>3 DEF MovingInv, Moving, TypeInv, XferType, Xfer
    <3> QED
      BY <3>1, <3>2, <3>3
      DEF openDataConnection, readRecord, readError, recvChunk, endRETR, endSTOR, endList, Here
  <2>4. cmd.cmd \notin {"USER", "PASS", "RNFR"}
    BY <2>3 DEF Transfers
  <2> QED
    BY <1>1, <1>3, <2>2, <2>4, AuthQuiet
<1> QED
  BY <1>1, <1>2, <1>3

LEMMA AuthOfCommand ==
  ASSUME TypeInv, OwnInv, MovingInv, CommandsInv, AuthInv, processSingleCmd \/ readError
  PROVE  AuthInv'
BY AuthUSER, AuthPASS, AuthOnlyReply, AuthQUIT, AuthPASV, AuthPORT, AuthCWD, AuthDELE, AuthRNFR,
   AuthRNTO, AuthTransfers
DEF processSingleCmd

LEMMA AuthQuietly ==
  ASSUME TypeInv, AuthInv, UNCHANGED sessions,
         \A c \in Clients : clients'[c].script = clients[c].script
                            /\ clients'[c].handled = clients[c].handled
  PROVE  AuthInv'
<1>1. ASSUME NEW i \in DOMAIN sessions'
      PROVE  \E j \in DOMAIN sessions :
               /\ SameLogin(sessions'[i], sessions[j])
               /\ clients'[sessions[j].client].script = clients[sessions[j].client].script
               /\ clients'[sessions[j].client].handled = clients[sessions[j].client].handled
  <2>1. i \in DOMAIN sessions /\ sessions[i].client \in Clients
    BY SessionIs
  <2>2. SameLogin(sessions'[i], sessions[i])
    BY <2>1, SameLoginIs
  <2> QED
    BY <2>1, <2>2
<1> QED
  BY <1>1, AuthKept

LEMMA AuthNoSession == ASSUME sessions' = <<>> PROVE AuthInv'
BY DEF AuthInv

(* A new client has said nothing.                                          *)
LEMMA NothingSaid == ASSUME NEW sock, NEW c PROVE Heard(NewSession(sock, c), <<>>)
<1>1. LastOf(<<>>, {"PASS"}) = 0 /\ LastOf(<<>>, {"USER"}) = 0
  <2>1. \A n : {0} \cup {i \in DOMAIN <<>> : <<>>[i].cmd \in n} = {0}
    OBVIOUS
  <2>2. Max({0}) = 0
    <3>1. {0} \subseteq 0 .. 0 /\ {0} # {} /\ 0 \in Nat
      OBVIOUS
    <3> HIDE DEF Max
    <3> QED
      BY <3>1, MaxOf
  <2> QED
    BY <2>1, <2>2 DEF LastOf
<1>2. ~Authorised(<<>>)
  BY <1>1 DEF Authorised
<1>3. Noted(<<>>) = ""
  <2>1. ~(LastOf(<<>>, {"USER"}) > LastOf(<<>>, {"PASS"}))
    BY <1>1
  <2> QED
    BY <2>1, Zenon DEF Noted
<1> QED
  BY <1>2, <1>3 DEF Heard, NewSession

LEMMA AuthAcceptClient ==
  ASSUME TypeInv, OwnInv, CommandsInv, AuthInv, acceptClient PROVE AuthInv'
<1>1. \A c \in Clients : clients'[c].script = clients[c].script
                         /\ clients'[c].handled = clients[c].handled
  BY AcceptedClients
<1>2. \/ sessions' = <<>>
      \/ UNCHANGED sessions
      \/ \E c \in Clients : \E n : clients[c].state = "calling" /\ sessions' = <<NewSession(n, c)>> \o sessions
  <2>1. \/ \E c \in Clients : clients[c].state = "calling" /\ addClientSock(NewNumber, c)
        \/ sock_shutdown
        \/ UNCHANGED sessions
    BY Zenon DEF acceptClient
  <2>2. ASSUME NEW c \in Clients, clients[c].state = "calling", addClientSock(NewNumber, c)
        PROVE  \E n : sessions' = <<NewSession(n, c)>> \o sessions
    BY <2>2, Zenon DEF addClientSock
  <2> QED
    BY <2>1, <2>2 DEF sock_shutdown
<1>3. ASSUME NEW c \in Clients, NEW n, clients[c].state = "calling",
             sessions' = <<NewSession(n, c)>> \o sessions
      PROVE  AuthInv'
  <2>1. clients[c].handled = 0
    <3>1. clients[c].sent = 0 /\ clients[c].handled <= clients[c].sent /\ clients[c].handled \in Nat
      BY <1>3 DEF CommandsInv, Counted, TypeInv, ClientsType, Client
    <3> QED
      BY <3>1
  <2>2. SubSeq(clients'[c].script, 1, clients'[c].handled) = <<>>
    BY <1>1, <2>1
  <2> DEFINE s == NewSession(n, c)
  <2>3. s.client = c
    BY DEF NewSession
  <2>4. Heard(s, <<>>)
    BY NothingSaid
  <2> HIDE DEF s
  <2>5. /\ DOMAIN sessions' = 1 .. Len(sessions) + 1 /\ sessions'[1] = s
        /\ \A i \in 2 .. Len(sessions) + 1 : sessions'[i] = sessions[i - 1]
    BY <1>3 DEF s, TypeInv, SessionsType
  <2>6. ASSUME NEW i \in DOMAIN sessions'
        PROVE  \E d : d = sessions'[i].client
                      /\ Heard(sessions'[i], SubSeq(clients'[d].script, 1, clients'[d].handled))
    <3>1. CASE i = 1
      BY <2>2, <2>3, <2>4, <2>5, <3>1
    <3>2. CASE i # 1
      <4>1. i - 1 \in DOMAIN sessions /\ sessions'[i] = sessions[i - 1]
            /\ sessions[i - 1].client \in Clients
        BY <2>5, <3>2, SessionIs
      <4> DEFINE d == sessions[i - 1].client
      <4>2. Heard(sessions[i - 1], SubSeq(clients[d].script, 1, clients[d].handled))
        BY <4>1 DEF AuthInv, Said
      <4>3. SubSeq(clients'[d].script, 1, clients'[d].handled)
              = SubSeq(clients[d].script, 1, clients[d].handled)
        BY <1>1, <4>1
      <4> QED
        BY <4>1, <4>2, <4>3
    <3> QED
      BY <3>1, <3>2
  <2> QED
    BY <2>6 DEF AuthInv, Said
<1> QED
  BY <1>1, <1>2, <1>3, AuthNoSession, AuthQuietly

LEMMA AuthLostCtl == ASSUME TypeInv, AuthInv, lostCtl PROVE AuthInv'
<1>1. pc = "serve" /\ round.todo # {} /\ dropClientSock(NextUp.ctlSocket)
      /\ clients' = Unqueued(NextUp.client)
  BY DEF lostCtl
<1>2. NextUp.ctlSocket \in Ctls /\ NextUp.client \in Clients
  BY <1>1, NextUpIs
<1>3. \A c \in Clients : clients'[c].script = clients[c].script
                         /\ clients'[c].handled = clients[c].handled
  <2>1. ASSUME NEW c \in Clients
        PROVE  clients'[c] = clients[c] \/ clients'[c] = [clients[c] EXCEPT !.queued = <<>>]
    BY <1>1, <1>2, UnqueuedType DEF TypeInv
  <2> QED
    BY <2>1 DEF TypeInv, ClientsType, Client
<1>4. ASSUME NEW i \in DOMAIN sessions'
      PROVE  \E j \in DOMAIN sessions : sessions'[i] = sessions[j]
  <2> DEFINE n == NextUp.ctlSocket
             j == IF i < SessionAt(n) THEN i ELSE i + 1
  <2>1. /\ SessionAt(n) \in 1 .. Len(sessions) /\ DOMAIN sessions = 1 .. Len(sessions)
        /\ i \in 1 .. Len(sessions) - 1 /\ sessions'[i] = sessions[j]
    BY <1>1, <1>2, Dropped
  <2>2. j \in 1 .. Len(sessions)
    <3>1. Len(sessions) \in Nat
      BY SessionIs
    <3> QED
      BY <2>1, <3>1
  <2> QED
    BY <2>1, <2>2
<1>5. ASSUME NEW i \in DOMAIN sessions'
      PROVE  \E j \in DOMAIN sessions :
               /\ SameLogin(sessions'[i], sessions[j])
               /\ clients'[sessions[j].client].script = clients[sessions[j].client].script
               /\ clients'[sessions[j].client].handled = clients[sessions[j].client].handled
  <2>1. PICK j \in DOMAIN sessions : sessions'[i] = sessions[j]
    BY <1>4
  <2>2. sessions[j].client \in Clients
    BY SessionIs
  <2> QED
    BY <1>3, <2>1, <2>2, SameLoginIs
<1> QED
  BY <1>5, AuthKept

LEMMA AuthNext ==
  ASSUME TypeInv, OwnInv, MovingInv, CommandsInv, AuthInv, [FtpNext]_ftpVars PROVE AuthInv'
<1>1. CASE main
  <2>1. CASE boot \/ waitForSocket \/ noAccept \/ endRound
    <3>1. UNCHANGED clients /\ (sessions' = <<>> \/ UNCHANGED sessions)
      BY <2>1 DEF boot, waitForSocket, noAccept, endRound, sock_shutdown, program
    <3> QED
      BY <3>1, AuthNoSession, AuthQuietly
  <2>2. CASE getCtlLine
    BY <2>2, TakesUp, AuthQuietly
  <2> QED
    BY <1>1, <2>1, <2>2, AuthAcceptClient, AuthLostCtl, AuthOfCommand DEF main
<1>2. ASSUME NEW c \in Clients,
             call(c) \/ beginCommand(c) \/ sendCommand(c) \/ leave(c) \/ dial(c)
      PROVE  AuthInv'
  <2>1. UNCHANGED sessions
    BY <1>2 DEF call, beginCommand, sendCommand, leave, dial, serverSide
  <2>2. ASSUME NEW d \in Clients
        PROVE  clients'[d].script = clients[d].script /\ clients'[d].handled = clients[d].handled
    <3>1. /\ d # c => clients'[d] = clients[d]
          /\ clients'[c].script = clients[c].script /\ clients'[c].handled = clients[c].handled
      BY <1>2, ClientActs
    <3> QED
      BY <3>1
  <2> QED
    BY <2>1, <2>2, AuthQuietly
<1>3. CASE readError
  BY <1>3, AuthOfCommand
<1>4. CASE terminate
  BY <1>4, AuthNoSession DEF terminate, sock_shutdown
<1>5. CASE loseData \/ UNCHANGED ftpVars
  <2>1. UNCHANGED <<clients, sessions>>
    BY <1>5 DEF loseData, ftpVars, program
  <2> QED
    BY <2>1, AuthQuietly
<1> QED
  BY <1>1, <1>2, <1>3, <1>4, <1>5 DEF FtpNext, clientSteps

LEMMA AuthInit == ASSUME FtpInit PROVE AuthInv
BY DEF FtpInit, AuthInv

(* A session counts as logged in exactly if what its client has said so    *)
(* far authorises it, and holds the user and the file to be renamed that   *)
(* its client named last.                                                  *)
THEOREM AuthHold == FtpSpec => []AuthInv
<1>1. FtpInit => AuthInv
  BY AuthInit
<1>2. TypeInv /\ OwnInv /\ MovingInv /\ CommandsInv /\ AuthInv /\ [FtpNext]_ftpVars => AuthInv'
  BY AuthNext
<1> QED
  BY <1>1, <1>2, TypesHold, OwnersHold, CommandsHold, PTL DEF FtpSpec

-----------------------------------------------------------------------------
(* Files are changed only as far as their clients may change them.         *)

(* The command and the place of its session stay as they are.              *)
LEMMA RootStays == ASSUME UNCHANGED <<cmd, sessions>> PROVE UploadToRoot' = UploadToRoot
BY DEF UploadToRoot, me, SessionAt

(* What a step does to a transfer that goes on after it.                   *)
SameXfer == UNCHANGED <<xfer.cmd, xfer.disk, xfer.name, xfer.format, xfer.base>>
OnlyConn == SameXfer /\ UNCHANGED <<xfer.buf, xfer.pos, xfer.rcvd, xfer.left, xfer.failed>>

LEMMA XferSteps ==
  ASSUME TypeInv, [FtpNext]_ftpVars, Moving'
  PROVE  \/ cmdRETR \/ cmdSTOR \/ cmdList \/ readRecord \/ readError \/ recvChunk
         \/ Moving /\ OnlyConn /\ UNCHANGED <<cmd, sessions, f, files>>
<1>1. CASE main
  <2>1. CASE boot \/ waitForSocket \/ acceptClient \/ noAccept \/ getCtlLine \/ lostCtl \/ endRound
    <3>1. pc' \notin {"connect", "copy"}
      BY <2>1
      DEF boot, waitForSocket, acceptClient, noAccept, getCtlLine, lostCtl, endRound, sock_shutdown
    <3> QED
      BY <3>1 DEF Moving
  <2>2. CASE cmdUSER \/ cmdPASS \/ onlyReply \/ cmdQUIT \/ cmdPASV \/ cmdPORT
             \/ cmdCWD \/ cmdTYPE \/ cmdDELE \/ cmdRNFR \/ cmdRNTO
    <3>1. pc' = "serve"
      <4>1. CASE cmdUSER \/ cmdPASS \/ onlyReply \/ cmdQUIT
        BY <4>1 DEF cmdUSER, cmdPASS, onlyReply, cmdQUIT, Finish, FinishFrom
      <4>2. CASE cmdPASV \/ cmdPORT \/ cmdCWD \/ cmdTYPE
        BY <4>2 DEF cmdPASV, cmdPORT, cmdCWD, cmdTYPE, Finish, FinishFrom
      <4>3. CASE cmdDELE \/ cmdRNFR \/ cmdRNTO
        BY <4>3 DEF cmdDELE, cmdRNFR, cmdRNTO, Finish, FinishFrom
      <4> QED
        BY <2>2, <4>1, <4>2, <4>3
    <3> QED
      BY <3>1 DEF Moving
  <2>3. CASE loopInPath \/ endRETR \/ endSTOR \/ endList
    <3>1. pc' \in {"serve", "looping"}
      BY <2>3 DEF loopInPath, endRETR, endSTOR, endList, endTransfer, FinishFrom
    <3> QED
      BY <3>1 DEF Moving
  <2>4. CASE openDataConnection
    <3>1. pc = "connect" /\ Moving
      BY <2>4 DEF openDataConnection, Moving
    <3>2. CASE NotConnected(503) \/ NotConnected(425)
      BY <3>2 DEF NotConnected, Finish, FinishFrom, Moving
    <3>3. ASSUME NEW n, NEW conn, Connected(n, conn)
          PROVE  Moving /\ OnlyConn /\ UNCHANGED <<cmd, sessions, f, files>>
      <4>1. xfer' = [xfer EXCEPT !.sock = n, !.conn = conn] /\ xfer \in Xfer
            /\ UNCHANGED <<cmd, sessions, f, files>>
        BY <3>1, <3>3 DEF Connected, TypeInv, XferType
      <4>2. OnlyConn
        BY <4>1 DEF OnlyConn, SameXfer, Xfer
      <4> QED
        BY <3>1, <4>1, <4>2
    <3> QED
      BY <2>4, <3>2, <3>3, OpenDataSteps
  <2> QED
    BY <1>1, <2>1, <2>2, <2>3, <2>4 DEF main, processSingleCmd
<1>2. ASSUME UNCHANGED <<cmd, sessions, pc, f, files>>,
             UNCHANGED xfer \/ xfer' = [xfer EXCEPT !.conn = "lost"]
      PROVE  Moving /\ OnlyConn /\ UNCHANGED <<cmd, sessions, f, files>>
  <2>1. Moving /\ xfer \in Xfer
    BY <1>2 DEF Moving, TypeInv, XferType
  <2>2. OnlyConn
    BY <1>2, <2>1 DEF OnlyConn, SameXfer, Xfer
  <2> QED
    BY <1>2, <2>1, <2>2
<1>3. CASE clientSteps \/ \E c \in Clients : dial(c)
  <2>1. UNCHANGED <<cmd, sessions, pc, f, files>>
    BY <1>3 DEF clientSteps, call, beginCommand, sendCommand, leave, dial, serverSide
  <2>2. UNCHANGED xfer \/ xfer' = [xfer EXCEPT !.conn = "lost"]
    <3>1. ASSUME NEW c \in Clients, leave(c)
          PROVE  xfer' = xfer \/ xfer' = [xfer EXCEPT !.conn = "lost"]
      BY <3>1 DEF leave
    <3>2. ASSUME NEW c \in Clients, call(c) \/ beginCommand(c) \/ sendCommand(c) \/ dial(c)
          PROVE  xfer' = xfer
      BY <3>2 DEF call, beginCommand, sendCommand, dial
    <3> QED
      BY <1>3, <3>1, <3>2 DEF clientSteps
  <2> QED
    BY <1>2, <2>1, <2>2
<1>4. CASE loseData
  BY <1>2, <1>4 DEF loseData
<1>5. CASE terminate
  BY <1>5 DEF terminate, sock_shutdown, Moving
<1>6. CASE UNCHANGED ftpVars
  <2>1. UNCHANGED <<cmd, sessions, pc, f, files>> /\ xfer' = xfer
    BY <1>6 DEF ftpVars, program, watch
  <2> QED
    BY <1>2, <2>1
<1> QED
  BY <1>1, <1>3, <1>4, <1>5, <1>6 DEF FtpNext

(* What an upload that begins does to the files.                           *)
LEMMA StorSteps ==
  ASSUME TypeInv, cmdSTOR, NEW nm, nm = cmd.arg.name
  PROVE  \/ pc' = "serve" /\ UNCHANGED files
         \/ \E e \in DiskIdx :
              /\ mayChange(e) \/ UploadToRoot
              /\ \/ UNCHANGED files
                 \/ /\ nm \in Names /\ files[e][nm].is /\ mayReplace(cmd.arg)
                    /\ files' = [files EXCEPT ![e][nm] = Absent]
              /\ \/ pc' = "serve"
                 \/ /\ pc' = "connect" /\ nm \in Names /\ UNCHANGED <<cmd, sessions>>
                    /\ xfer' = [Transfer(e, nm) EXCEPT !.base = files'[e][nm].recs]
<1>1. pc = "cmd" /\ me.loggedIn /\ cmd.cmd \in {"STOR", "APPE"} /\ Working
  BY DEF cmdSTOR, Is, Working
<1> DEFINE d == parseFullPath(me, cmd.arg)
           named(e) == e \in DiskIdx /\ nm \in Names
           there(e) == named(e) /\ files[e][nm].is
           erased(e) == IF there(e) /\ cmd.cmd = "STOR" THEN [files EXCEPT ![e][nm] = Absent]
                        ELSE files
<1>3. \/ \E code : refuse(code)
      \/ /\ d >= Root /\ FALSE \in ReadonlyAt(d)
         /\ \E e \in DisksAt(d) :
              \/ /\ ~there(e) \/ mayReplace(cmd.arg)
                 /\ openError /\ files' \in {files, erased(e)}
              \/ /\ named(e) /\ (~there(e) \/ mayReplace(cmd.arg))
                 /\ files' = erased(e)
                 /\ xfer' = [Transfer(e, nm) EXCEPT !.base = files'[e][nm].recs]
                 /\ pc' = "connect" /\ UNCHANGED <<cmd, sessions>>
  BY Zenon DEF cmdSTOR
<1>4. CASE \E code : refuse(code)
  BY <1>4 DEF refuse, Finish, FinishFrom
<1>5. ASSUME d >= Root, FALSE \in ReadonlyAt(d), NEW e \in DisksAt(d),
             \/ /\ ~there(e) \/ mayReplace(cmd.arg)
                /\ openError /\ files' \in {files, erased(e)}
             \/ /\ named(e) /\ (~there(e) \/ mayReplace(cmd.arg))
                /\ files' = erased(e)
                /\ xfer' = [Transfer(e, nm) EXCEPT !.base = files'[e][nm].recs]
                /\ pc' = "connect" /\ UNCHANGED <<cmd, sessions>>
      PROVE  \/ pc' = "serve" /\ UNCHANGED files
             \/ /\ e \in DiskIdx /\ (mayChange(e) \/ UploadToRoot)
                /\ \/ UNCHANGED files
                   \/ /\ nm \in Names /\ files[e][nm].is /\ mayReplace(cmd.arg)
                      /\ files' = [files EXCEPT ![e][nm] = Absent]
                /\ \/ pc' = "serve"
                   \/ /\ pc' = "connect" /\ nm \in Names /\ UNCHANGED <<cmd, sessions>>
                      /\ xfer' = [Transfer(e, nm) EXCEPT !.base = files'[e][nm].recs]
  <2>2. mayChange(e) \/ UploadToRoot
    <3>1. CASE d = Root
      BY <1>1, <3>1 DEF UploadToRoot
    <3>2. CASE d # Root
      BY <1>5, <3>2 DEF DisksAt, ReadonlyAt
    <3> QED
      BY <3>1, <3>2
  <2>3. files' = files \/ files' = erased(e)
    BY <1>5
  <2>4. files' = files \/ (there(e) /\ files' = [files EXCEPT ![e][nm] = Absent])
    BY <2>3
  <2>5. \/ openError
        \/ /\ named(e) /\ pc' = "connect" /\ UNCHANGED <<cmd, sessions>>
           /\ xfer' = [Transfer(e, nm) EXCEPT !.base = files'[e][nm].recs]
    BY <1>5
  <2>6. ~there(e) \/ mayReplace(cmd.arg)
    BY <1>5
  <2>7. openError => pc' = "serve"
    BY DEF openError, Finish, FinishFrom
  <2> HIDE DEF erased, d
  <2> QED
    BY <2>2, <2>4, <2>5, <2>6, <2>7
<1> HIDE DEF d, named, there, erased
<1>6. CASE /\ d >= Root /\ FALSE \in ReadonlyAt(d)
           /\ \E e \in DisksAt(d) :
                \/ /\ ~there(e) \/ mayReplace(cmd.arg)
                   /\ openError /\ files' \in {files, erased(e)}
                \/ /\ named(e) /\ (~there(e) \/ mayReplace(cmd.arg))
                   /\ files' = erased(e)
                   /\ xfer' = [Transfer(e, nm) EXCEPT !.base = files'[e][nm].recs]
                   /\ pc' = "connect" /\ UNCHANGED <<cmd, sessions>>
  BY <1>5, <1>6
<1> QED
  BY <1>3, <1>4, <1>6

(* A file is uploaded only to a disk that is not read-only, unless its     *)
(* path leads to the root.                                                 *)
MayUpload == mayChange(xfer.disk) \/ UploadToRoot
WriteInv  == Moving /\ xfer.cmd \in {"STOR", "APPE"} => MayUpload

LEMMA WriteNext ==
  ASSUME TypeInv, WriteInv, [FtpNext]_ftpVars PROVE WriteInv'
<1> SUFFICES ASSUME Moving', xfer'.cmd \in {"STOR", "APPE"} PROVE MayUpload'
  BY DEF WriteInv
<1>1. ASSUME Moving, SameXfer, UNCHANGED <<cmd, sessions>> PROVE MayUpload'
  <2>1. MayUpload /\ UploadToRoot' = UploadToRoot
    BY <1>1, RootStays DEF SameXfer, WriteInv
  <2> QED
    BY <1>1, <2>1 DEF SameXfer, MayUpload, mayChange
<1>2. CASE Moving /\ OnlyConn /\ UNCHANGED <<cmd, sessions>>
  BY <1>1, <1>2 DEF OnlyConn
<1>3. CASE cmdRETR \/ cmdList
  <2>1. cmd.cmd \notin {"STOR", "APPE"}
    BY <1>3 DEF cmdRETR, cmdList, Is
  <2>2. xfer'.cmd = cmd.cmd
    <3>1. MovingInv' /\ cmd' = cmd
      <4>1. CASE cmdRETR
        BY <4>1, MovesRETR DEF cmdRETR, refuse, openError, Finish, FinishFrom, Moving
      <4>2. CASE cmdList
        <5>1. ASSUME NEW codes, Finish(codes) PROVE FALSE
          BY <5>1 DEF Finish, FinishFrom, Moving
        <5> QED
          BY <4>2, <5>1, MovesList, ListSteps DEF Lists
      <4> QED
        BY <1>3, <4>1, <4>2
    <3> QED
      BY <3>1 DEF MovingInv
  <2> QED
    BY <2>1, <2>2
<1>4. CASE cmdSTOR
  <2>1. PICK e : /\ mayChange(e) \/ UploadToRoot
                 /\ UNCHANGED <<cmd, sessions>>
                 /\ \E b : xfer' = [Transfer(e, cmd.arg.name) EXCEPT !.base = b]
    BY <1>4, StorSteps DEF Moving
  <2>2. xfer'.disk = e
    BY <2>1 DEF Transfer
  <2>3. UploadToRoot' = UploadToRoot
    BY <2>1, RootStays
  <2> QED
    BY <2>1, <2>2, <2>3 DEF MayUpload, mayChange
<1>5. CASE readRecord \/ readError
  <2>1. Moving /\ xfer \in Xfer
    BY <1>5 DEF readRecord, readError, Here, Moving, TypeInv, XferType
  <2>2. \/ \E a, b : xfer' = [xfer EXCEPT !.pos = a, !.buf = b]
        \/ \E b, t : xfer' = [xfer EXCEPT !.failed = TRUE, !.stays = t, !.buf = b]
    <3>1. CASE readRecord
      BY <3>1, Zenon DEF readRecord
    <3>2. CASE readError
      BY <3>2, Zenon DEF readError
    <3> QED
      BY <1>5, <3>1, <3>2
  <2>3. SameXfer
    BY <2>1, <2>2 DEF Xfer, SameXfer
  <2>4. UNCHANGED <<cmd, sessions>>
    BY <1>5 DEF readRecord, readError, copying
  <2> QED
    BY <1>1, <2>1, <2>3, <2>4
<1>6. CASE recvChunk
  <2>1. Moving /\ xfer \in Xfer
    BY <1>6 DEF recvChunk, Here, Moving, TypeInv, XferType
  <2>2. PICK len \in 1 .. Len(xfer.left) :
          LET chunk == SubSeq(xfer.left, 1, len)
              s     == takeChunk(xfer.buf, chunk, xfer.format)
          IN \E n \in 0 .. Len(s.recs) :
               xfer' = [xfer EXCEPT !.buf = s.fill, !.rcvd = @ \o chunk,
                             !.left = SubSeq(@, len + 1, Len(@)), !.pos = @ + Len(s.recs),
                             !.failed = (@ \/ n < Len(s.recs))]
    BY <1>6, Zenon, Received
  <2>3. SameXfer
    BY <2>1, <2>2 DEF Xfer, SameXfer
  <2>4. UNCHANGED <<cmd, sessions>>
    BY <1>6 DEF recvChunk, copying
  <2> QED
    BY <1>1, <2>1, <2>3, <2>4
<1> QED
  BY <1>2, <1>3, <1>4, <1>5, <1>6, XferSteps

(* The file nm on disk d may be changed by the command at work.            *)
Rightly(d, nm) ==
  LET said == Said(me.client)
  IN /\ ~disks[d].readonly \/ UploadToRoot
     /\ Authorised(said)
     /\ \/ cmd.arg.name = nm
        \/ /\ cmd.cmd = "RNTO"
           /\ LastHeard(said) > 0
           /\ said[LastHeard(said)].arg.name = nm
     /\ cmd.cmd = "STOR" /\ pc = "cmd" /\ files[d][nm].is => autoOverwrite \/ cmd.arg.replace

LEMMA LoggedIn ==
  ASSUME TypeInv, Working, AuthInv, me.loggedIn PROVE Authorised(Said(me.client))
<1>1. Heard(me, Said(me.client))
  BY MeType, SessionIs DEF AuthInv, me
<1> QED
  BY <1>1, Zenon DEF Heard

(* The only file that is not what it was.                                  *)
LEMMA OneChanged ==
  ASSUME FilesType, NEW d \in DiskIdx, NEW nm \in Names, NEW e \in DiskIdx, NEW k, NEW x,
         files' = [files EXCEPT ![e][k] = x], files'[d][nm] # files[d][nm]
  PROVE  d = e /\ nm = k
<1>1. files \in [DiskIdx -> [Names -> Files]]
  BY DEF FilesType
<1>2. files'[d] = IF d = e THEN [files[e] EXCEPT ![k] = x] ELSE files[d]
  BY <1>1
<1>3. d = e
  BY <1>2
<1>4. files[e] \in [Names -> Files]
  BY <1>1
<1> QED
  BY <1>2, <1>3, <1>4

LEMMA RightlyDELE ==
  ASSUME TypeInv, AuthInv, cmdDELE, NEW d \in DiskIdx, NEW nm \in Names,
         files'[d][nm] # files[d][nm]
  PROVE  Rightly(d, nm)
<1>1. Working /\ me.loggedIn /\ cmd.cmd = "DELE" /\ FilesType
  BY DEF cmdDELE, Is, Working, TypeInv
<1>2. UNCHANGED files \/ \E e \in DiskIdx : mayChange(e) /\ files' = [files EXCEPT ![e][cmd.arg.name] = Absent]
  BY Zenon DEF cmdDELE
<1>3. PICK e \in DiskIdx : mayChange(e) /\ files' = [files EXCEPT ![e][cmd.arg.name] = Absent]
  BY <1>2
<1>4. d = e /\ nm = cmd.arg.name
  BY <1>1, <1>3, OneChanged
<1>5. Authorised(Said(me.client))
  BY <1>1, LoggedIn
<1>6. ~disks[d].readonly
  BY <1>3, <1>4, Zenon DEF mayChange
<1> QED
  BY <1>1, <1>4, <1>5, <1>6 DEF Rightly

LEMMA RightlyRNTO ==
  ASSUME TypeInv, AuthInv, cmdRNTO, NEW d \in DiskIdx, NEW nm \in Names,
         files'[d][nm] # files[d][nm]
  PROVE  Rightly(d, nm)
<1> DEFINE e == me.renameDiskIdx
           to == cmd.arg.name
           from == me.renameFrom
           said == Said(me.client)
<1>1. Working /\ me.loggedIn /\ cmd.cmd = "RNTO" /\ FilesType
  BY DEF cmdRNTO, Is, Working, TypeInv
<1>2. \/ UNCHANGED files
      \/ /\ e # Root /\ mayChange(e)
         /\ files' = [files EXCEPT ![e][to] = files[e][from], ![e][from] = Absent]
  <2> DEFINE g == DiskFor(parseFullPath(me, cmd.arg))
  <2>1. \/ UNCHANGED files
        \/ /\ e # Root /\ g = e /\ mayChange(g)
           /\ files' = [files EXCEPT ![g][to] = files[g][from], ![g][from] = Absent]
    BY Zenon DEF cmdRNTO
  <2> HIDE DEF g
  <2> QED
    BY <2>1
<1>3. e \in DiskIdx /\ e # Root /\ me \in Session
  BY <1>1, <1>2, MeType DEF Session, Disk
<1>4. nm = to \/ nm = from
  <2> DEFINE x == files[e][from]
             mid == [files EXCEPT ![e][to] = x]
  <2> HIDE DEF x
  <2>1. files' = [mid EXCEPT ![e][from] = Absent]
    BY <1>2 DEF x
  <2>2. ASSUME nm # to, nm # from PROVE FALSE
    <3>1. files \in [DiskIdx -> [Names -> Files]]
      BY <1>1 DEF FilesType
    <3>2. mid[d][nm] = files[d][nm] /\ DOMAIN mid = DiskIdx /\ DOMAIN mid[d] = Names
          /\ DOMAIN mid[e] = Names
      BY <1>3, <2>2, <3>1
    <3> HIDE DEF mid, e
    <3>3. files'[d][nm] = mid[d][nm]
      BY <2>1, <2>2, <3>2
    <3> QED
      BY <3>2, <3>3
  <2> QED
    BY <2>2
<1>5. d = e
  <2> DEFINE x == files[e][from]
             mid == [files EXCEPT ![e][to] = x]
  <2> HIDE DEF x
  <2>1. files' = [mid EXCEPT ![e][from] = Absent]
    BY <1>2 DEF x
  <2>2. ASSUME d # e PROVE FALSE
    <3>1. files \in [DiskIdx -> [Names -> Files]]
      BY <1>1 DEF FilesType
    <3>2. mid[d] = files[d] /\ DOMAIN mid = DiskIdx
      BY <1>3, <2>2, <3>1
    <3> HIDE DEF mid, e
    <3> QED
      BY <2>1, <2>2, <3>2
  <2> QED
    BY <2>2
<1>6. Authorised(said)
  BY <1>1, LoggedIn
<1>7. LastHeard(said) > 0 /\ from = said[LastHeard(said)].arg.name
  <2>1. Heard(me, said)
    BY <1>1, MeType, SessionIs DEF AuthInv, me
  <2> QED
    BY <1>3, <2>1, Zenon DEF Heard
<1>8. ~disks[d].readonly
  BY <1>2, <1>5, Zenon DEF mayChange
<1> HIDE DEF said, e, to, from
<1>9. cmd.arg.name = nm \/ said[LastHeard(said)].arg.name = nm
  BY <1>4, <1>7 DEF to
<1> QED
  BY <1>1, <1>6, <1>7, <1>8, <1>9 DEF Rightly, said

LEMMA RightlySTOR ==
  ASSUME TypeInv, AuthInv, cmdSTOR, NEW d \in DiskIdx, NEW nm \in Names,
         files'[d][nm] # files[d][nm]
  PROVE  Rightly(d, nm)
<1> DEFINE n == cmd.arg.name
<1>1. Working /\ me.loggedIn /\ cmd.cmd \in {"STOR", "APPE"} /\ FilesType
  BY DEF cmdSTOR, Is, Working, TypeInv
<1>2. PICK e \in DiskIdx : /\ mayChange(e) \/ UploadToRoot
                           /\ n \in Names /\ files[e][n].is /\ mayReplace(cmd.arg)
                           /\ files' = [files EXCEPT ![e][n] = Absent]
  BY StorSteps
<1>3. d = e /\ nm = n
  BY <1>1, <1>2, OneChanged
<1>4. Authorised(Said(me.client))
  BY <1>1, LoggedIn
<1>5. ~disks[d].readonly \/ UploadToRoot
  BY <1>2, <1>3, Zenon DEF mayChange
<1>6. cmd.cmd = "STOR" => autoOverwrite \/ cmd.arg.replace
  BY <1>2 DEF mayReplace
<1> QED
  BY <1>3, <1>4, <1>5, <1>6 DEF Rightly

(* While records are written the file is the one of the transfer.          *)
LEMMA RightlyWritten ==
  ASSUME TypeInv, MovingInv, WriteInv, AuthInv, Here({"STOR", "APPE"}),
         \E recs, n : writeRecords(recs, n),
         NEW d \in DiskIdx, NEW nm \in Names, files'[d][nm] # files[d][nm]
  PROVE  Rightly(d, nm)
<1>1. Working /\ Moving /\ pc = "copy" /\ xfer.cmd \in {"STOR", "APPE"} /\ FilesType
  BY DEF Here, Working, Moving, TypeInv
<1>2. /\ f = [is |-> "write", disk |-> xfer.disk, name |-> xfer.name]
      /\ xfer.disk \in DiskIdx /\ xfer.name = cmd.arg.name /\ me.loggedIn
  BY <1>1 DEF TypeInv, XferType, MovingInv, FileTransfers
<1>3. f.disk = xfer.disk /\ f.name = cmd.arg.name
  BY <1>2
<1>4. \E x : files' = [files EXCEPT ![f.disk][f.name] = x]
  BY Zenon DEF writeRecords
<1>5. d = xfer.disk /\ nm = cmd.arg.name
  BY <1>1, <1>2, <1>3, <1>4, OneChanged
<1>6. Authorised(Said(me.client))
  BY <1>1, <1>2, LoggedIn
<1>7. ~disks[d].readonly \/ UploadToRoot
  BY <1>1, <1>5, Zenon DEF mayChange, WriteInv, MayUpload
<1> QED
  BY <1>1, <1>5, <1>6, <1>7 DEF Rightly

LEMMA RightlyChanged ==
  ASSUME TypeInv, MovingInv, CommandsInv, WriteInv, AuthInv, FtpNext,
         NEW d \in DiskIdx, NEW nm \in Names, files'[d][nm] # files[d][nm]
  PROVE  Rightly(d, nm)
<1>1. CASE main
  <2>1. ASSUME boot \/ waitForSocket \/ acceptClient \/ noAccept \/ getCtlLine \/ lostCtl \/ endRound
        PROVE  UNCHANGED files
    BY <2>1 DEF boot, waitForSocket, acceptClient, noAccept, getCtlLine, lostCtl, endRound, sock_shutdown
  <2>2. ASSUME cmdUSER \/ cmdPASS \/ onlyReply \/ cmdQUIT \/ cmdPASV \/ cmdPORT \/ cmdCWD \/ cmdTYPE
               \/ cmdRNFR \/ cmdList \/ loopInPath
        PROVE  UNCHANGED files
    <3>1. CASE cmdCWD \/ cmdTYPE \/ cmdRNFR
      BY <3>1, Zenon DEF cmdCWD, cmdTYPE, cmdRNFR
    <3>2. CASE cmdList
      BY <3>2, ListSteps DEF Lists
    <3> QED
      BY <2>2, <3>1, <3>2 DEF cmdUSER, cmdPASS, onlyReply, cmdQUIT, cmdPASV, cmdPORT, loopInPath
  <2>3. ASSUME cmdRETR PROVE UNCHANGED files
    BY <2>3, Zenon DEF cmdRETR, refuse
  <2>4. ASSUME openDataConnection \/ readRecord \/ endRETR \/ endList PROVE UNCHANGED files
    BY <2>4, OpenDataSteps DEF readRecord, endRETR, endList, NotConnected, Connected
  <2>5. CASE recvChunk \/ endSTOR
    <3>1. Here({"STOR", "APPE"})
      BY <2>5 DEF recvChunk, endSTOR
    <3>2. \E recs, n : writeRecords(recs, n)
      BY <2>5, Zenon DEF recvChunk, endSTOR
    <3> QED
      BY <3>1, <3>2, RightlyWritten
  <2> QED
    BY <1>1, <2>1, <2>2, <2>3, <2>4, <2>5, RightlyDELE, RightlyRNTO, RightlySTOR
    DEF main, processSingleCmd
<1>2. ASSUME clientSteps \/ (\E c \in Clients : dial(c)) \/ readError \/ loseData \/ terminate
      PROVE  UNCHANGED files
  BY <1>2 DEF clientSteps, call, beginCommand, sendCommand, leave, dial, serverSide, readError,
     loseData, terminate, sock_shutdown
<1> QED
  BY <1>1, <1>2 DEF FtpNext

(* A file is changed only for a client that has logged in and not out      *)
(* again, only if the command or the RNFR before it names it, and replaced *)
(* by STOR only if that is asked for; a file on a read-only disk only by   *)
(* an upload whose path leads to the root, where cmdSTOR asks disks[-1].   *)
THEOREM OnlyAllowedChanges == FtpSpec => ChangesAllowed
<1>1. FtpInit => WriteInv
  BY DEF FtpInit, WriteInv, Moving
<1>2. TypeInv /\ WriteInv /\ [FtpNext]_ftpVars => WriteInv'
  BY WriteNext
<1> DEFINE Change ==
      \A d \in DiskIdx, nm \in Names :
        files'[d][nm] # files[d][nm] =>
          LET said == Said(me.client)
          IN /\ ~disks[d].readonly \/ UploadToRoot
             /\ Authorised(said)
             /\ \/ cmd.arg.name = nm
                \/ /\ cmd.cmd = "RNTO"
                   /\ LastHeard(said) > 0
                   /\ said[LastHeard(said)].arg.name = nm
             /\ cmd.cmd = "STOR" /\ pc = "cmd" /\ files[d][nm].is =>
                  autoOverwrite \/ cmd.arg.replace
<1>3. TypeInv /\ MovingInv /\ CommandsInv /\ WriteInv /\ AuthInv /\ [FtpNext]_ftpVars
        => [Change]_ftpVars
  BY RightlyChanged, Zenon DEF Rightly
<1>4. ChangesAllowed <=> [][Change]_ftpVars
  BY DEF ChangesAllowed
<1> HIDE DEF Change
<1> QED
  BY <1>1, <1>2, <1>3, <1>4, TypesHold, OwnersHold, CommandsHold, AuthHold, PTL DEF FtpSpec

-----------------------------------------------------------------------------
(* What an upload stores.                                                  *)

(* A set of sequences that holds the empty one, and with every sequence    *)
(* those that are longer by one element, holds them all.                   *)
LEMMA SeqInductive ==
  ASSUME NEW S, NEW T, <<>> \in T, \A s \in Seq(S) : \A e \in S : s \in T => Append(s, e) \in T
  PROVE  \A s \in Seq(S) : s \in T
<1> TAKE s \in Seq(S)
<1> DEFINE n == Len(s)
           U == {i \in 0 .. n : SubSeq(s, 1, i) \in T}
<1>1. n \in Nat
  OBVIOUS
<1>2. 0 \in U
  <2>1. SubSeq(s, 1, 0) = <<>>
    BY SubSeqEmpty
  <2>2. SubSeq(s, 1, 0) \in T
    BY <2>1
  <2>3. 0 \in 0 .. n
    BY <1>1
  <2> QED
    BY <2>2, <2>3, Zenon
<1>3. ASSUME NEW i \in 0 .. n - 1, i \in U PROVE i + 1 \in U
  <2>1. i + 1 \in 1 .. n /\ s[i + 1] \in S /\ SubSeq(s, 1, i) \in Seq(S)
    BY <1>1
  <2>2. SubSeq(s, 1, i + 1) = Append(SubSeq(s, 1, i), s[i + 1])
    <3>1. SubSeq(s, 1, i + 1) = SubSeq(s, 1, (i + 1) - 1) \o <<s[i + 1]>>
      BY <2>1, SubSeqRecursiveSecond
    <3>2. (i + 1) - 1 = i
      BY <2>1
    <3> QED
      BY <2>1, <3>1, <3>2, AppendIsConcat
  <2>3. SubSeq(s, 1, i) \in T
    BY <1>3, Zenon
  <2>4. SubSeq(s, 1, i + 1) \in T
    BY <2>1, <2>2, <2>3
  <2>5. i + 1 \in 0 .. n
    BY <1>1
  <2> QED
    BY <2>4, <2>5, Zenon
<1>4. \A i \in 0 .. n : i \in U
  <2> HIDE DEF U, n
  <2> QED
    BY <1>1, <1>2, <1>3, Inductive
<1>5. SubSeq(s, 1, n) \in T
  <2>1. n \in 0 .. n
    BY <1>1
  <2> QED
    BY <1>4, <2>1, Zenon
<1> QED
  BY <1>5, SubSeqFull

(* Sequences of bytes.                                                     *)
Bytes == Seq(Nat)

LEMMA OfBytes ==
  /\ <<>> \in Bytes
  /\ \A b \in Bytes : <<>> \o b = b /\ b \o <<>> = b
  /\ \A b \in Bytes, e \in Nat : Append(b, e) \in Bytes /\ b \o <<e>> = Append(b, e)
  /\ \A a, b \in Bytes : a \o b \in Bytes
  /\ \A a, b, c \in Bytes : (a \o b) \o c = a \o (b \o c)
<1>1. <<>> \in Seq(Nat)
  OBVIOUS
<1>2. ASSUME NEW b \in Seq(Nat) PROVE <<>> \o b = b /\ b \o <<>> = b
  OBVIOUS
<1>3. ASSUME NEW b \in Seq(Nat), NEW e \in Nat
      PROVE  Append(b, e) \in Seq(Nat) /\ b \o <<e>> = Append(b, e)
  OBVIOUS
<1>4. ASSUME NEW a \in Seq(Nat), NEW b \in Seq(Nat) PROVE a \o b \in Seq(Nat)
  OBVIOUS
<1>5. ASSUME NEW a \in Seq(Nat), NEW b \in Seq(Nat), NEW c \in Seq(Nat)
      PROVE  (a \o b) \o c = a \o (b \o c)
  OBVIOUS
<1> QED
  BY <1>1, <1>2, <1>3, <1>4, <1>5, Zenon DEF Bytes

LEMMA AppendBehind ==
  ASSUME NEW a \in Bytes, NEW b \in Bytes, NEW e \in Nat
  PROVE  a \o Append(b, e) = Append(a \o b, e)
BY DEF Bytes

LEMMA BytesInductive ==
  ASSUME NEW T, <<>> \in T, \A b \in Bytes : \A e \in Nat : b \in T => Append(b, e) \in T
  PROVE  \A b \in Bytes : b \in T
BY SeqInductive DEF Bytes

(* What Sift returns, and makes of a sequence that is longer by a byte.    *)
LEMMA SiftType == ASSUME NEW bytes \in Bytes, NEW drop PROVE Sift(bytes, drop) \in Bytes
<1>1. PICK w \in [0 .. Len(bytes) -> Seq(Nat)] : Sift(bytes, drop) = w[Len(bytes)]
  BY Sifting, Zenon DEF Bytes
<1>2. Len(bytes) \in 0 .. Len(bytes)
  BY DEF Bytes
<1> QED
  BY <1>1, <1>2 DEF Bytes

LEMMA SiftNone == ASSUME NEW drop PROVE Sift(<<>>, drop) = <<>>
<1>1. <<>> \in Seq({}) /\ Len(<<>>) = 0
  OBVIOUS
<1>2. PICK w \in [0 .. Len(<<>>) -> Seq({})] :
        Sifts(w, <<>>, drop) /\ Sift(<<>>, drop) = w[Len(<<>>)]
  BY <1>1, Sifting, Zenon
<1> QED
  BY <1>1, <1>2 DEF Sifts

LEMMA SiftOne ==
  ASSUME NEW bytes \in Bytes, NEW b \in Nat, NEW drop
  PROVE  /\ b \in drop => Sift(Append(bytes, b), drop) = Sift(bytes, drop)
         /\ b \notin drop => Sift(Append(bytes, b), drop) = Append(Sift(bytes, drop), b)
<1> DEFINE n == Len(bytes)
           more == Append(bytes, b)
<1>1. n \in Nat /\ more \in Seq(Nat) /\ Len(more) = n + 1 /\ more[n + 1] = b
      /\ bytes \in Seq(Nat) /\ \A i \in 1 .. n : more[i] = bytes[i]
  BY DEF Bytes
<1>2. PICK w \in [0 .. n -> Seq(Nat)] :
        Sifts(w, bytes, drop) /\ Sift(bytes, drop) = w[n]
  BY <1>1, Sifting, Zenon
<1> HIDE DEF more
<1>3. PICK v \in [0 .. n + 1 -> Seq(Nat)] :
        Sifts(v, more, drop) /\ Sift(more, drop) = v[n + 1]
  <2>1. \E v \in [0 .. Len(more) -> Seq(Nat)] :
          Sifts(v, more, drop) /\ Sift(more, drop) = v[Len(more)]
    BY <1>1, Sifting, Zenon
  <2> QED
    BY <1>1, <2>1, Zenon
<1> HIDE DEF n
<1> DEFINE T == {i \in 0 .. n : v[i] = w[i]}
<1>4. 0 \in T
  BY <1>1, <1>2, <1>3 DEF Sifts
<1>5. ASSUME NEW i \in 0 .. n - 1, i \in T PROVE i + 1 \in T
  <2>1. i + 1 \in 1 .. n /\ i + 1 \in 1 .. n + 1 /\ (i + 1) - 1 = i
    BY <1>1
  <2>2. v[i + 1] = IF more[i + 1] \in drop THEN v[i] ELSE Append(v[i], more[i + 1])
    BY <1>1, <1>3, <2>1 DEF Sifts
  <2>3. w[i + 1] = IF bytes[i + 1] \in drop THEN w[i] ELSE Append(w[i], bytes[i + 1])
    BY <1>2, <2>1 DEF Sifts, n
  <2>4. more[i + 1] = bytes[i + 1]
    BY <1>1, <2>1
  <2>5. v[i] = w[i]
    BY <1>5
  <2>6. v[i + 1] = w[i + 1]
    BY <2>2, <2>3, <2>4, <2>5, Zenon
  <2>7. i + 1 \in 0 .. n
    BY <1>1
  <2> QED
    BY <2>6, <2>7, Zenon
<1>6. \A i \in 0 .. n : i \in T
  <2> HIDE DEF T
  <2> QED
    BY <1>1, <1>4, <1>5, Inductive
<1>7. v[n] = w[n] /\ n + 1 \in 1 .. n + 1 /\ (n + 1) - 1 = n /\ w[n] \in Seq(Nat)
  BY <1>1, <1>2, <1>6
<1>8. v[n + 1] = IF more[n + 1] \in drop THEN v[n] ELSE Append(v[n], more[n + 1])
  BY <1>1, <1>3, <1>7 DEF Sifts
<1>9. Sift(more, drop) = IF b \in drop THEN Sift(bytes, drop) ELSE Append(Sift(bytes, drop), b)
  BY <1>1, <1>2, <1>3, <1>7, <1>8
<1> QED
  BY <1>2, <1>7, <1>9, Zenon DEF more

(* It is the same for the parts of a sequence.                             *)
LEMMA SiftParts ==
  ASSUME NEW a \in Bytes, NEW b \in Bytes, NEW drop
  PROVE  Sift(a \o b, drop) = Sift(a, drop) \o Sift(b, drop)
<1> DEFINE T == {c \in Bytes : Sift(a \o c, drop) = Sift(a, drop) \o Sift(c, drop)}
<1>1. <<>> \in T
  BY OfBytes, SiftType, SiftNone
<1>2. ASSUME NEW c \in Bytes, NEW e \in Nat, Sift(a \o c, drop) = Sift(a, drop) \o Sift(c, drop)
      PROVE  Sift(a \o Append(c, e), drop) = Sift(a, drop) \o Sift(Append(c, e), drop)
  <2>1. a \o c \in Bytes /\ a \o Append(c, e) = Append(a \o c, e)
    BY OfBytes, AppendBehind, Zenon
  <2>2. Sift(a, drop) \in Bytes /\ Sift(c, drop) \in Bytes
    BY SiftType
  <2>3. Append(Sift(a, drop) \o Sift(c, drop), e) = Sift(a, drop) \o Append(Sift(c, drop), e)
    BY <2>2, AppendBehind, Zenon
  <2>4. CASE e \in drop
    <3>1. Sift(Append(a \o c, e), drop) = Sift(a \o c, drop) /\ Sift(Append(c, e), drop) = Sift(c, drop)
      BY <2>1, <2>4, SiftOne, Zenon
    <3> QED
      BY <1>2, <2>1, <3>1, Zenon
  <2>5. CASE e \notin drop
    <3>1. Sift(Append(a \o c, e), drop) = Append(Sift(a \o c, drop), e)
          /\ Sift(Append(c, e), drop) = Append(Sift(c, drop), e)
      BY <2>1, <2>5, SiftOne, Zenon
    <3> QED
      BY <1>2, <2>1, <2>3, <3>1, Zenon
  <2> QED
    BY <2>4, <2>5
<1>3. \A c \in Bytes : \A e \in Nat : c \in T => Append(c, e) \in T
  BY <1>2, OfBytes
<1>4. \A c \in Bytes : c \in T
  <2> HIDE DEF T
  <2> QED
    BY <1>1, <1>3, BytesInductive
<1> QED
  BY <1>4

(* Nothing is dropped, or everything is.                                   *)
LEMMA SiftKeeps ==
  ASSUME NEW drop, NEW S, S \subseteq Nat, S \cap drop = {} PROVE \A b \in Seq(S) : Sift(b, drop) = b
<1> DEFINE T == {b \in Bytes : Sift(b, drop) = b}
<1>1. <<>> \in T
  BY OfBytes, SiftNone
<1>2. ASSUME NEW b, NEW e \in S, b \in T PROVE Append(b, e) \in T
  <2>1. e \in Nat /\ b \in Bytes /\ Append(b, e) \in Bytes
    BY <1>2, OfBytes
  <2> QED
    BY <1>2, <2>1, SiftOne
<1>3. \A b \in Seq(S) : b \in T
  <2> HIDE DEF T
  <2> QED
    BY <1>1, <1>2, SeqInductive
<1> QED
  BY <1>3

LEMMA SiftDrops ==
  ASSUME NEW drop, NEW S, S \subseteq Nat, S \subseteq drop
  PROVE  \A b \in Seq(S) : Sift(b, drop) = <<>>
<1> DEFINE T == {b \in Bytes : Sift(b, drop) = <<>>}
<1>1. <<>> \in T
  BY OfBytes, SiftNone
<1>2. ASSUME NEW b, NEW e \in S, b \in T PROVE Append(b, e) \in T
  <2>1. e \in Nat /\ b \in Bytes /\ Append(b, e) \in Bytes
    BY <1>2, OfBytes
  <2> QED
    BY <1>2, <2>1, SiftOne
<1>3. \A b \in Seq(S) : b \in T
  <2> HIDE DEF T
  <2> QED
    BY <1>1, <1>2, SeqInductive
<1> QED
  BY <1>3

(* What Joined makes of sequences and one more.                            *)
ByteRows == Seq(Bytes)

LEMMA JoinedType == ASSUME NEW rows \in ByteRows PROVE Joined(rows) \in Bytes
<1>1. PICK w \in [0 .. Len(rows) -> Seq(Nat)] : Joined(rows) = w[Len(rows)]
  BY Joining, Zenon DEF ByteRows, Bytes
<1>2. Len(rows) \in 0 .. Len(rows)
  BY DEF ByteRows
<1> QED
  BY <1>1, <1>2 DEF Bytes

LEMMA JoinedNone == Joined(<<>>) = <<>>
<1>1. <<>> \in Seq(Seq({})) /\ Len(<<>>) = 0
  OBVIOUS
<1>2. PICK w \in [0 .. Len(<<>>) -> Seq({})] : Joins(w, <<>>) /\ Joined(<<>>) = w[Len(<<>>)]
  BY <1>1, Joining, Zenon
<1> QED
  BY <1>1, <1>2 DEF Joins

LEMMA JoinedOne ==
  ASSUME NEW rows \in ByteRows, NEW b \in Bytes
  PROVE  Joined(Append(rows, b)) = Joined(rows) \o b
<1> DEFINE n == Len(rows)
           more == Append(rows, b)
<1>1. n \in Nat /\ more \in Seq(Seq(Nat)) /\ Len(more) = n + 1 /\ more[n + 1] = b
      /\ rows \in Seq(Seq(Nat)) /\ \A i \in 1 .. n : more[i] = rows[i]
  BY DEF Bytes, ByteRows
<1>2. PICK w \in [0 .. n -> Seq(Nat)] : Joins(w, rows) /\ Joined(rows) = w[n]
  BY <1>1, Joining, Zenon
<1> HIDE DEF more
<1>3. PICK v \in [0 .. n + 1 -> Seq(Nat)] : Joins(v, more) /\ Joined(more) = v[n + 1]
  <2>1. \E v \in [0 .. Len(more) -> Seq(Nat)] : Joins(v, more) /\ Joined(more) = v[Len(more)]
    BY <1>1, Joining, Zenon
  <2> QED
    BY <1>1, <2>1, Zenon
<1> HIDE DEF n
<1> DEFINE T == {i \in 0 .. n : v[i] = w[i]}
<1>4. 0 \in T
  BY <1>1, <1>2, <1>3 DEF Joins
<1>5. ASSUME NEW i \in 0 .. n - 1, i \in T PROVE i + 1 \in T
  <2>1. i + 1 \in 1 .. n /\ i + 1 \in 1 .. n + 1 /\ (i + 1) - 1 = i
    BY <1>1
  <2>2. v[i + 1] = v[i] \o more[i + 1]
    BY <1>1, <1>3, <2>1 DEF Joins
  <2>3. w[i + 1] = w[i] \o rows[i + 1]
    BY <1>2, <2>1 DEF Joins, n
  <2>4. more[i + 1] = rows[i + 1]
    BY <1>1, <2>1
  <2>5. v[i] = w[i]
    BY <1>5
  <2>6. v[i + 1] = w[i + 1]
    BY <2>2, <2>3, <2>4, <2>5, Zenon
  <2>7. i + 1 \in 0 .. n
    BY <1>1
  <2> QED
    BY <2>6, <2>7, Zenon
<1>6. \A i \in 0 .. n : i \in T
  <2> HIDE DEF T
  <2> QED
    BY <1>1, <1>4, <1>5, Inductive
<1>7. v[n] = w[n] /\ n + 1 \in 1 .. n + 1 /\ (n + 1) - 1 = n
  BY <1>1, <1>6
<1>8. v[n + 1] = v[n] \o more[n + 1]
  BY <1>1, <1>3, <1>7 DEF Joins
<1> QED
  BY <1>1, <1>2, <1>3, <1>7, <1>8, Zenon DEF more

(* What Texts makes of records and one more.                               *)
AllRecords  == Seq(Records)
Sifted(recs) == [i \in DOMAIN recs |-> Sift(recs[i], {BLANK})]

LEMMA RecordBytes == ASSUME NEW rec \in Records PROVE rec \in Bytes
BY DEF Records, Bytes

LEMMA SiftedType == ASSUME NEW recs \in AllRecords PROVE Sifted(recs) \in ByteRows
<1>1. recs \in Seq(Records)
  BY DEF AllRecords
<1>2. ASSUME NEW i \in 1 .. Len(recs) PROVE Sift(recs[i], {BLANK}) \in Bytes
  <2>1. recs[i] \in Records
    BY <1>1
  <2> QED
    BY <2>1, RecordBytes, SiftType, Zenon
<1>3. DOMAIN recs = 1 .. Len(recs) /\ Len(recs) \in Nat
  BY <1>1
<1>4. Sifted(recs) = [i \in 1 .. Len(recs) |-> Sift(recs[i], {BLANK})]
  BY <1>3, Zenon DEF Sifted
<1> DEFINE S(i) == Sift(recs[i], {BLANK})
           q == [i \in 1 .. Len(recs) |-> S(i)]
<1>5. \A i \in 1 .. Len(recs) : S(i) \in Bytes
  BY <1>2
<1>6. q \in Seq(Bytes)
  <2> HIDE DEF S
  <2> QED
    BY <1>3, <1>5
<1> QED
  BY <1>4, <1>6, Zenon DEF ByteRows

LEMMA TextsNone == Texts(<<>>) = <<>>
<1>1. Sifted(<<>>) = <<>>
  BY DEF Sifted
<1>2. Texts(<<>>) = Joined(Sifted(<<>>))
  BY Zenon DEF Texts, Sifted
<1> QED
  BY <1>1, <1>2, JoinedNone

LEMMA TextsType == ASSUME NEW recs \in AllRecords PROVE Texts(recs) \in Bytes
<1>1. Texts(recs) = Joined(Sifted(recs))
  BY Zenon DEF Texts, Sifted
<1> QED
  BY <1>1, SiftedType, JoinedType

LEMMA LongerRow ==
  ASSUME NEW rows \in Seq(Bytes), NEW b \in Bytes
  PROVE  /\ Append(rows, b)[Len(rows) + 1] = b
         /\ \A i \in 1 .. Len(rows) : Append(rows, b)[i] = rows[i]
OBVIOUS

LEMMA TextsOne ==
  ASSUME NEW recs \in AllRecords, NEW rec \in Records
  PROVE  /\ Append(recs, rec) \in AllRecords
         /\ Texts(Append(recs, rec)) = Texts(recs) \o Sift(rec, {BLANK})
<1> DEFINE n == Len(recs)
           S(r) == Sift(r, {BLANK})
           more == Append(recs, rec)
           a == [i \in 1 .. n |-> S(recs[i])]
           b == [i \in 1 .. n + 1 |-> S(more[i])]
<1>1. n \in Nat /\ DOMAIN recs = 1 .. n /\ DOMAIN more = 1 .. n + 1 /\ more[n + 1] = rec
      /\ more \in AllRecords /\ \A i \in 1 .. n : more[i] = recs[i]
  BY DEF AllRecords
<1>2. Sifted(recs) = a /\ Sifted(more) = b
  <2> HIDE DEF n, more
  <2> QED
    BY <1>1, Zenon DEF Sifted
<1>3. a \in ByteRows /\ b \in ByteRows
  BY <1>1, <1>2, SiftedType
<1>4. S(rec) \in Bytes
  BY RecordBytes, SiftType
<1>5. b = Append(a, S(rec))
  <2> HIDE DEF S, n, more
  <2>1. a \in Seq(Bytes) /\ b \in Seq(Bytes) /\ S(rec) \in Bytes
    BY <1>3, <1>4 DEF ByteRows
  <2>2. Len(a) = n /\ Len(b) = n + 1
    BY <1>1
  <2>3. \A i \in 1 .. n + 1 : b[i] = Append(a, S(rec))[i]
    <3>1. ASSUME NEW i \in 1 .. n PROVE b[i] = S(recs[i]) /\ a[i] = S(recs[i])
      BY <1>1
    <3>2. b[n + 1] = S(rec)
      BY <1>1
    <3> HIDE DEF a, b
    <3>3. Append(a, S(rec))[n + 1] = S(rec) /\ \A i \in 1 .. n : Append(a, S(rec))[i] = a[i]
      <4>1. /\ Append(a, S(rec))[Len(a) + 1] = S(rec)
            /\ \A i \in 1 .. Len(a) : Append(a, S(rec))[i] = a[i]
        BY <2>1, LongerRow
      <4>2. Len(a) = n
        BY <2>2
      <4> QED
        BY <4>1, <4>2, Zenon
    <3>4. \A i \in 1 .. n + 1 : i \in 1 .. n \/ i = n + 1
      BY <1>1
    <3> QED
      BY <3>1, <3>2, <3>3, <3>4, Zenon
  <2> HIDE DEF a, b
  <2>4. Append(a, S(rec)) \in Seq(Bytes) /\ Len(Append(a, S(rec))) = n + 1
    BY <2>1, <2>2
  <2> QED
    BY <2>1, <2>2, <2>3, <2>4, SeqEqual
<1>6. Texts(recs) = Joined(a) /\ Texts(more) = Joined(b)
  BY <1>2, Zenon DEF Texts, Sifted
<1> HIDE DEF a, b, S
<1>7. Joined(b) = Joined(a) \o S(rec)
  BY <1>3, <1>4, <1>5, JoinedOne
<1> QED
  BY <1>1, <1>6, <1>7, Zenon DEF S

(* Sequences of records.                                                   *)
LEMMA OfRecords ==
  /\ <<>> \in AllRecords
  /\ \A a \in AllRecords : a \o <<>> = a
  /\ \A a, b \in AllRecords : a \o b \in AllRecords
<1>1. <<>> \in Seq(Records)
  OBVIOUS
<1>2. ASSUME NEW a \in Seq(Records) PROVE a \o <<>> = a
  OBVIOUS
<1>3. ASSUME NEW a \in Seq(Records), NEW b \in Seq(Records) PROVE a \o b \in Seq(Records)
  OBVIOUS
<1> QED
  BY <1>1, <1>2, <1>3, Zenon DEF AllRecords

LEMMA RecordBehind ==
  ASSUME NEW a \in AllRecords, NEW b \in AllRecords, NEW r \in Records
  PROVE  a \o Append(b, r) = Append(a \o b, r)
BY DEF AllRecords

LEMMA RecordsInductive ==
  ASSUME NEW T, <<>> \in T, \A b \in AllRecords : \A r \in Records : b \in T => Append(b, r) \in T
  PROVE  \A b \in AllRecords : b \in T
BY SeqInductive DEF AllRecords

(* The text of records, behind others, is behind the text of those.        *)
LEMMA TextsParts ==
  ASSUME NEW a \in AllRecords, NEW b \in AllRecords PROVE Texts(a \o b) = Texts(a) \o Texts(b)
<1> DEFINE T == {c \in AllRecords : Texts(a \o c) = Texts(a) \o Texts(c)}
<1>1. <<>> \in T
  <2>1. Texts(a) \o <<>> = Texts(a)
    BY TextsType, OfBytes
  <2> QED
    BY <2>1, OfRecords, TextsNone
<1>2. ASSUME NEW c \in AllRecords, NEW r \in Records, Texts(a \o c) = Texts(a) \o Texts(c)
      PROVE  Append(c, r) \in AllRecords /\ Texts(a \o Append(c, r)) = Texts(a) \o Texts(Append(c, r))
  <2>1. a \o c \in AllRecords /\ a \o Append(c, r) = Append(a \o c, r)
    BY OfRecords, RecordBehind, Zenon
  <2>2. Texts(Append(a \o c, r)) = Texts(a \o c) \o Sift(r, {BLANK})
    BY <2>1, TextsOne, Zenon
  <2>3. /\ Append(c, r) \in AllRecords
        /\ Texts(Append(c, r)) = Texts(c) \o Sift(r, {BLANK})
    BY TextsOne, Zenon
  <2>4. Texts(a) \in Bytes /\ Texts(c) \in Bytes /\ Sift(r, {BLANK}) \in Bytes
    BY TextsType, RecordBytes, SiftType
  <2>5. (Texts(a) \o Texts(c)) \o Sift(r, {BLANK}) = Texts(a) \o (Texts(c) \o Sift(r, {BLANK}))
    BY <2>4, OfBytes, Zenon
  <2> QED
    BY <1>2, <2>1, <2>2, <2>3, <2>5, Zenon
<1>3. \A c \in AllRecords : \A r \in Records : c \in T => Append(c, r) \in T
  BY <1>2
<1>4. \A c \in AllRecords : c \in T
  <2> HIDE DEF T
  <2> QED
    BY <1>1, <1>3, RecordsInductive
<1> QED
  BY <1>4

(* A record holds the bytes it was made from.                              *)
LEMMA Padded ==
  ASSUME NEW b \in Seq(Nat), NEW pad \in Seq(Nat), NEW r \in Seq(Nat), NEW m \in Nat,
         Len(pad) = m, Len(r) = Len(b) + m, \A i \in 1 .. m : pad[i] = BLANK,
         \A i \in 1 .. Len(b) + m : r[i] = IF i <= Len(b) THEN b[i] ELSE BLANK
  PROVE  r = b \o pad
<1>1. b \o pad \in Seq(Nat) /\ Len(b \o pad) = Len(b) + m
  BY ConcatProperties, Zenon
<1>2. ASSUME NEW i \in 1 .. Len(b) + m PROVE (b \o pad)[i] = r[i]
  <2>1. (b \o pad)[i] = IF i <= Len(b) THEN b[i] ELSE pad[i - Len(b)]
    OBVIOUS
  <2>2. i > Len(b) => i - Len(b) \in 1 .. m
    OBVIOUS
  <2> QED
    BY <2>1, <2>2
<1> QED
  BY <1>1, <1>2, SeqEqual

LEMMA RecordHolds ==
  ASSUME NEW format \in Formats, NEW bytes \in Seq(Nat \ {BLANK}), Len(bytes) < PACKETLEN
  PROVE  Sift(recordOf(bytes, format), {BLANK}) = bytes
<1> DEFINE r == recordOf(bytes, format)
           n == Len(bytes)
           m == Len(r) - n
           pad == [i \in 1 .. m |-> BLANK]
<1>1. bytes \in Seq(Nat) /\ n \in Nat
  OBVIOUS
<1>2. r \in Records /\ Len(r) >= n /\ \A i \in 1 .. Len(r) : r[i] = IF i <= n THEN bytes[i] ELSE BLANK
  BY <1>1, RecordType
<1>3. r \in Seq(Nat) /\ m \in Nat /\ Len(r) = n + m
  <2> HIDE DEF r
  <2>1. r \in Seq(Nat)
    BY <1>2 DEF Records
  <2>2. Len(r) \in Nat
    BY <2>1
  <2> DEFINE k == Len(r)
  <2>3. k \in Nat /\ k >= n /\ m = k - n
    BY <1>2, <2>2
  <2> HIDE DEF k, m, n
  <2>4. m \in Nat /\ k = n + m
    BY <1>1, <2>3
  <2> QED
    BY <2>1, <2>4 DEF k
<1> HIDE DEF r, m
<1>4. pad \in Seq({BLANK}) /\ pad \in Seq(Nat) /\ Len(pad) = m /\ \A i \in 1 .. m : pad[i] = BLANK
  BY <1>3 DEF BLANK
<1> HIDE DEF pad, n
<1>5. r = bytes \o pad
  <2>1. \A i \in 1 .. n + m : r[i] = IF i <= n THEN bytes[i] ELSE BLANK
    BY <1>2, <1>3
  <2> QED
    BY <1>1, <1>3, <1>4, <2>1, Padded, Zenon DEF n
<1>6. bytes \in Bytes /\ pad \in Bytes
  BY <1>1, <1>4, Zenon DEF Bytes
<1>7. Sift(bytes, {BLANK}) = bytes
  <2>1. Nat \ {BLANK} \subseteq Nat /\ (Nat \ {BLANK}) \cap {BLANK} = {}
    OBVIOUS
  <2> QED
    BY <2>1, SiftKeeps
<1>8. Sift(pad, {BLANK}) = <<>>
  <2>1. {BLANK} \subseteq Nat /\ {BLANK} \subseteq {BLANK}
    BY DEF BLANK
  <2> QED
    BY <1>4, <2>1, SiftDrops
<1>9. Sift(bytes \o pad, {BLANK}) = bytes \o <<>>
  <2>1. Sift(bytes \o pad, {BLANK}) = Sift(bytes, {BLANK}) \o Sift(pad, {BLANK})
    BY <1>6, SiftParts
  <2> QED
    BY <1>7, <1>8, <2>1, Zenon
<1> QED
  BY <1>5, <1>6, <1>9, OfBytes DEF r

(* What has been made of the bytes of a packet: records, and one that is   *)
(* being filled.  The records fit the format.                              *)
Content(s) == Texts(s.recs) \o s.fill
Fit(recs, format) == \A i \in DOMAIN recs : Len(recs[i]) <= Max({1, format.lrecl})
LineEnds(format) == IF format.binary THEN {} ELSE {LF}

LEMMA FitOne ==
  ASSUME NEW format, NEW recs \in AllRecords, NEW r \in Records,
         Fit(recs, format), Len(r) <= Max({1, format.lrecl})
  PROVE  Fit(Append(recs, r), format)
<1>1. /\ DOMAIN Append(recs, r) = 1 .. Len(recs) + 1 /\ DOMAIN recs = 1 .. Len(recs)
      /\ Append(recs, r)[Len(recs) + 1] = r
      /\ \A i \in 1 .. Len(recs) : Append(recs, r)[i] = recs[i]
      /\ \A i \in 1 .. Len(recs) + 1 : i \in 1 .. Len(recs) \/ i = Len(recs) + 1
  BY DEF AllRecords
<1> QED
  BY <1>1, Zenon DEF Fit

(* One byte is added, or is the end of a line.                             *)
LEMMA TakeOne ==
  ASSUME NEW format \in Formats, NEW s \in Taken(format), NEW b \in Nat \ {BLANK},
         Fit(s.recs, format)
  PROVE  /\ b \in LineEnds(format) => Content(takeByte(s, b, format)) = Content(s)
         /\ b \notin LineEnds(format) =>
              Content(takeByte(s, b, format)) = Append(Content(s), b)
         /\ Fit(takeByte(s, b, format).recs, format)
<1> DEFINE fill == Append(s.fill, b)
           R(bytes) == recordOf(bytes, format)
           end  == [fill |-> <<>>, recs |-> Append(s.recs, R(s.fill))]
           full == [fill |-> <<>>, recs |-> Append(s.recs, R(fill))]
<1>1. s.fill \in Fills(format) /\ s.recs \in AllRecords /\ format.lrecl \in 0 .. PACKETLEN - 1
      /\ s = [fill |-> s.fill, recs |-> s.recs]
  BY DEF Taken, Formats, Lrecls, AllRecords
<1>2. s.fill \in Seq(Nat) /\ Len(s.fill) < PACKETLEN /\ Len(s.fill) <= Max({1, format.lrecl})
  BY <1>1, FillFits
<1>3. s.fill \in Seq(Nat \ {BLANK}) /\ (s.fill = <<>> \/ Len(s.fill) < format.lrecl)
  BY <1>1 DEF Fills
<1>4. fill \in Seq(Nat \ {BLANK}) /\ fill \in Seq(Nat) /\ Len(fill) = Len(s.fill) + 1
  BY <1>3
<1>5. Max({1, format.lrecl}) = IF 1 <= format.lrecl THEN format.lrecl ELSE 1
  BY <1>1, MaxOfTwo, PacketRoom
<1>6. Len(fill) < PACKETLEN /\ Len(fill) <= Max({1, format.lrecl})
  <2>1. s.fill = <<>> => Len(s.fill) = 0
    OBVIOUS
  <2>2. Len(s.fill) \in Nat
    BY <1>2
  <2> DEFINE k == Len(s.fill)
             max == Max({1, format.lrecl})
  <2>3. Len(fill) = k + 1 /\ k \in Nat /\ (k = 0 \/ k < format.lrecl)
    BY <1>3, <1>4, <2>1, <2>2
  <2> HIDE DEF k, max, fill
  <2> QED
    BY <1>1, <1>5, <2>3, PacketRoom DEF max
<1>7. Texts(s.recs) \in Bytes /\ s.fill \in Bytes
  BY <1>1, <1>2, TextsType, Zenon DEF Bytes
<1> HIDE DEF fill
<1>8. R(s.fill) \in Records /\ Sift(R(s.fill), {BLANK}) = s.fill /\ Len(R(s.fill)) <= Max({1, format.lrecl})
  BY <1>2, <1>3, RecordType, RecordHolds
<1>9. R(fill) \in Records /\ Sift(R(fill), {BLANK}) = fill /\ Len(R(fill)) <= Max({1, format.lrecl})
  BY <1>4, <1>6, RecordType, RecordHolds
<1> HIDE DEF R
<1>10. Content(end) = Content(s) /\ Fit(end.recs, format)
  <2>1. Texts(Append(s.recs, R(s.fill))) = Texts(s.recs) \o s.fill
    BY <1>1, <1>8, TextsOne, Zenon
  <2>2. Content(end) = (Texts(s.recs) \o s.fill) \o <<>>
    BY <2>1 DEF Content
  <2>3. Content(end) = Content(s)
    BY <1>7, <2>2, OfBytes, Zenon DEF Content
  <2> QED
    BY <1>1, <1>8, <2>3, FitOne
<1>11. Texts(s.recs) \o fill = Append(Content(s), b)
  <2>1. b \in Nat
    OBVIOUS
  <2> QED
    BY <1>7, <2>1, AppendBehind, Zenon DEF Content, fill
<1>12. Content(full) = Append(Content(s), b) /\ Fit(full.recs, format)
  <2>1. Texts(Append(s.recs, R(fill))) = Texts(s.recs) \o fill
    BY <1>1, <1>9, TextsOne, Zenon
  <2>2. Content(full) = (Texts(s.recs) \o fill) \o <<>>
    BY <2>1 DEF Content
  <2>3. Texts(s.recs) \o fill \in Bytes
    <3>1. fill \in Bytes
      BY <1>4, Zenon DEF Bytes
    <3> QED
      BY <1>7, <3>1, OfBytes, Zenon
  <2>4. Content(full) = Append(Content(s), b)
    BY <1>11, <2>2, <2>3, OfBytes, Zenon
  <2> QED
    BY <1>1, <1>9, <2>4, FitOne
<1>13. Content([s EXCEPT !.fill = fill]) = Append(Content(s), b)
       /\ Fit([s EXCEPT !.fill = fill].recs, format)
  <2>1. [s EXCEPT !.fill = fill] = [fill |-> fill, recs |-> s.recs]
    BY <1>1
  <2> QED
    BY <1>11, <2>1 DEF Content
<1>14. format.binary \in BOOLEAN
  BY DEF Formats
<1>15. b \in LineEnds(format) <=> (~format.binary /\ b = LF)
  BY <1>14 DEF LineEnds
<1>16. /\ ~format.binary /\ b = LF => takeByte(s, b, format) = end
       /\ ~(~format.binary /\ b = LF) =>
            takeByte(s, b, format) = full \/ takeByte(s, b, format) = [s EXCEPT !.fill = fill]
  <2>1. CASE ~format.binary /\ b = LF
    BY <2>1, Zenon DEF takeByte, fill, R
  <2>2. CASE ~(~format.binary /\ b = LF) /\ Len(fill) >= format.lrecl
    BY <2>2, Zenon DEF takeByte, fill, R
  <2>3. CASE ~(~format.binary /\ b = LF) /\ ~(Len(fill) >= format.lrecl)
    BY <2>3, Zenon DEF takeByte, fill, R
  <2> QED
    BY <2>1, <2>2, <2>3, Zenon
<1> HIDE DEF end, full
<1> QED
  BY <1>10, <1>12, <1>13, <1>15, <1>16, Zenon

(* A packet adds its text, however it was cut, and records that fit.       *)
LEMMA ChunkContent ==
  ASSUME NEW format \in Formats, NEW fill \in Fills(format), NEW chunk \in Seq(Nat \ {BLANK})
  PROVE  LET s == takeChunk(fill, chunk, format)
         IN /\ Texts(s.recs) \o s.fill = fill \o TextOf(chunk, format.binary)
            /\ Fit(s.recs, format)
<1> DEFINE start == [fill |-> fill, recs |-> <<>>]
           n == Len(chunk)
           drop == LineEnds(format)
<1>1. start \in Taken(format)
  <2>1. <<>> \in Seq(Records)
    OBVIOUS
  <2> QED
    BY <2>1 DEF Taken
<1>2. n \in Nat /\ chunk \in Bytes /\ chunk \in Seq(Nat) /\ fill \in Bytes
      /\ \A i \in 1 .. n : chunk[i] \in Nat \ {BLANK}
  <2>1. chunk \in Seq(Nat)
    OBVIOUS
  <2>2. fill \in Seq(Nat)
    BY FillFits
  <2>3. n \in Nat /\ \A i \in 1 .. n : chunk[i] \in Nat \ {BLANK}
    OBVIOUS
  <2> HIDE DEF n
  <2> QED
    BY <2>1, <2>2, <2>3, Zenon DEF Bytes
<1>3. PICK w \in [0 .. n -> Taken(format)] :
        /\ w[0] = start
        /\ \A i \in 1 .. n : w[i] = takeByte(w[i - 1], chunk[i], format)
        /\ takeBytes(start, chunk, format) = w[n]
  BY <1>1, TakeBytes
<1>4. PICK v \in [0 .. n -> Bytes] : Sifts(v, chunk, drop) /\ Sift(chunk, drop) = v[n]
  BY <1>2, Sifting, Zenon DEF Bytes
<1> HIDE DEF n, drop, start
<1> DEFINE T == {i \in 0 .. n : Content(w[i]) = fill \o v[i] /\ Fit(w[i].recs, format)}
<1>5. 0 \in T
  <2>1. start.recs = <<>> /\ start.fill = fill
    BY DEF start
  <2>2. Content(start) = fill /\ v[0] = <<>>
    BY <1>2, <1>4, <2>1, TextsNone, OfBytes, Zenon DEF Content, Sifts
  <2>3. fill \o v[0] = fill
    BY <1>2, <2>2, OfBytes, Zenon
  <2>4. Fit(start.recs, format)
    BY <2>1 DEF Fit
  <2>5. 0 \in 0 .. n
    BY <1>2
  <2> QED
    BY <1>3, <2>2, <2>3, <2>4, <2>5, Zenon
<1>6. ASSUME NEW i \in 0 .. n - 1, i \in T PROVE i + 1 \in T
  <2>1. i + 1 \in 1 .. n /\ i + 1 \in 0 .. n /\ i \in 0 .. n /\ (i + 1) - 1 = i
    BY <1>2
  <2>2. w[i + 1] = takeByte(w[i], chunk[i + 1], format) /\ w[i] \in Taken(format)
    BY <1>3, <2>1
  <2>3. chunk[i + 1] \in Nat \ {BLANK} /\ chunk[i + 1] \in Nat
    BY <1>2, <2>1
  <2>4. Content(w[i]) = fill \o v[i] /\ Fit(w[i].recs, format)
    BY <1>6, Zenon
  <2>5. /\ chunk[i + 1] \in drop => Content(w[i + 1]) = Content(w[i])
        /\ chunk[i + 1] \notin drop => Content(w[i + 1]) = Append(Content(w[i]), chunk[i + 1])
        /\ Fit(w[i + 1].recs, format)
    <3>1. drop = LineEnds(format)
      BY DEF drop
    <3> HIDE DEF T
    <3> DEFINE s == w[i]
               b == chunk[i + 1]
    <3>2. s \in Taken(format) /\ b \in Nat \ {BLANK} /\ Fit(s.recs, format)
      BY <2>2, <2>3, <2>4
    <3> HIDE DEF s, b
    <3>3. /\ b \in LineEnds(format) => Content(takeByte(s, b, format)) = Content(s)
          /\ b \notin LineEnds(format) => Content(takeByte(s, b, format)) = Append(Content(s), b)
          /\ Fit(takeByte(s, b, format).recs, format)
      BY <3>2, TakeOne
    <3> QED
      BY <2>2, <3>1, <3>3, Zenon DEF s, b
  <2>6. v[i + 1] = IF chunk[i + 1] \in drop THEN v[i] ELSE Append(v[i], chunk[i + 1])
    <3>1. v[i + 1] = IF chunk[i + 1] \in drop THEN v[(i + 1) - 1]
                     ELSE Append(v[(i + 1) - 1], chunk[i + 1])
      BY <1>4, <2>1, Zenon DEF Sifts, n
    <3> QED
      BY <2>1, <3>1, Zenon
  <2>7. v[i] \in Bytes
    BY <1>4, <2>1
  <2>8. fill \o Append(v[i], chunk[i + 1]) = Append(fill \o v[i], chunk[i + 1])
    BY <1>2, <2>3, <2>7, AppendBehind, Zenon
  <2>9. Content(w[i + 1]) = fill \o v[i + 1]
    <3>1. CASE chunk[i + 1] \in drop
      BY <2>4, <2>5, <2>6, <3>1, Zenon
    <3>2. CASE chunk[i + 1] \notin drop
      BY <2>4, <2>5, <2>6, <2>8, <3>2, Zenon
    <3> QED
      BY <3>1, <3>2
  <2> QED
    BY <2>1, <2>5, <2>9, Zenon
<1>7. \A i \in 0 .. n : i \in T
  <2> HIDE DEF T
  <2> QED
    BY <1>2, <1>5, <1>6, Inductive
<1>8. Content(w[n]) = fill \o v[n] /\ Fit(w[n].recs, format)
  <2>1. n \in 0 .. n
    BY <1>2
  <2> QED
    BY <1>7, <2>1, Zenon
<1>9. takeChunk(fill, chunk, format) = w[n]
  BY <1>3, Zenon DEF takeChunk, start
<1>10. TextOf(chunk, format.binary) = v[n]
  BY <1>4, Zenon DEF TextOf, drop, LineEnds
<1> QED
  BY <1>8, <1>9, <1>10, Zenon DEF Content

(* The order in which three pieces are put together does not matter.       *)
Associate(a, b, c) == (a \o b) \o c = a \o (b \o c)

LEMMA ConcatBytes == \A a, b, c \in Bytes : Associate(a, b, c)
<1>1. ASSUME NEW a \in Seq(Nat), NEW b \in Seq(Nat), NEW c \in Seq(Nat)
      PROVE  (a \o b) \o c = a \o (b \o c)
  OBVIOUS
<1> QED
  BY <1>1, Zenon DEF Bytes, Associate

(* A file has what was in it, and what has been received.                  *)
Stands(recs, buf, base, rcvd, binary) ==
  Texts(recs) \o buf = Texts(base) \o TextOf(rcvd, binary)
Made(added, fill, buf, chunk, binary) ==
  Texts(added) \o fill = buf \o TextOf(chunk, binary)

(* What a packet adds to a file.                                           *)
LEMMA StoreChunk ==
  ASSUME NEW recs \in AllRecords, NEW added \in AllRecords, NEW base \in AllRecords,
         NEW buf \in Bytes, NEW fill \in Bytes, NEW rcvd \in Bytes, NEW chunk \in Bytes, NEW binary,
         Stands(recs, buf, base, rcvd, binary), Made(added, fill, buf, chunk, binary)
  PROVE  Stands(recs \o added, fill, base, rcvd \o chunk, binary)
<1> DEFINE drop == IF binary THEN {} ELSE {LF}
           a == Texts(recs)
           b == Texts(added)
           c == Texts(base)
           r == Sift(rcvd, drop)
           k == Sift(chunk, drop)
<1>1. a \in Bytes /\ b \in Bytes /\ c \in Bytes
  BY TextsType
<1>2. TextOf(rcvd, binary) = r /\ TextOf(chunk, binary) = k
      /\ TextOf(rcvd \o chunk, binary) = Sift(rcvd \o chunk, drop)
  <2>1. TextOf(rcvd, binary) = r
    BY Zenon DEF TextOf
  <2>2. TextOf(chunk, binary) = k
    BY Zenon DEF TextOf
  <2>3. TextOf(rcvd \o chunk, binary) = Sift(rcvd \o chunk, drop)
    BY Zenon DEF TextOf
  <2> QED
    BY <2>1, <2>2, <2>3
<1> HIDE DEF drop
<1>3. r \in Bytes /\ k \in Bytes /\ Sift(rcvd \o chunk, drop) = r \o k
  <2>1. r \in Bytes
    BY SiftType, Zenon
  <2>2. k \in Bytes
    BY SiftType, Zenon
  <2>3. Sift(rcvd \o chunk, drop) = r \o k
    BY SiftParts
  <2> QED
    BY <2>1, <2>2, <2>3
<1>4. Texts(recs \o added) = a \o b
  BY TextsParts
<1>5. a \o buf = c \o r /\ b \o fill = buf \o k
  BY <1>2, Zenon DEF Stands, Made
<1> HIDE DEF a, b, c, r, k
<1>6. (a \o b) \o fill = c \o (r \o k)
  <2>1. Associate(a, b, fill) /\ Associate(a, buf, k) /\ Associate(c, r, k)
    BY <1>1, <1>3, ConcatBytes, Zenon
  <2> QED
    BY <1>5, <2>1, Zenon DEF Associate
<1> QED
  BY <1>2, <1>3, <1>4, <1>6, Zenon DEF c, Stands

LEMMA SplitBytes ==
  ASSUME NEW left \in Bytes, NEW len \in 1 .. Len(left)
  PROVE  SubSeq(left, 1, len) \o SubSeq(left, len + 1, Len(left)) = left
<1>1. left \in Seq(Nat) /\ Len(left) \in Nat /\ 1 \in 1 .. Len(left) + 1 /\ len \in 1 - 1 .. Len(left)
      /\ Len(left) \in len .. Len(left)
  BY DEF Bytes
<1>2. SubSeq(left, 1, len) \o SubSeq(left, len + 1, Len(left)) = SubSeq(left, 1, Len(left))
  BY <1>1, ConcatAdjacentSubSeq
<1> QED
  BY <1>1, <1>2, SubSeqFull

(* The records that are new keep to the format.                            *)
NewFit(recs, base, format) ==
  \A i \in Len(base) + 1 .. Len(recs) : Len(recs[i]) <= Max({1, format.lrecl})

LEMMA NewFitMore ==
  ASSUME NEW recs \in AllRecords, NEW added \in AllRecords, NEW base \in AllRecords, NEW format,
         NewFit(recs, base, format), Fit(added, format)
  PROVE  NewFit(recs \o added, base, format)
<1>1. Len(recs) \in Nat /\ Len(added) \in Nat /\ Len(base) \in Nat /\ DOMAIN added = 1 .. Len(added)
  BY DEF AllRecords
<1>2. /\ Len(recs \o added) = Len(recs) + Len(added)
      /\ \A i \in 1 .. Len(recs) + Len(added) :
           (recs \o added)[i] = IF i <= Len(recs) THEN recs[i] ELSE added[i - Len(recs)]
  BY ConcatProperties, Zenon DEF AllRecords
<1>3. ASSUME NEW i \in Len(base) + 1 .. Len(recs \o added)
      PROVE  Len((recs \o added)[i]) <= Max({1, format.lrecl})
  <2>1. i \in 1 .. Len(recs) + Len(added)
    BY <1>1, <1>2
  <2>2. CASE i <= Len(recs)
    <3>1. (recs \o added)[i] = recs[i] /\ i \in Len(base) + 1 .. Len(recs)
      BY <1>1, <1>2, <2>1, <2>2
    <3> QED
      BY <3>1, Zenon DEF NewFit
  <2>3. CASE ~(i <= Len(recs))
    <3>1. (recs \o added)[i] = added[i - Len(recs)]
      BY <1>2, <2>1, <2>3, Zenon
    <3>2. i - Len(recs) \in DOMAIN added
      BY <1>1, <2>1, <2>3
    <3> QED
      BY <3>1, <3>2, Zenon DEF Fit
  <2> QED
    BY <2>2, <2>3
<1> QED
  BY <1>3, Zenon DEF NewFit

(* What the file of an upload holds, with the record being filled, is what *)
(* has been received, behind what was in the file; and what has not been   *)
(* received is still to come.                                              *)
Holds(recs, x) ==
  /\ Stands(recs, x.buf, x.base, x.rcvd, x.format.binary)
  /\ NewFit(recs, x.base, x.format)

StoreInv ==
  Moving /\ xfer.cmd \in {"STOR", "APPE"} =>
    /\ xfer.rcvd \o xfer.left = cmd.arg.data
    /\ ~xfer.failed => Holds(files[xfer.disk][xfer.name].recs, xfer)

(* The types of the parts of an upload.                                    *)
LEMMA UploadTypes ==
  ASSUME TypeInv, Moving, xfer.cmd \in {"STOR", "APPE"}
  PROVE  /\ xfer.disk \in DiskIdx /\ xfer.name \in Names
         /\ files[xfer.disk][xfer.name].recs \in AllRecords
         /\ xfer.base \in AllRecords /\ xfer.format \in Formats
         /\ xfer.buf \in Bytes /\ xfer.rcvd \in Bytes /\ xfer.left \in Bytes
         /\ xfer.buf \in Fills(xfer.format) /\ xfer.failed \in BOOLEAN /\ xfer \in Xfer
<1>1. xfer \in Xfer /\ xfer.disk \in DiskIdx /\ xfer.name \in Names /\ xfer.buf \in Fills(xfer.format)
  BY DEF TypeInv, XferType
<1>2. /\ xfer.base \in Seq(Records) /\ xfer.format \in Formats /\ xfer.buf \in Seq(Nat)
      /\ xfer.rcvd \in Seq(Nat) /\ xfer.left \in Seq(Nat \ {BLANK}) /\ xfer.failed \in BOOLEAN
  BY <1>1 DEF Xfer
<1>3. files[xfer.disk][xfer.name] \in Files
  BY <1>1 DEF TypeInv, FilesType
<1>4. files[xfer.disk][xfer.name].recs \in Seq(Records)
  BY <1>3 DEF Files
<1>5. xfer.left \in Seq(Nat)
  BY <1>2
<1> QED
  BY <1>1, <1>2, <1>4, <1>5, Zenon DEF Bytes, AllRecords

(* An upload begins.                                                       *)
LEMMA StoreBegins ==
  ASSUME TypeInv, TypeInv', cmdSTOR PROVE StoreInv'
<1>1. pc = "cmd" /\ Working
  BY DEF cmdSTOR, Is, Working
<1>2. \/ \E code : refuse(code)
      \/ openError
      \/ \E e : /\ xfer' = [Transfer(e, cmd.arg.name) EXCEPT !.base = files'[e][cmd.arg.name].recs]
                /\ pc' = "connect" /\ UNCHANGED <<cmd, sessions>>
  BY Zenon DEF cmdSTOR
<1>3. \/ pc' = "serve"
      \/ \E e : /\ xfer' = [Transfer(e, cmd.arg.name) EXCEPT !.base = files'[e][cmd.arg.name].recs]
                /\ pc' = "connect" /\ UNCHANGED <<cmd, sessions>>
  BY <1>2 DEF refuse, openError, Finish, FinishFrom
<1>4. ASSUME NEW e, NEW nm, nm = cmd.arg.name, NEW base, base = files'[e][nm].recs,
             xfer' = [Transfer(e, nm) EXCEPT !.base = base], cmd' = cmd
      PROVE  StoreInv'
  <2> SUFFICES ASSUME Moving', xfer'.cmd \in {"STOR", "APPE"} PROVE StoreInv'
    BY DEF StoreInv
  <2>1. /\ xfer'.disk = e /\ xfer'.name = nm /\ xfer'.base = base /\ xfer'.buf = <<>>
        /\ xfer'.rcvd = <<>> /\ xfer'.left = cmd.arg.data
    BY <1>4 DEF Transfer
  <2>2. /\ files'[xfer'.disk][xfer'.name].recs \in AllRecords /\ xfer'.left \in Bytes
    <3>1. xfer' \in Xfer /\ xfer'.disk \in DiskIdx /\ xfer'.name \in Names
      BY DEF TypeInv, XferType
    <3>2. xfer'.left \in Seq(Nat)
      <4>1. xfer'.left \in Seq(Nat \ {BLANK})
        BY <3>1 DEF Xfer
      <4> QED
        BY <4>1
    <3>3. files'[xfer'.disk][xfer'.name] \in Files
      BY <3>1 DEF TypeInv, FilesType
    <3>4. files'[xfer'.disk][xfer'.name].recs \in Seq(Records)
      BY <3>3 DEF Files
    <3> QED
      BY <3>2, <3>4, Zenon DEF Bytes, AllRecords
  <2>3. base \in AllRecords
    <3>1. files'[xfer'.disk][xfer'.name].recs = base
      BY <1>4, <2>1
    <3> QED
      BY <2>2, <3>1
  <2>4. Texts(base) \o <<>> = Texts(base) \o TextOf(<<>>, xfer'.format.binary)
    <3>1. TextOf(<<>>, xfer'.format.binary) = <<>>
      <4> DEFINE drop == IF xfer'.format.binary THEN {} ELSE {LF}
      <4>1. TextOf(<<>>, xfer'.format.binary) = Sift(<<>>, drop)
        BY Zenon DEF TextOf
      <4> HIDE DEF drop
      <4> QED
        BY <4>1, SiftNone
    <3> QED
      BY <3>1, Zenon
  <2>5. NewFit(base, base, xfer'.format)
    <3>1. Len(base) \in Nat
      BY <2>3 DEF AllRecords
    <3>2. Len(base) + 1 .. Len(base) = {}
      BY <3>1
    <3> QED
      BY <3>2 DEF NewFit
  <2>6. /\ Texts(base) \o xfer'.buf = Texts(xfer'.base) \o TextOf(xfer'.rcvd, xfer'.format.binary)
        /\ NewFit(base, xfer'.base, xfer'.format)
    BY <2>1, <2>4, <2>5, Zenon
  <2>7. xfer'.rcvd \o xfer'.left = cmd'.arg.data
    BY <1>4, <2>1, <2>2, OfBytes, Zenon
  <2>8. files'[xfer'.disk][xfer'.name].recs = base
    BY <1>4, <2>1
  <2> QED
    BY <2>6, <2>7, <2>8, Zenon DEF StoreInv, Holds, Stands
<1>5. CASE pc' = "serve"
  BY <1>5 DEF StoreInv, Moving
<1> QED
  BY <1>3, <1>4, <1>5

(* It goes on unchanged.                                                   *)
LEMMA StoreGoesOn ==
  ASSUME TypeInv, StoreInv, Moving, OnlyConn, UNCHANGED <<cmd, files>> PROVE StoreInv'
BY DEF OnlyConn, SameXfer, StoreInv, Holds

(* A packet keeps it so.                                                   *)
LEMMA StoreChunks ==
  ASSUME TypeInv, StoreInv, recvChunk PROVE StoreInv'
<1>1. pc = "copy" /\ xfer.cmd \in {"STOR", "APPE"} /\ cmd' = cmd /\ xfer \in Xfer /\ Moving
      /\ f.disk = xfer.disk /\ f.name = xfer.name /\ xfer.disk \in DiskIdx /\ xfer.name \in Names
  <2>1. pc = "copy" /\ xfer.cmd \in {"STOR", "APPE"} /\ cmd' = cmd
    BY DEF recvChunk, Here
  <2> QED
    BY <2>1, OpenFile
<1>2. PICK len \in 1 .. Len(xfer.left) :
        LET chunk == SubSeq(xfer.left, 1, len)
            s     == takeChunk(xfer.buf, chunk, xfer.format)
        IN \E n \in 0 .. Len(s.recs) :
             /\ writeRecords(s.recs, n)
             /\ Preliminary(Errors(Len(s.recs) - n))
             /\ xfer' = [xfer EXCEPT !.buf = s.fill, !.rcvd = @ \o chunk,
                           !.left = SubSeq(@, len + 1, Len(@)), !.pos = @ + Len(s.recs),
                           !.failed = (@ \/ n < Len(s.recs))]
             /\ chunk \in Seq(Nat \ {BLANK}) /\ s \in Taken(xfer.format)
  BY Received
<1> DEFINE chunk == SubSeq(xfer.left, 1, len)
           s     == takeChunk(xfer.buf, chunk, xfer.format)
           left  == SubSeq(xfer.left, len + 1, Len(xfer.left))
           fill  == s.fill
           added == s.recs
           format == xfer.format
           binary == xfer.format.binary
           recs  == files[xfer.disk][xfer.name].recs
           was   == xfer.failed
<1>3. PICK n \in 0 .. Len(added) :
        /\ writeRecords(added, n)
        /\ xfer' = [xfer EXCEPT !.buf = fill, !.rcvd = @ \o chunk, !.left = left,
                      !.pos = @ + Len(added), !.failed = (@ \/ n < Len(added))]
  BY <1>2
<1>4. chunk \in Seq(Nat \ {BLANK}) /\ s \in Taken(format)
  BY <1>2
<1>5. /\ recs \in AllRecords /\ xfer.base \in AllRecords /\ format \in Formats
      /\ xfer.buf \in Bytes /\ xfer.rcvd \in Bytes /\ xfer.left \in Bytes
      /\ xfer.buf \in Fills(format) /\ was \in BOOLEAN
  BY <1>1, UploadTypes
<1>6. Made(added, fill, xfer.buf, chunk, binary) /\ Fit(added, format)
  <2>1. Texts(added) \o fill = xfer.buf \o TextOf(chunk, binary) /\ Fit(added, format)
    BY <1>4, <1>5, ChunkContent
  <2> QED
    BY <2>1, Zenon DEF Made
<1>7. fill \in Bytes /\ added \in AllRecords /\ chunk \in Bytes /\ Len(added) \in Nat
  <2> HIDE DEF chunk, s
  <2>1. s.fill \in Fills(format) /\ s.recs \in Seq(Records)
    BY <1>4 DEF Taken
  <2>2. s.fill \in Seq(Nat)
    BY <1>5, <2>1, FillFits
  <2>3. chunk \in Seq(Nat) /\ Len(s.recs) \in Nat
    BY <1>4, <2>1
  <2> QED
    BY <2>1, <2>2, <2>3, Zenon DEF Bytes, AllRecords
<1>8. chunk \o left = xfer.left
  BY <1>5, SplitBytes
<1> HIDE DEF chunk, s, left, fill, added
<1>9. /\ xfer'.buf = fill /\ xfer'.rcvd = xfer.rcvd \o chunk /\ xfer'.left = left
      /\ xfer'.failed = (was \/ n < Len(added))
      /\ UNCHANGED <<xfer.cmd, xfer.disk, xfer.name, xfer.format, xfer.base>>
  BY <1>1, <1>3 DEF Xfer
<1>10. left \in Bytes
  <2>1. xfer.left \in Seq(Nat) /\ len \in Nat
    BY <1>5 DEF Bytes
  <2>2. SubSeq(xfer.left, len + 1, Len(xfer.left)) \in Seq(Nat)
    BY <2>1
  <2> QED
    BY <2>2, Zenon DEF Bytes, left
<1>11. xfer'.rcvd \o xfer'.left = cmd'.arg.data
  <2>1. xfer.rcvd \o xfer.left = cmd.arg.data
    BY <1>1, Zenon DEF StoreInv
  <2>2. Associate(xfer.rcvd, chunk, left)
    BY <1>5, <1>7, <1>10, ConcatBytes, Zenon
  <2> QED
    BY <1>1, <1>8, <1>9, <2>1, <2>2, Zenon DEF Associate
<1>12. ASSUME ~xfer'.failed PROVE Holds(files'[xfer'.disk][xfer'.name].recs, xfer')
  <2>1. ~was /\ n = Len(added)
    <3>1. n \in 0 .. Len(added) /\ ~(was \/ n < Len(added))
      BY <1>3, <1>9, <1>12, Zenon
    <3> QED
      BY <1>7, <3>1
  <2>2. files' = [files EXCEPT ![xfer.disk][xfer.name] =
                    [is |-> @.is \/ n > 0, recs |-> @.recs \o SubSeq(added, 1, n)]]
    BY <1>1, <1>3 DEF writeRecords
  <2>3. files \in [DiskIdx -> [Names -> Files]]
    BY DEF TypeInv, FilesType
  <2>4. files'[xfer.disk][xfer.name].recs = recs \o SubSeq(added, 1, n)
    BY <1>1, <2>2, <2>3
  <2>5. SubSeq(added, 1, n) = added
    <3>1. added \in Seq(Records)
      BY <1>7, Zenon DEF AllRecords
    <3> QED
      BY <2>1, <3>1, SubSeqFull
  <2>6. files'[xfer'.disk][xfer'.name].recs = recs \o added
    BY <1>9, <2>4, <2>5, Zenon
  <2>7. Stands(recs, xfer.buf, xfer.base, xfer.rcvd, binary) /\ NewFit(recs, xfer.base, format)
    BY <1>1, <2>1, Zenon DEF StoreInv, Holds
  <2> HIDE DEF recs, format, binary
  <2>8. Stands(recs \o added, fill, xfer.base, xfer.rcvd \o chunk, binary)
    BY <1>5, <1>6, <1>7, <2>7, StoreChunk, Zenon
  <2>9. NewFit(recs \o added, xfer.base, format)
    BY <1>5, <1>6, <1>7, <2>7, NewFitMore
  <2> QED
    BY <1>9, <2>6, <2>8, <2>9, Zenon DEF Holds, format, binary
<1> QED
  BY <1>11, <1>12, Zenon DEF StoreInv

LEMMA StoreNext ==
  ASSUME TypeInv, TypeInv', StoreInv, [FtpNext]_ftpVars PROVE StoreInv'
<1>1. CASE ~(Moving' /\ xfer'.cmd \in {"STOR", "APPE"})
  BY <1>1, Zenon DEF StoreInv
<1>2. CASE cmdSTOR
  BY <1>2, StoreBegins
<1>3. CASE recvChunk
  BY <1>3, StoreChunks
<1>4. CASE Moving /\ OnlyConn /\ UNCHANGED <<cmd, sessions, f, files>>
  BY <1>4, StoreGoesOn
<1>5. ASSUME cmdRETR \/ cmdList \/ readRecord \/ readError, Moving' PROVE xfer'.cmd \notin {"STOR", "APPE"}
  <2>1. CASE cmdRETR \/ cmdList
    <3>1. cmd.cmd \notin {"STOR", "APPE"}
      BY <2>1 DEF cmdRETR, cmdList, Is
    <3>2. MovingInv' /\ cmd' = cmd
      <4>1. CASE cmdRETR
        BY <1>5, <4>1, MovesRETR DEF cmdRETR, refuse, openError, Finish, FinishFrom, Moving
      <4>2. CASE cmdList
        <5>1. ASSUME NEW codes, Finish(codes) PROVE FALSE
          BY <1>5, <5>1 DEF Finish, FinishFrom, Moving
        <5> QED
          BY <4>2, <5>1, MovesList, ListSteps DEF Lists
      <4> QED
        BY <2>1, <4>1, <4>2
    <3>3. xfer'.cmd = cmd.cmd
      BY <1>5, <3>2 DEF MovingInv
    <3> QED
      BY <3>1, <3>3
  <2>2. CASE readRecord \/ readError
    <3>1. xfer \in Xfer /\ xfer.cmd = "RETR"
      BY <2>2 DEF readRecord, readError, Here, Moving, TypeInv, XferType
    <3>2. \/ \E a, b : xfer' = [xfer EXCEPT !.pos = a, !.buf = b]
          \/ \E b, t : xfer' = [xfer EXCEPT !.failed = TRUE, !.stays = t, !.buf = b]
      <4>1. CASE readRecord
        BY <4>1, Zenon DEF readRecord
      <4>2. CASE readError
        BY <4>2, Zenon DEF readError
      <4> QED
        BY <2>2, <4>1, <4>2
    <3>3. xfer'.cmd = xfer.cmd
      BY <3>1, <3>2 DEF Xfer
    <3> QED
      BY <3>1, <3>3
  <2> QED
    BY <1>5, <2>1, <2>2
<1> QED
  BY <1>1, <1>2, <1>3, <1>4, <1>5, XferSteps, Zenon

(* An upload has the bytes of its client in their order: what the file has *)
(* and what has been received agree, and nothing is lost in between.       *)
THEOREM StoreHolds == FtpSpec => []StoreInv
<1>1. FtpInit => StoreInv
  BY DEF FtpInit, StoreInv, Moving
<1>2. TypeInv /\ TypeInv' /\ StoreInv /\ [FtpNext]_ftpVars => StoreInv'
  BY StoreNext
<1>3. FtpSpec => []TypeInv
  BY TypesHold
<1> QED
  BY <1>1, <1>2, <1>3, PTL DEF FtpSpec

(* However the network cuts the data of an upload into packets (recv, any  *)
(* number of bytes), the records written, with the one being filled, are   *)
(* what has been received, behind what was in the file, and no new record  *)
(* is longer than the format allows.                                       *)
THEOREM UploadsInOrder == FtpSpec => []StoredInOrder
<1>1. TypeInv /\ StoreInv => StoredInOrder
  <2> SUFFICES ASSUME TypeInv, StoreInv, pc = "copy", xfer.cmd \in {"STOR", "APPE"}, ~xfer.failed
               PROVE  StoredInOrder
    BY DEF StoredInOrder
  <2>1. f.disk = xfer.disk /\ f.name = xfer.name /\ Moving
    BY OpenFile
  <2>2. Holds(files[xfer.disk][xfer.name].recs, xfer)
    BY <2>1, Zenon DEF StoreInv
  <2> QED
    BY <2>1, <2>2, Zenon DEF StoredInOrder, Holds, Stands, NewFit
<1> QED
  BY <1>1, TypesHold, StoreHolds, PTL

-----------------------------------------------------------------------------
(* What has been sent of a file or a listing, with what is in the buffer,  *)
(* is what has been read of it.                                            *)
Stuff == Seq(Nat \cup Strings)
Connects(a, b, c) == (a \o b) \o c = a \o (b \o c)

LEMMA OfStuff ==
  /\ \A a, b, c \in Stuff : Connects(a, b, c)
  /\ \A a, b \in Stuff : a \o b \in Stuff
  /\ <<>> \in Stuff
  /\ \A b \in Bytes : b \in Stuff
  /\ \A a \in Stuff : <<>> \o a = a /\ a \o <<>> = a
<1> DEFINE S == Nat \cup Strings
<1>1. ASSUME NEW a \in Seq(S), NEW b \in Seq(S), NEW c \in Seq(S)
      PROVE  (a \o b) \o c = a \o (b \o c)
  <2> HIDE DEF S
  <2> QED
    OBVIOUS
<1>2. ASSUME NEW a \in Seq(S), NEW b \in Seq(S) PROVE a \o b \in Seq(S)
  <2> HIDE DEF S
  <2> QED
    OBVIOUS
<1>3. ASSUME NEW a \in Seq(S) PROVE <<>> \o a = a /\ a \o <<>> = a
  <2> HIDE DEF S
  <2> QED
    OBVIOUS
<1>4. ASSUME NEW b \in Seq(Nat) PROVE b \in Seq(S)
  OBVIOUS
<1>5. <<>> \in Seq(S)
  OBVIOUS
<1> QED
  BY <1>1, <1>2, <1>3, <1>4, <1>5, Zenon DEF Stuff, Bytes, Connects

(* While the connection holds, what has been sent and what is kept grow by *)
(* the unit, if it fits into a packet.                                     *)
LEMMA UnitCut ==
  ASSUME NEW unit \in Stuff, Len(unit) <= PACKETLEN
  PROVE  SubSeq(unit, 1, Min({PACKETLEN, Len(unit)})) = unit
<1> DEFINE S == Nat \cup Strings
<1>1. unit \in Seq(S)
  BY DEF Stuff
<1> HIDE DEF S
<1>2. Len(unit) \in Nat /\ SubSeq(unit, 1, Len(unit)) = unit
  BY <1>1, SubSeqFull
<1> DEFINE n == Len(unit)
<1> HIDE DEF n
<1>3. n \in Nat /\ n <= PACKETLEN
  BY <1>2 DEF n
<1>4. Min({PACKETLEN, n}) = n
  <2>1. {PACKETLEN, n} \subseteq Nat /\ {PACKETLEN, n} # {}
    BY <1>3, PacketRoom
  <2>2. Min({PACKETLEN, n}) \in {PACKETLEN, n} /\ \A y \in {PACKETLEN, n} : Min({PACKETLEN, n}) <= y
    BY <2>1, MinOf
  <2> QED
    BY <1>3, <2>2, PacketRoom
<1> QED
  BY <1>2, <1>4 DEF n

SentOne(out, buf, unit, t) == (out \o t.out) \o t.buf = (out \o buf) \o unit

LEMMA TransmitOne ==
  ASSUME NEW out \in Stuff, NEW buf \in Stuff, NEW unit \in Stuff, Len(unit) <= PACKETLEN, NEW ok, ok
  PROVE  /\ transmitUnit(buf, unit, ok).buf \in Stuff /\ transmitUnit(buf, unit, ok).out \in Stuff
         /\ SentOne(out, buf, unit, transmitUnit(buf, unit, ok))
<1> DEFINE t == transmitUnit(buf, unit, ok)
           cut == SubSeq(unit, 1, Min({PACKETLEN, Len(unit)}))
<1>1. cut = unit
  BY UnitCut
<1>2. t = [buf |-> cut, out |-> buf] \/ t = [buf |-> buf \o cut, out |-> <<>>]
  BY DEF transmitUnit
<1> HIDE DEF t, cut
<1>3. \/ t.buf = unit /\ t.out = buf
      \/ t.buf = buf \o unit /\ t.out = <<>>
  BY <1>1, <1>2
<1>4. Connects(out, buf, unit) /\ buf \o unit \in Stuff /\ <<>> \in Stuff /\ out \o <<>> = out
  BY OfStuff, Zenon
<1>5. t.buf \in Stuff /\ t.out \in Stuff
  BY <1>3, <1>4, Zenon
<1>6. (out \o t.out) \o t.buf = (out \o buf) \o unit
  BY <1>3, <1>4, Zenon DEF Connects
<1> QED
  BY <1>5, <1>6, Zenon DEF t, SentOne

(* The rows of a listing are short.                                        *)
LEMMA ListingRows ==
  ASSUME FilesType, NEW d \in Disk \cup {Invalid}, NEW name, NEW i \in 1 .. Len(listing(d, name))
  PROVE  Len(listing(d, name)[i]) <= PACKETLEN
<1>1. listing(d, name) \in Seq(Seq(Nat \cup Strings))
  BY ListingType
<1> DEFINE q == listing(d, name)
<1>2. i \in DOMAIN q
  BY <1>1
<1> DEFINE found == SetToSeq({nm \in Names : files[d][nm].is /\ name \in {"*", nm}})
<1>3. \/ q = [j \in 1 .. Cardinality(DiskIdx) |-> <<disks[j - 1].letter, "LF">>]
      \/ q = <<>>
      \/ q = [j \in DOMAIN found |-> <<found[j], "LF">>]
  <2>1. CASE d = Root
    BY <2>1 DEF listing, Root, Invalid
  <2>2. CASE d = Invalid
    BY <2>2 DEF listing, Root, Invalid
  <2>3. CASE d \notin {Root, Invalid}
    BY <2>3, Zenon DEF listing
  <2> QED
    BY <2>1, <2>2, <2>3, Zenon
<1> HIDE DEF q, found
<1>4. \E x : q[i] = <<x, "LF">>
  <2>1. CASE q = [j \in 1 .. Cardinality(DiskIdx) |-> <<disks[j - 1].letter, "LF">>]
    BY <1>2, <2>1
  <2>2. CASE q = [j \in DOMAIN found |-> <<found[j], "LF">>]
    BY <1>2, <2>2
  <2>3. CASE q = <<>>
    BY <1>2, <2>3
  <2> QED
    BY <1>3, <2>1, <2>2, <2>3, Zenon
<1>5. \A x : Len(<<x, "LF">>) = 2
  OBVIOUS
<1> QED
  BY <1>4, <1>5, PacketRoom DEF q

(* A row more.                                                             *)
LEMMA RowAdded ==
  ASSUME NEW n \in Nat, NEW a \in Seq(Bytes), NEW b \in Seq(Bytes), Len(a) = n, Len(b) = n + 1,
         \A i \in 1 .. n : b[i] = a[i]
  PROVE  b = Append(a, b[n + 1])
<1> DEFINE x == b[n + 1]
<1>1. x \in Bytes
  <2>1. n + 1 \in 1 .. Len(b)
    OBVIOUS
  <2> QED
    BY <2>1
<1> HIDE DEF x
<1>2. /\ Append(a, x)[Len(a) + 1] = x
      /\ \A i \in 1 .. Len(a) : Append(a, x)[i] = a[i]
  BY <1>1, LongerRow
<1>3. \A i \in 1 .. n + 1 : b[i] = Append(a, x)[i]
  <2>1. \A i \in 1 .. n + 1 : i \in 1 .. n \/ i = n + 1
    OBVIOUS
  <2> QED
    BY <1>2, <2>1, Zenon DEF x
<1>4. Append(a, x) \in Seq(Bytes) /\ Len(Append(a, x)) = n + 1
  BY <1>1
<1> QED
  BY <1>3, <1>4, SeqEqual DEF x

(* The first n records of a file, as they are sent.                        *)
Units(recs, n, binary) == Joined([i \in 1 .. n |-> unitOf(recs[i], binary)])

LEMMA UnitsOne ==
  ASSUME NEW recs \in AllRecords, NEW n \in Nat, n < Len(recs), NEW binary \in BOOLEAN
  PROVE  /\ Units(recs, n + 1, binary) = Units(recs, n, binary) \o unitOf(recs[n + 1], binary)
         /\ unitOf(recs[n + 1], binary) \in Bytes
         /\ Len(unitOf(recs[n + 1], binary)) <= PACKETLEN
<1> DEFINE U(i) == unitOf(recs[i], binary)
           a == [i \in 1 .. n |-> U(i)]
           b == [i \in 1 .. n + 1 |-> U(i)]
<1>1. \A i \in 1 .. n + 1 : U(i) \in Bytes /\ Len(U(i)) <= PACKETLEN
  <2>1. ASSUME NEW i \in 1 .. n + 1 PROVE recs[i] \in Records
    <3>1. recs \in Seq(Records)
      BY Zenon DEF AllRecords
    <3>2. i \in 1 .. Len(recs)
      BY <3>1
    <3> QED
      BY <3>1, <3>2
  <2>2. \A i \in 1 .. n + 1 : U(i) \in Seq(Nat) /\ Len(U(i)) <= PACKETLEN
    BY <2>1, RecordUnit
  <2> QED
    BY <2>2, Zenon DEF Bytes
<1>2. 1 .. n \subseteq 1 .. n + 1 /\ n + 1 \in 1 .. n + 1 /\ n + 1 \in Nat
  OBVIOUS
<1> HIDE DEF U
<1>3. a \in Seq(Bytes) /\ Len(a) = n
  <2>1. a \in [1 .. n -> Bytes]
    BY <1>1, <1>2
  <2> HIDE DEF a
  <2> QED
    BY <2>1, SequenceIs
<1>4. b \in Seq(Bytes) /\ Len(b) = n + 1
  <2>1. b \in [1 .. n + 1 -> Bytes]
    BY <1>1
  <2> HIDE DEF b
  <2> QED
    BY <1>2, <2>1, SequenceIs
<1>5. b[n + 1] = U(n + 1) /\ \A i \in 1 .. n : b[i] = a[i]
  BY <1>2
<1>6. Units(recs, n + 1, binary) = Joined(b) /\ Units(recs, n, binary) = Joined(a)
  BY Zenon DEF Units, U
<1> HIDE DEF a, b
<1>7. b = Append(a, U(n + 1))
  BY <1>3, <1>4, <1>5, RowAdded
<1>8. U(n + 1) \in Bytes
  BY <1>1, <1>2
<1>9. Joined(b) = Joined(a) \o U(n + 1)
  BY <1>3, <1>7, <1>8, JoinedOne DEF ByteRows
<1> QED
  BY <1>1, <1>2, <1>6, <1>9, Zenon DEF U

LEMMA UnitsNone == ASSUME NEW recs, NEW binary PROVE Units(recs, 0, binary) = <<>>
<1>1. [i \in 1 .. 0 |-> unitOf(recs[i], binary)] = <<>>
  OBVIOUS
<1> QED
  BY <1>1, JoinedNone, Zenon DEF Units

(* All of a listing goes out, and what is left in the buffer is its end.   *)
LEMMA RowsSent ==
  ASSUME NEW rows, rows \in Seq(Stuff), NEW ok, ok,
         \A i \in 1 .. Len(rows) : Len(rows[i]) <= PACKETLEN
  PROVE  LET r == transmitUnits(rows, ok)
         IN r.buf \in Stuff /\ r.out \in Stuff /\ r.out \o r.buf = Joined(rows)
<1> DEFINE n == Len(rows)
           S == Nat \cup Strings
           V == [buf : Stuff, out : Stuff]
<1>1. rows \in Seq(Seq(S)) /\ n \in Nat
  <2>1. rows \in Seq(Seq(S))
    BY Zenon DEF Stuff
  <2> QED
    BY <2>1
<1>2. PICK w \in [0 .. n -> V] : Sends(w, rows, ok) /\ transmitUnits(rows, ok) = w[n]
  <2> HIDE DEF S
  <2>1. \E w \in [0 .. Len(rows) -> [buf : Seq(S), out : Seq(S)]] :
          Sends(w, rows, ok) /\ transmitUnits(rows, ok) = w[Len(rows)]
    BY <1>1, TransmitUnits, Zenon
  <2> QED
    BY <2>1, Zenon DEF Stuff, S
<1>3. PICK v \in [0 .. n -> Stuff] : Joins(v, rows) /\ Joined(rows) = v[n]
  <2> HIDE DEF S
  <2>1. \E v \in [0 .. Len(rows) -> Seq(S)] : Joins(v, rows) /\ Joined(rows) = v[Len(rows)]
    BY <1>1, Joining, Zenon
  <2> QED
    BY <2>1, Zenon DEF Stuff, S
<1> HIDE DEF S, V
<1>4. \A i \in 1 .. n : rows[i] \in Stuff /\ Len(rows[i]) <= PACKETLEN
  <2>1. \A i \in 1 .. n : rows[i] \in Stuff
    OBVIOUS
  <2> QED
    BY <2>1, Zenon
<1> HIDE DEF n, V
<1> DEFINE T == {i \in 0 .. n : w[i].out \o w[i].buf = v[i]}
<1>5. 0 \in T
  <2>1. w[0] = [buf |-> <<>>, out |-> <<>>] /\ v[0] = <<>>
    BY <1>2, <1>3, Zenon DEF Sends, Joins
  <2>2. w[0].out \o w[0].buf = v[0]
    <3>1. w[0].out = <<>> /\ w[0].buf = <<>>
      BY <2>1
    <3> QED
      BY <2>1, <3>1, OfStuff, Zenon
  <2>3. 0 \in 0 .. n
    BY <1>1 DEF n
  <2> QED
    BY <2>2, <2>3, Zenon
<1>6. ASSUME NEW i \in 0 .. n - 1, i \in T PROVE i + 1 \in T
  <2>1. i \in 0 .. n /\ i + 1 \in 1 .. n /\ i + 1 \in 0 .. n /\ (i + 1) - 1 = i
    BY <1>1 DEF n
  <2> DEFINE out == w[i].out
             buf == w[i].buf
             row == rows[i + 1]
  <2>2. out \in Stuff /\ buf \in Stuff /\ row \in Stuff /\ Len(row) <= PACKETLEN
    <3>1. w[i] \in V
      BY <1>2, <2>1
    <3> QED
      BY <1>4, <2>1, <3>1 DEF V
  <2>3. out \o buf = v[i]
    BY <1>6
  <2>4. w[i + 1] = [buf |-> transmitUnit(w[(i + 1) - 1].buf, row, ok).buf,
                    out |-> w[(i + 1) - 1].out \o transmitUnit(w[(i + 1) - 1].buf, row, ok).out]
    BY <1>2, <2>1, Zenon DEF Sends, n
  <2>5. v[i + 1] = v[(i + 1) - 1] \o row
    BY <1>3, <2>1, Zenon DEF Joins, n
  <2>6. w[i + 1].buf = transmitUnit(buf, row, ok).buf /\ w[i + 1].out = out \o transmitUnit(buf, row, ok).out
        /\ v[i + 1] = v[i] \o row
    <3> DEFINE t == transmitUnit(buf, row, ok)
               b == t.buf
               o == out \o t.out
               x == w[i + 1]
    <3>1. w[(i + 1) - 1] = w[i] /\ v[(i + 1) - 1] = v[i]
      BY <2>1, Zenon
    <3>2. x = [buf |-> b, out |-> o]
      BY <2>4, <3>1, Zenon
    <3> HIDE DEF x, b, o
    <3>3. x.buf = b /\ x.out = o
      BY <3>2
    <3> QED
      BY <2>5, <3>1, <3>3, Zenon DEF x, b, o
  <2> HIDE DEF out, buf, row
  <2>7. SentOne(out, buf, row, transmitUnit(buf, row, ok))
    BY <2>2, TransmitOne, Zenon
  <2>8. w[i + 1].out \o w[i + 1].buf = v[i + 1]
    <3> DEFINE t == transmitUnit(buf, row, ok)
               x == w[i + 1]
    <3>1. (out \o t.out) \o t.buf = v[i] \o row
      BY <2>3, <2>7, Zenon DEF SentOne
    <3>2. x.buf = t.buf /\ x.out = out \o t.out /\ v[i + 1] = v[i] \o row
      BY <2>6, Zenon
    <3> HIDE DEF t, x
    <3>3. x.out \o x.buf = (out \o t.out) \o t.buf
      BY <3>2, Zenon
    <3> QED
      BY <3>1, <3>2, <3>3, Zenon DEF x
  <2> QED
    BY <2>1, <2>8, Zenon
<1>7. \A i \in 0 .. n : i \in T
  <2> HIDE DEF T
  <2>1. n \in Nat
    BY <1>1 DEF n
  <2> QED
    BY <1>5, <1>6, <2>1, Inductive
<1>8. n \in 0 .. n
  BY <1>1 DEF n
<1>9. w[n].out \o w[n].buf = v[n] /\ w[n] \in V
  BY <1>2, <1>7, <1>8
<1> QED
  BY <1>2, <1>3, <1>9 DEF V

(* A client has got nothing for its command before it is sent something,   *)
(* and that is done only by RETR before the end.                           *)
Sender(c) == pc = "copy" /\ xfer.cmd = "RETR" /\ c = me.client

NoneYet ==
  \A c \in Clients :
    clients[c].sent = clients[c].handled + 1 => clients[c].got = <<>> \/ Sender(c)

(* While the connection of a RETR holds, what has been sent, with what is  *)
(* in the buffer, is what has been read.                                   *)
Fetched ==
  pc = "copy" /\ xfer.cmd = "RETR" /\ Live /\ ~xfer.failed =>
    LET recs == files[xfer.disk][xfer.name].recs
    IN /\ xfer.pos <= Len(recs)
       /\ clients[me.client].got \o xfer.buf = Units(recs, xfer.pos, xfer.format.binary)

FetchInv == NoneYet /\ Fetched

SameCounts ==
  \A c \in Clients : clients'[c].sent = clients[c].sent /\ clients'[c].handled = clients[c].handled

(* A step that does not change what is got, and a RETR goes on.            *)
LEMMA NoneSame ==
  ASSUME NoneYet, SameCounts, SameGot,
         pc = "copy" /\ xfer.cmd = "RETR" => pc' = "copy" /\ xfer'.cmd = "RETR" /\ me' = me
  PROVE  NoneYet'
BY DEF NoneYet, SameCounts, SameGot, Sender

(* A step that ends the command.                                           *)
LEMMA NoneDone ==
  ASSUME TypeInv, CommandsInv, NoneYet, Working, Done, SameGot \/ \E b : GotMore(b) PROVE NoneYet'
<1> SUFFICES ASSUME NEW c \in Clients, clients'[c].sent = clients'[c].handled + 1
             PROVE  clients'[c].got = <<>>
  BY DEF NoneYet
<1>1. me.client \in Clients /\ clients[me.client] \in Client
  BY MeType
<1>2. c # me.client
  <2>1. clients[me.client].sent = clients[me.client].handled + 1
    BY DEF CommandsInv, AtWork
  <2>2. clients[me.client].sent \in Nat /\ clients[me.client].handled \in Nat
    BY <1>1 DEF Client
  <2>3. c = me.client => clients'[c].sent = clients[c].sent /\ clients'[c].handled = clients[c].handled + 1
    BY DEF Done
  <2> QED
    BY <2>1, <2>2, <2>3
<1>3. clients[c].sent = clients[c].handled + 1
  BY <1>2 DEF Done
<1>4. clients[c].got = <<>>
  BY <1>2, <1>3 DEF NoneYet, Sender
<1> QED
  BY <1>2, <1>4 DEF SameGot, GotMore

(* What clients and the network do.                                        *)
LEMMA OutsideSteps ==
  ASSUME TypeInv, clientSteps \/ (\E c \in Clients : dial(c)) \/ loseData \/ UNCHANGED ftpVars
  PROVE  /\ UNCHANGED <<cmd, sessions, pc, f, files>>
         /\ xfer' = xfer \/ xfer' = [xfer EXCEPT !.conn = "lost"]
<1>1. CASE clientSteps \/ \E c \in Clients : dial(c)
  <2>1. UNCHANGED <<cmd, sessions, pc, f, files>>
    BY <1>1 DEF clientSteps, call, beginCommand, sendCommand, leave, dial, serverSide
  <2>2. ASSUME NEW c \in Clients, leave(c)
        PROVE  xfer' = xfer \/ xfer' = [xfer EXCEPT !.conn = "lost"]
    BY <2>2 DEF leave
  <2>3. ASSUME NEW c \in Clients, call(c) \/ beginCommand(c) \/ sendCommand(c) \/ dial(c)
        PROVE  xfer' = xfer
    BY <2>3 DEF call, beginCommand, sendCommand, dial
  <2> QED
    BY <1>1, <2>1, <2>2, <2>3 DEF clientSteps
<1>2. CASE loseData
  BY <1>2 DEF loseData
<1>3. CASE UNCHANGED ftpVars
  BY <1>3 DEF ftpVars, program, watch
<1> QED
  BY <1>1, <1>2, <1>3

(* A transfer goes on as it was, or its connection is lost.                *)
LEMMA OutsideXfer ==
  ASSUME TypeInv, UNCHANGED <<cmd, sessions, pc, f, files>>,
         xfer' = xfer \/ xfer' = [xfer EXCEPT !.conn = "lost"], pc = "copy"
  PROVE  /\ SameXfer /\ UNCHANGED <<xfer.buf, xfer.pos, xfer.failed, me>>
         /\ Live' => Live
<1>1. xfer \in Xfer
  BY DEF Moving, TypeInv, XferType
<1>2. UNCHANGED me
  BY DEF me, SessionAt
<1> QED
  BY <1>1, <1>2 DEF Xfer, SameXfer, Live

LEMMA FetchedOutside ==
  ASSUME TypeInv, CommandsInv, FetchInv,
         clientSteps \/ (\E c \in Clients : dial(c)) \/ loseData \/ UNCHANGED ftpVars
  PROVE  FetchInv'
<1>1. /\ UNCHANGED <<cmd, sessions, pc, f, files>>
      /\ xfer' = xfer \/ xfer' = [xfer EXCEPT !.conn = "lost"]
  BY OutsideSteps
<1>2. pc = "copy" => /\ SameXfer /\ UNCHANGED <<xfer.buf, xfer.pos, xfer.failed, me>>
                     /\ Live' => Live
  BY <1>1, OutsideXfer
<1>3. ASSUME NEW c \in Clients
      PROVE  \/ /\ clients'[c].sent = clients[c].sent /\ clients'[c].handled = clients[c].handled
                /\ clients'[c].got = clients[c].got
             \/ /\ clients[c].handled = clients[c].sent /\ clients'[c].got = <<>>
  <2>1. ASSUME NEW d \in Clients, call(d) \/ beginCommand(d) \/ sendCommand(d) \/ leave(d) \/ dial(d)
        PROVE  \/ /\ clients'[c].sent = clients[c].sent /\ clients'[c].handled = clients[c].handled
                  /\ clients'[c].got = clients[c].got
               \/ /\ clients[c].handled = clients[c].sent /\ clients'[c].got = <<>>
    <3>1. /\ \A e \in Clients : e # d => clients'[e] = clients[e]
          /\ clients'[d].handled = clients[d].handled
          /\ \/ clients[d].handled = clients[d].sent /\ clients'[d].got = <<>>
             \/ UNCHANGED <<clients[d].sent, clients[d].unread, clients[d].got>>
      BY <2>1, ClientActs
    <3> QED
      BY <3>1
  <2>2. loseData \/ UNCHANGED ftpVars => UNCHANGED clients
    BY DEF loseData, ftpVars
  <2> QED
    BY <2>1, <2>2 DEF clientSteps
<1>4. NoneYet'
  <2> SUFFICES ASSUME NEW c \in Clients, clients'[c].sent = clients'[c].handled + 1
               PROVE  clients'[c].got = <<>> \/ Sender(c)'
    BY DEF NoneYet
  <2>1. Sender(c) => Sender(c)'
    BY <1>1, <1>2 DEF Sender, SameXfer
  <2> QED
    BY <1>3, <2>1 DEF FetchInv, NoneYet
<1>5. Fetched'
  <2> SUFFICES ASSUME pc' = "copy", xfer'.cmd = "RETR", Live', ~xfer'.failed PROVE Fetched'
    BY DEF Fetched
  <2>1. pc = "copy" /\ SameXfer /\ UNCHANGED <<xfer.buf, xfer.pos, xfer.failed, me>> /\ Live /\ Working
    BY <1>1, <1>2 DEF Working
  <2>2. xfer.cmd = "RETR" /\ ~xfer.failed
    BY <2>1 DEF SameXfer
  <2>3. me.client \in Clients /\ clients[me.client] \in Client
    BY <2>1, MeType
  <2>4. clients[me.client].handled # clients[me.client].sent
    <3>1. clients[me.client].sent = clients[me.client].handled + 1
      BY <2>1 DEF CommandsInv, AtWork
    <3> QED
      BY <2>3, <3>1 DEF Client
  <2>5. clients'[me.client].got = clients[me.client].got
    BY <1>3, <2>3, <2>4
  <2> QED
    BY <1>1, <2>1, <2>2, <2>5 DEF FetchInv, Fetched, SameXfer
<1> QED
  BY <1>4, <1>5 DEF FetchInv

(* A record is read, and perhaps a packet sent.                            *)
LEMMA FetchedRead ==
  ASSUME TypeInv, CommandsInv, FetchInv, readRecord PROVE FetchInv'
<1>1. pc = "copy" /\ xfer.cmd = "RETR" /\ Working /\ UNCHANGED <<f, pc, cmd, files, sessions>>
  BY DEF readRecord, Here, Working, copying
<1>2. UNCHANGED me
  BY <1>1 DEF me, SessionAt
<1> DEFINE recs == files[xfer.disk][xfer.name].recs
           binary == xfer.format.binary
           unit == unitOf(recs[xfer.pos + 1], binary)
           t    == transmitUnit(xfer.buf, unit, Live)
           got  == clients[me.client].got
           pos  == xfer.pos
<1>3. pos < Len(recs) /\ clients' = Got(t.out) /\ xfer' = [xfer EXCEPT !.pos = @ + 1, !.buf = t.buf]
  <2>1. f.disk = xfer.disk /\ f.name = xfer.name
    BY <1>1, OpenFile
  <2> QED
    BY <2>1, Zenon DEF readRecord
<1>4. recs \in AllRecords /\ xfer \in Xfer /\ binary \in BOOLEAN /\ pos \in Nat /\ xfer.buf \in Bytes
  <2>1. recs \in Seq(Records) /\ xfer \in Xfer /\ binary \in BOOLEAN
    BY <1>1, OpenFile DEF Files
  <2>2. xfer.pos \in Nat /\ xfer.buf \in Seq(Nat)
    BY <2>1 DEF Xfer
  <2> QED
    BY <2>1, <2>2, Zenon DEF AllRecords, Bytes
<1>5. me.client \in Clients /\ got \in Stuff
  BY <1>1, MeType DEF Client, Stuff
<1> HIDE DEF recs, binary, unit, t, got
<1>6. SameCommands /\ GotMore(t.out)
  BY <1>1, <1>3, GotSame
<1>7. xfer'.pos = pos + 1 /\ xfer'.buf = t.buf /\ SameXfer /\ UNCHANGED <<xfer.conn, xfer.failed>>
  BY <1>3, <1>4 DEF Xfer, SameXfer
<1>8. NoneYet'
  <2>1. \A c \in Clients : Sender(c) => Sender(c)'
    BY <1>1, <1>2, <1>7 DEF Sender, SameXfer
  <2>2. Sender(me.client)
    BY <1>1 DEF Sender
  <2> QED
    BY <2>1, <2>2, <1>6 DEF FetchInv, NoneYet, SameCommands, GotMore
<1>9. Fetched'
  <2> SUFFICES ASSUME Live', ~xfer'.failed PROVE Fetched'
    BY DEF Fetched
  <2>1. Live /\ ~xfer.failed
    BY <1>7 DEF Live
  <2>2. got \o xfer.buf = Units(recs, pos, binary)
    BY <1>1, <2>1, Zenon DEF FetchInv, Fetched, recs, binary, got
  <2>3. /\ Units(recs, pos + 1, binary) = Units(recs, pos, binary) \o unit
        /\ unit \in Bytes /\ Len(unit) <= PACKETLEN
    BY <1>3, <1>4, UnitsOne DEF unit
  <2>4. SentOne(got, xfer.buf, unit, t)
    <3>1. unit \in Stuff /\ xfer.buf \in Stuff
      BY <1>4, <2>3, OfStuff, Zenon
    <3> QED
      BY <1>5, <2>1, <2>3, <3>1, TransmitOne, Zenon DEF t
  <2>5. clients'[me.client].got = got \o t.out
    BY <1>5, <1>6, Zenon DEF GotMore, got
  <2>6. clients'[me'.client].got \o xfer'.buf = Units(recs, xfer'.pos, binary)
    <3>1. (got \o t.out) \o t.buf = Units(recs, pos + 1, binary)
      BY <2>2, <2>3, <2>4, Zenon DEF SentOne
    <3>2. clients'[me'.client].got = got \o t.out /\ xfer'.buf = t.buf
      BY <1>2, <1>7, <2>5, Zenon
    <3> DEFINE g == clients'[me'.client].got
               b == xfer'.buf
    <3> HIDE DEF g, b
    <3>3. g \o b = (got \o t.out) \o t.buf
      BY <3>2, Zenon DEF g, b
    <3> QED
      BY <1>7, <3>1, <3>3, Zenon DEF g, b
  <2>7. files'[xfer'.disk][xfer'.name].recs = recs /\ xfer'.format.binary = binary
    BY <1>1, <1>7, Zenon DEF SameXfer, recs, binary
  <2>8. xfer'.pos <= Len(recs)
    <3>1. Len(recs) \in Nat
      BY <1>4 DEF AllRecords
    <3> QED
      BY <1>3, <1>4, <1>7, <3>1
  <2> QED
    BY <2>6, <2>7, <2>8, Zenon DEF Fetched
<1> QED
  BY <1>8, <1>9 DEF FetchInv

LEMMA FetchedError ==
  ASSUME TypeInv, CommandsInv, FetchInv, readError PROVE FetchInv'
<1>1. pc = "copy" /\ xfer.cmd = "RETR" /\ Working /\ xfer \in Xfer /\ UNCHANGED <<f, pc, cmd, files, sessions>>
  BY DEF readError, Here, Working, copying, Moving, TypeInv, XferType
<1>2. UNCHANGED me
  BY <1>1 DEF me, SessionAt
<1>3. \E b, t : xfer' = [xfer EXCEPT !.failed = TRUE, !.stays = t, !.buf = b]
  BY Zenon DEF readError
<1>4. xfer'.failed /\ xfer'.cmd = xfer.cmd
  BY <1>1, <1>3 DEF Xfer
<1>5. PICK b : SameCommands /\ GotMore(b)
  BY <1>1, ReadErrorClients, GotSame
<1>6. NoneYet'
  <2>1. \A c \in Clients : Sender(c) => Sender(c)'
    BY <1>1, <1>2, <1>4 DEF Sender
  <2>2. Sender(me.client)
    BY <1>1 DEF Sender
  <2> QED
    BY <2>1, <2>2, <1>5 DEF FetchInv, NoneYet, SameCommands, GotMore
<1> QED
  BY <1>4, <1>6 DEF FetchInv, Fetched

(* What is done while a transfer goes on.                                  *)
LEMMA CopySteps ==
  ASSUME main \/ readError, pc = "copy"
  PROVE  readRecord \/ readError \/ recvChunk \/ endRETR \/ endSTOR \/ endList
<1>1. ~(boot \/ waitForSocket \/ acceptClient \/ noAccept \/ getCtlLine \/ lostCtl \/ endRound)
  BY DEF boot, waitForSocket, acceptClient, noAccept, getCtlLine, lostCtl, endRound
<1>2. ~(cmdUSER \/ cmdPASS \/ onlyReply \/ cmdQUIT \/ cmdPASV \/ cmdPORT \/ cmdCWD \/ cmdTYPE \/ cmdDELE)
  BY DEF cmdUSER, cmdPASS, onlyReply, cmdQUIT, cmdPASV, cmdPORT, cmdCWD, cmdTYPE, cmdDELE, Is
<1>3. ~(cmdRNFR \/ cmdRNTO \/ cmdRETR \/ cmdSTOR \/ cmdList \/ loopInPath \/ openDataConnection)
  BY DEF cmdRNFR, cmdRNTO, cmdRETR, cmdSTOR, cmdList, loopInPath, openDataConnection, Is
<1> QED
  BY <1>1, <1>2, <1>3, Zenon DEF main, processSingleCmd

(* What begins one.                                                        *)
LEMMA CopyBegins ==
  ASSUME TypeInv, MovingInv, main, pc # "copy", pc' = "copy"
  PROVE  \/ xfer'.cmd = "STAT"
         \/ /\ pc = "connect" /\ \E n \in Numbers, conn \in {"live", "lost"} : Connected(n, conn)
<1>1. CASE boot \/ waitForSocket \/ acceptClient \/ noAccept \/ getCtlLine \/ lostCtl \/ endRound
  BY <1>1
  DEF boot, waitForSocket, acceptClient, noAccept, getCtlLine, lostCtl, endRound, sock_shutdown
<1>2. CASE cmdUSER \/ cmdPASS \/ onlyReply \/ cmdQUIT \/ cmdPASV \/ cmdPORT
           \/ cmdCWD \/ cmdTYPE \/ cmdDELE \/ cmdRNFR \/ cmdRNTO
  BY <1>2
  DEF cmdUSER, cmdPASS, onlyReply, cmdQUIT, cmdPASV, cmdPORT, cmdCWD, cmdTYPE, cmdDELE, cmdRNFR,
      cmdRNTO, Finish, FinishFrom
<1>3. CASE loopInPath \/ endRETR \/ endSTOR \/ endList \/ readRecord \/ recvChunk
  BY <1>3 DEF loopInPath, endRETR, endSTOR, endList, endTransfer, FinishFrom, readRecord, recvChunk, Here
<1>4. CASE cmdRETR \/ cmdSTOR
  <2>1. pc' = "serve" \/ pc' = "connect"
    BY <1>4, Zenon DEF cmdRETR, cmdSTOR, refuse, openError, Finish, FinishFrom
  <2> QED
    BY <2>1
<1>5. CASE cmdList
  <2>1. ASSUME NEW codes, Finish(codes) PROVE FALSE
    BY <2>1 DEF Finish, FinishFrom
  <2>2. ASSUME NEW e, NEW name, NEW conn, Lists(e, name, conn) PROVE xfer'.cmd = "STAT"
    <3>1. cmd.cmd = "STAT" /\ xfer' = [Transfer(e, name) EXCEPT !.sock = cmd.h, !.conn = conn]
      BY <2>2 DEF Lists
    <3> QED
      BY <3>1 DEF Transfer
  <2> QED
    BY <1>5, <2>1, <2>2, ListSteps
<1>6. CASE openDataConnection
  <2>1. pc = "connect"
    BY <1>6 DEF openDataConnection
  <2>2. ~NotConnected(503) /\ ~NotConnected(425)
    BY DEF NotConnected, Finish, FinishFrom
  <2> QED
    BY <1>6, <2>1, <2>2, OpenDataSteps, Zenon
<1> QED
  BY <1>1, <1>2, <1>3, <1>4, <1>5, <1>6 DEF main, processSingleCmd

(* The end of a transfer.                                                  *)
LEMMA FetchedEnd ==
  ASSUME TypeInv, CommandsInv, FetchInv, endRETR \/ endSTOR \/ endList PROVE FetchInv'
<1>1. Working
  BY DEF endRETR, endSTOR, endList, Here, Working
<1>2. PICK cls, codes : endTransfer(cls, codes) /\ (cls = clients \/ \E b : cls = Got(b))
  BY Endings
<1>3. Done /\ (SameGot \/ \E b : GotMore(b))
  <2>1. FinishFrom(cls, codes \o <<226>>)
    BY <1>2 DEF endTransfer
  <2>2. CASE cls = clients
    <3>1. Finish(codes \o <<226>>)
      BY <2>1, <2>2 DEF Finish
    <3> QED
      BY <1>1, <3>1, Finishes, FinishedDone
  <2>3. CASE \E b : cls = Got(b)
    BY <1>1, <2>1, <2>3, GotDone
  <2> QED
    BY <1>2, <2>2, <2>3
<1>4. NoneYet'
  BY <1>1, <1>3, NoneDone DEF FetchInv
<1> QED
  BY <1>3, <1>4 DEF FetchInv, Fetched, Done

(* A transfer gets its connection: nothing has been read yet.              *)
LEMMA FetchedConnected ==
  ASSUME TypeInv, CommandsInv, MovingInv, FetchInv, pc = "connect", SameGot,
         NEW n, NEW conn, Connected(n, conn)
  PROVE  Fetched'
<1>1. Moving /\ Working /\ xfer \in Xfer
  BY DEF Moving, Working, TypeInv, XferType
<1>2. xfer' = [xfer EXCEPT !.sock = n, !.conn = conn] /\ UNCHANGED <<sessions, cmd, files>>
  BY DEF Connected
<1>3. UNCHANGED <<xfer.cmd, xfer.disk, xfer.name, xfer.pos, xfer.buf, xfer.format, me>>
  BY <1>1, <1>2 DEF Xfer, me, SessionAt
<1>4. xfer.pos = 0 /\ xfer.buf = <<>>
  BY <1>1 DEF MovingInv
<1>5. me.client \in Clients /\ clients[me.client].got = <<>>
  <2>1. me.client \in Clients
    BY <1>1, MeType
  <2>2. clients[me.client].sent = clients[me.client].handled + 1
    BY <1>1 DEF CommandsInv, AtWork
  <2> QED
    BY <2>1, <2>2 DEF FetchInv, NoneYet, Sender
<1>6. clients'[me'.client].got = <<>>
  BY <1>3, <1>5 DEF SameGot
<1> SUFFICES ASSUME xfer'.cmd = "RETR" PROVE Fetched'
  BY DEF Fetched
<1>7. xfer'.disk \in DiskIdx /\ xfer'.name \in Names
  BY <1>1, <1>3 DEF TypeInv, XferType
<1> DEFINE recs == files'[xfer'.disk][xfer'.name].recs
<1>8. recs \in Seq(Records)
  BY <1>2, <1>7, FileOf DEF TypeInv, Files
<1>9. Units(recs, 0, xfer'.format.binary) = <<>>
  BY UnitsNone
<1> HIDE DEF recs
<1>10. xfer'.pos = 0 /\ xfer'.pos <= Len(recs)
  BY <1>3, <1>4, <1>8
<1>11. clients'[me'.client].got \o xfer'.buf = Units(recs, xfer'.pos, xfer'.format.binary)
  <2>1. xfer'.buf = <<>>
    BY <1>3, <1>4
  <2>2. clients'[me'.client].got \o xfer'.buf = <<>>
    <3> DEFINE g == clients'[me'.client].got
               b == xfer'.buf
    <3>1. g = <<>> /\ b = <<>>
      BY <1>6, <2>1
    <3> HIDE DEF g, b
    <3>2. g \o b = <<>>
      BY <3>1
    <3> QED
      BY <3>2 DEF g, b
  <2> QED
    BY <1>9, <1>10, <2>2, Zenon
<1> QED
  BY <1>10, <1>11, Zenon DEF Fetched, recs

LEMMA FetchedCommand ==
  ASSUME TypeInv, CommandsInv, MovingInv, FetchInv, processSingleCmd \/ readError PROVE FetchInv'
<1>1. Working /\ (Done \/ GoesOn) /\ (SameGot \/ Delivers)
  BY CommandSteps
<1>2. CASE pc = "copy"
  <2>1. readRecord \/ readError \/ recvChunk \/ endRETR \/ endSTOR \/ endList
    BY <1>2, CopySteps DEF main
  <2>2. CASE recvChunk
    <3>1. pc' = "copy" /\ xfer.cmd \in {"STOR", "APPE"} /\ xfer \in Xfer
      BY <1>2, <2>2 DEF recvChunk, Here, Moving, TypeInv, XferType
    <3>2. xfer'.cmd = xfer.cmd
      <4>1. PICK len \in 1 .. Len(xfer.left) :
              LET chunk == SubSeq(xfer.left, 1, len)
                  s     == takeChunk(xfer.buf, chunk, xfer.format)
              IN \E n \in 0 .. Len(s.recs) :
                   xfer' = [xfer EXCEPT !.buf = s.fill, !.rcvd = @ \o chunk,
                                 !.left = SubSeq(@, len + 1, Len(@)), !.pos = @ + Len(s.recs),
                                 !.failed = (@ \/ n < Len(s.recs))]
        BY <2>2, Zenon, Received
      <4> QED
        BY <3>1, <4>1 DEF Xfer
    <3>3. SameCommands /\ SameGot
      <4>1. \E codes : Preliminary(codes)
        BY <2>2, Zenon DEF recvChunk
      <4> QED
        BY <1>1, <4>1, PreliminarySame
    <3>4. NoneYet'
      BY <3>1, <3>3, NoneSame DEF FetchInv, SameCommands, SameCounts
    <3> QED
      BY <3>1, <3>2, <3>4 DEF FetchInv, Fetched
  <2> QED
    BY <2>1, <2>2, FetchedRead, FetchedError, FetchedEnd
<1>3. CASE pc # "copy"
  <2>1. ~Delivers
    BY <1>3 DEF Delivers, readRecord, readError, endRETR, endList, Here
  <2>2. SameGot
    BY <1>1, <2>1
  <2>3. NoneYet'
    <3>1. CASE Done
      BY <1>1, <2>2, <3>1, NoneDone DEF FetchInv
    <3>2. CASE GoesOn
      BY <1>3, <2>2, <3>2, NoneSame DEF FetchInv, GoesOn, SameCommands, SameCounts
    <3> QED
      BY <1>1, <3>1, <3>2
  <2>4. Fetched'
    <3>1. CASE pc' # "copy"
      BY <3>1 DEF Fetched
    <3>2. CASE pc' = "copy"
      <4>1. main
        BY <1>3 DEF main, readError, Here
      <4>2. \/ xfer'.cmd = "STAT"
            \/ /\ pc = "connect" /\ \E n \in Numbers, conn \in {"live", "lost"} : Connected(n, conn)
        BY <1>3, <3>2, <4>1, CopyBegins
      <4>3. CASE xfer'.cmd = "STAT"
        BY <4>3 DEF Fetched
      <4> QED
        BY <2>2, <4>2, <4>3, FetchedConnected
    <3> QED
      BY <3>1, <3>2
  <2> QED
    BY <2>3, <2>4 DEF FetchInv
<1> QED
  BY <1>2, <1>3

(* The main loop.                                                          *)
LEMMA FetchedLoop ==
  ASSUME TypeInv, OwnInv, FetchInv,
         boot \/ waitForSocket \/ acceptClient \/ noAccept \/ getCtlLine \/ lostCtl \/ endRound
           \/ terminate
  PROVE  FetchInv'
<1>1. pc # "copy" /\ pc' # "copy"
  BY DEF boot, waitForSocket, acceptClient, noAccept, getCtlLine, lostCtl, endRound, terminate,
         sock_shutdown
<1>2. SameCounts /\ SameGot
  <2>1. CASE boot \/ waitForSocket \/ noAccept \/ endRound \/ terminate
    <3>1. UNCHANGED clients
      BY <2>1 DEF boot, waitForSocket, noAccept, endRound, terminate, sock_shutdown
    <3> QED
      BY <3>1 DEF SameCounts, SameGot
  <2>2. CASE acceptClient
    BY <2>2, AcceptedClients DEF SameCounts, SameGot
  <2>3. CASE getCtlLine
    BY <2>3, TakesUp DEF SameCounts, SameGot
  <2>4. CASE lostCtl
    <3>1. pc = "serve" /\ round.todo # {} /\ clients' = Unqueued(NextUp.client)
      BY <2>4 DEF lostCtl
    <3>2. NextUp.client \in Clients
      BY <3>1, NextUpIs
    <3>3. \A d \in Clients : clients'[d] = clients[d] \/ clients'[d] = [clients[d] EXCEPT !.queued = <<>>]
      BY <3>1, <3>2, UnqueuedType DEF TypeInv
    <3>4. \A d \in Clients : clients[d] \in Client
      BY DEF TypeInv, ClientsType
    <3>5. ASSUME NEW d \in Clients
          PROVE  /\ clients'[d].sent = clients[d].sent /\ clients'[d].handled = clients[d].handled
                 /\ clients'[d].got = clients[d].got
      <4>1. CASE clients'[d] = [clients[d] EXCEPT !.queued = <<>>]
        BY <3>4, <4>1 DEF Client
      <4> QED
        BY <3>3, <4>1
    <3> QED
      BY <3>5 DEF SameCounts, SameGot
  <2> QED
    BY <2>1, <2>2, <2>3, <2>4
<1> QED
  BY <1>1, <1>2, NoneSame DEF FetchInv, Fetched

LEMMA FetchedNext ==
  ASSUME TypeInv, OwnInv, CommandsInv, MovingInv, FetchInv, [FtpNext]_ftpVars PROVE FetchInv'
<1>1. CASE main \/ readError \/ terminate
  BY <1>1, FetchedCommand, FetchedLoop DEF main
<1>2. CASE clientSteps \/ (\E c \in Clients : dial(c)) \/ loseData \/ UNCHANGED ftpVars
  BY <1>2, FetchedOutside
<1> QED
  BY <1>1, <1>2 DEF FtpNext

(* What a client has been sent of a file, while nothing fails, is what has *)
(* been read of it but for what is in the buffer (bufData).                *)
THEOREM FetchHolds == FtpSpec => []FetchInv
<1>1. FtpInit => FetchInv
  <2> SUFFICES ASSUME FtpInit PROVE FetchInv
    OBVIOUS
  <2>1. PICK s \in Scripts : clients = [c \in Clients |->
         [script |-> s[c], state |-> "out", sent |-> 0, begun |-> FALSE, unread |-> FALSE,
          handled |-> 0, replies |-> <<>>, queued |-> <<>>, dialed |-> 0, got |-> <<>>]]
    BY DEF FtpInit
  <2>2. pc # "copy" /\ \A c \in Clients : clients[c].got = <<>>
    BY <2>1 DEF FtpInit
  <2> QED
    BY <2>2 DEF FetchInv, NoneYet, Fetched
<1>2. TypeInv /\ OwnInv /\ CommandsInv /\ MovingInv /\ FetchInv /\ [FtpNext]_ftpVars => FetchInv'
  BY FetchedNext
<1> QED
  BY <1>1, <1>2, TypesHold, OwnersHold, CommandsHold, PTL DEF FtpSpec

(* A RETR is over: the client has got every record of the file.            *)
LEMMA DoneRETR ==
  ASSUME TypeInv, FetchInv, endRETR, Live, ~xfer.failed
  PROVE  LET recs == files[xfer.disk][xfer.name].recs
         IN clients'[me.client].got = Joined([i \in DOMAIN recs |-> unitOf(recs[i], xfer.format.binary)])
<1>1. /\ pc = "copy" /\ xfer.cmd = "RETR" /\ xfer.pos >= Len(files[f.disk][f.name].recs)
      /\ endTransfer(transmitEnd, <<>>)
  BY DEF endRETR, Here
<1>2. /\ f.disk = xfer.disk /\ f.name = xfer.name /\ files[f.disk][f.name] \in Files
      /\ xfer \in Xfer /\ Working
  BY <1>1, OpenFile
<1> DEFINE recs   == files[xfer.disk][xfer.name].recs
           binary == xfer.format.binary
           buf    == xfer.buf
<1>3. recs \in Seq(Records) /\ xfer.pos \in Nat
  BY <1>2 DEF Files, Xfer
<1>4. xfer.pos <= Len(recs) /\ clients[me.client].got \o buf = Units(recs, xfer.pos, binary)
  BY <1>1, Zenon DEF FetchInv, Fetched
<1>5. xfer.pos = Len(recs) /\ DOMAIN recs = 1 .. Len(recs)
  <2>1. xfer.pos >= Len(recs)
    BY <1>1, <1>2
  <2> HIDE DEF recs
  <2> QED
    BY <1>3, <1>4, <2>1
<1>6. GotMore(buf)
  <2>1. transmitEnd = Got(buf)
    BY DEF transmitEnd
  <2>2. FinishFrom(Got(buf), <<>> \o <<226>>)
    BY <1>1, <2>1, Zenon DEF endTransfer
  <2> HIDE DEF buf
  <2> QED
    BY <1>2, <2>2, GotDone
<1>7. clients'[me.client].got = clients[me.client].got \o buf
  BY <1>2, <1>6, MeType DEF GotMore
<1> HIDE DEF recs, binary, buf
<1>8. clients'[me.client].got = Joined([i \in 1 .. Len(recs) |-> unitOf(recs[i], binary)])
  BY <1>4, <1>5, <1>7, Zenon DEF Units
<1>9. clients'[me.client].got = Joined([i \in DOMAIN recs |-> unitOf(recs[i], binary)])
  BY <1>5, <1>8, Zenon
<1> QED
  BY <1>9, Zenon DEF recs, binary

(* A listing is over: the client has got all of it.                        *)
LEMMA DoneList ==
  ASSUME TypeInv, CommandsInv, FetchInv, endList, Live
  PROVE  clients'[me.client].got = Joined(listing(xfer.disk, xfer.name))
<1>1. /\ pc = "copy" /\ xfer.cmd \in {"LIST", "NLST", "STAT"} /\ Working /\ Moving /\ xfer \in Xfer
  BY DEF endList, Here, Working, Moving, TypeInv, XferType
<1> DEFINE rows == listing(xfer.disk, xfer.name)
           r    == transmitUnits(rows, Live)
           sent == r.out \o r.buf
<1>2. xfer.disk \in Disk \cup {Invalid}
  BY <1>1 DEF Xfer
<1>3. rows \in Seq(Stuff) /\ \A i \in 1 .. Len(rows) : Len(rows[i]) <= PACKETLEN
  <2>1. FilesType
    BY DEF TypeInv
  <2>2. rows \in Seq(Seq(Nat \cup Strings))
    BY <1>2, <2>1, ListingType
  <2>3. \A i \in 1 .. Len(rows) : Len(rows[i]) <= PACKETLEN
    BY <1>2, <2>1, ListingRows
  <2> QED
    BY <2>2, <2>3, Zenon DEF Stuff
<1>4. endTransfer(Got(sent), <<>>)
  <2>1. endTransfer(IF Live THEN Got(sent) ELSE clients, <<>>)
    BY Zenon DEF endList
  <2> HIDE DEF sent
  <2>2. (IF Live THEN Got(sent) ELSE clients) = Got(sent)
    OBVIOUS
  <2> QED
    BY <2>1, <2>2, Zenon
<1> HIDE DEF rows
<1>5. r.buf \in Stuff /\ r.out \in Stuff /\ sent = Joined(rows)
  BY <1>3, RowsSent, Zenon
<1> HIDE DEF r
<1>6. sent \in Stuff
  BY <1>5, OfStuff, Zenon
<1> HIDE DEF sent
<1>7. GotMore(sent) /\ me.client \in Clients
  <2>1. FinishFrom(Got(sent), <<>> \o <<226>>)
    BY <1>4, Zenon DEF endTransfer
  <2> QED
    BY <1>1, <2>1, GotDone, MeType
<1>8. clients[me.client].got = <<>>
  <2>1. clients[me.client].sent = clients[me.client].handled + 1
    BY <1>1 DEF CommandsInv, AtWork
  <2> QED
    BY <1>1, <1>7, <2>1 DEF FetchInv, NoneYet, Sender
<1>9. clients'[me.client].got = <<>> \o sent
  BY <1>7, <1>8, Zenon DEF GotMore
<1>10. <<>> \o sent = sent
  BY <1>6, OfStuff, Zenon
<1> QED
  BY <1>5, <1>9, <1>10, Zenon DEF rows

(* The record written at the end of an upload holds what was being filled. *)
LEMMA LastContent ==
  ASSUME TypeInv, pc = "copy", xfer.cmd \in {"STOR", "APPE"}
  PROVE  Texts(LastRecords) = xfer.buf /\ LastRecords \in AllRecords
<1>1. xfer.format \in Formats /\ xfer.buf \in Fills(xfer.format) /\ Moving
  BY OpenFile DEF TypeInv, XferType
<1> DEFINE OneOf(b) == <<recordOf(b, xfer.format)>>
<1>2. ASSUME NEW b \in Fills(xfer.format)
      PROVE  Texts(OneOf(b)) = b /\ OneOf(b) \in AllRecords
  <2>1. b \in Seq(Nat \ {BLANK}) /\ b \in Seq(Nat) /\ Len(b) < PACKETLEN /\ Len(b) <= Max({1, xfer.format.lrecl})
    BY <1>1, FillFits DEF Fills
  <2>2. recordOf(b, xfer.format) \in Records
    BY <1>1, <2>1, RecordType
  <2> DEFINE rec == recordOf(b, xfer.format)
  <2>3. Sift(rec, {BLANK}) = b
    BY <1>1, <2>1, RecordHolds
  <2>4. rec \in Records
    BY <2>2
  <2>5. OneOf(b) = Append(<<>>, rec)
    BY DEF OneOf
  <2> HIDE DEF rec, OneOf
  <2>6. <<>> \in AllRecords
    BY OfRecords
  <2>7. OneOf(b) \in AllRecords /\ Texts(OneOf(b)) = Texts(<<>>) \o Sift(rec, {BLANK})
    BY <2>4, <2>5, <2>6, TextsOne, Zenon
  <2>8. Texts(OneOf(b)) = <<>> \o b
    BY <2>3, <2>7, TextsNone, Zenon
  <2>9. <<>> \o b = b
    BY <2>1
  <2> QED
    BY <2>7, <2>8, <2>9, Zenon
<1>3. <<>> \in Fills(xfer.format)
  <2>1. <<>> \in Seq(Nat \ {BLANK})
    OBVIOUS
  <2> QED
    BY <1>1, <2>1 DEF Fills
<1>4. CASE xfer.buf # <<>>
  BY <1>1, <1>2, <1>4 DEF LastRecords
<1>5. CASE xfer.buf = <<>> /\ xfer.pos = 0 /\ xfer.cmd = "STOR"
  BY <1>2, <1>3, <1>5 DEF LastRecords
<1>6. CASE xfer.buf = <<>> /\ ~(xfer.pos = 0 /\ xfer.cmd = "STOR")
  <2>1. LastRecords = <<>>
    BY <1>6 DEF LastRecords
  <2> QED
    BY <1>6, <2>1, TextsNone, OfRecords, Zenon
<1> QED
  BY <1>4, <1>5, <1>6

(* An upload is over, and no record has failed: the file holds all that    *)
(* the client sent, behind what was in it.                                 *)
LEMMA DoneStored ==
  ASSUME TypeInv, StoreInv, endSTOR, Live, ~xfer.failed, failures' = failures
  PROVE  Texts(files'[xfer.disk][xfer.name].recs)
           = Texts(xfer.base) \o TextOf(cmd.arg.data, xfer.format.binary)
<1>1. pc = "copy" /\ xfer.cmd \in {"STOR", "APPE"} /\ xfer.left = <<>>
  BY DEF endSTOR, Here
<1>2. /\ Moving /\ xfer \in Xfer /\ f.disk = xfer.disk /\ f.name = xfer.name
      /\ xfer.disk \in DiskIdx /\ xfer.name \in Names
  BY <1>1, OpenFile
<1>3. /\ files[xfer.disk][xfer.name].recs \in AllRecords /\ xfer.base \in AllRecords
      /\ xfer.buf \in Bytes /\ xfer.rcvd \in Bytes
  BY <1>1, <1>2, UploadTypes
<1> DEFINE added == LastRecords
           recs  == files[xfer.disk][xfer.name].recs
           base  == xfer.base
           binary == xfer.format.binary
<1>4. Texts(added) = xfer.buf /\ added \in AllRecords
  BY <1>1, LastContent
<1>5. PICK n \in 0 .. Len(added) : writeRecords(added, n)
  BY Zenon DEF endSTOR, LastRecords
<1> HIDE DEF added
<1>6. n = Len(added)
  <2>1. ~Fail
    <3>1. failures \in Nat
      BY DEF TypeInv, WatchType
    <3> QED
      BY <3>1 DEF Fail
  <2>2. ~(n < Len(added))
    BY <2>1, <1>5, Zenon DEF writeRecords
  <2>3. Len(added) \in Nat
    BY <1>4 DEF AllRecords
  <2> QED
    BY <1>5, <2>2, <2>3
<1>7. files'[xfer.disk][xfer.name].recs = recs \o added
  <2>1. files' = [files EXCEPT ![xfer.disk][xfer.name] =
                    [is |-> @.is \/ n > 0, recs |-> @.recs \o SubSeq(added, 1, n)]]
    BY <1>2, <1>5 DEF writeRecords
  <2>2. files \in [DiskIdx -> [Names -> Files]]
    BY DEF TypeInv, FilesType
  <2>3. files'[xfer.disk][xfer.name].recs = recs \o SubSeq(added, 1, n)
    BY <1>2, <2>1, <2>2
  <2>4. SubSeq(added, 1, n) = added
    <3>1. added \in Seq(Records)
      BY <1>4, Zenon DEF AllRecords
    <3> QED
      BY <1>6, <3>1, SubSeqFull
  <2> QED
    BY <2>3, <2>4, Zenon
<1>8. Stands(recs, xfer.buf, base, xfer.rcvd, binary)
  BY <1>1, <1>2, Zenon DEF StoreInv, Holds
<1>9. xfer.rcvd = cmd.arg.data
  <2>1. xfer.rcvd \o xfer.left = cmd.arg.data
    BY <1>1, <1>2, Zenon DEF StoreInv
  <2>2. xfer.rcvd \o <<>> = xfer.rcvd
    BY <1>3, OfBytes, Zenon
  <2> QED
    BY <1>1, <2>1, <2>2, Zenon
<1> HIDE DEF recs, base, binary
<1>10. Texts(recs \o added) = Texts(recs) \o xfer.buf
  <2>1. recs \in AllRecords
    BY <1>3 DEF recs
  <2>2. Texts(recs \o added) = Texts(recs) \o Texts(added)
    BY <2>1, <1>4, TextsParts, Zenon
  <2> QED
    BY <1>4, <2>2, Zenon
<1>11. Texts(recs \o added) = Texts(base) \o TextOf(cmd.arg.data, binary)
  BY <1>8, <1>9, <1>10, Zenon DEF Stands
<1> QED
  BY <1>7, <1>11, Zenon DEF recs, base, binary

(* What a step that ends a transfer leaves behind.                         *)
Complete ==
  LET recs(fs) == fs[xfer.disk][xfer.name].recs
      got      == clients'[me.client].got
  IN CASE xfer.cmd = "RETR" ->
            got = Joined([i \in DOMAIN recs(files) |-> unitOf(recs(files)[i], xfer.format.binary)])
       [] xfer.cmd \in {"STOR", "APPE"} ->
            Texts(recs(files')) = Texts(xfer.base) \o TextOf(cmd.arg.data, xfer.format.binary)
       [] OTHER -> got = Joined(listing(xfer.disk, xfer.name))

LEMMA DoneCompletes ==
  ASSUME TypeInv, CommandsInv, StoreInv, FetchInv, [FtpNext]_ftpVars,
         pc = "copy", pc' = "serve", Live, ~xfer.failed, failures' = failures
  PROVE  Complete
<1>1. endRETR \/ endSTOR \/ endList
  <2>1. ~(clientSteps \/ (\E c \in Clients : dial(c)) \/ loseData \/ UNCHANGED ftpVars)
    BY OutsideSteps
  <2>2. ~terminate
    BY DEF terminate
  <2>3. main \/ readError
    BY <2>1, <2>2 DEF FtpNext
  <2>4. ~(readRecord \/ readError \/ recvChunk)
    BY DEF readRecord, readError, recvChunk
  <2> QED
    BY <2>3, <2>4, CopySteps
<1>2. CASE endRETR
  <2>1. xfer.cmd = "RETR"
    BY <1>2 DEF endRETR, Here
  <2>2. LET recs == files[xfer.disk][xfer.name].recs
        IN clients'[me.client].got = Joined([i \in DOMAIN recs |-> unitOf(recs[i], xfer.format.binary)])
    BY <1>2, DoneRETR
  <2> QED
    BY <2>1, <2>2, Zenon DEF Complete
<1>3. CASE endSTOR
  <2>1. xfer.cmd \in {"STOR", "APPE"} /\ xfer.cmd # "RETR"
    BY <1>3 DEF endSTOR, Here
  <2>2. Texts(files'[xfer.disk][xfer.name].recs)
           = Texts(xfer.base) \o TextOf(cmd.arg.data, xfer.format.binary)
    BY <1>3, DoneStored
  <2> QED
    BY <2>1, <2>2 DEF Complete
<1>4. CASE endList
  <2>1. xfer.cmd \notin {"STOR", "APPE"} /\ xfer.cmd # "RETR"
    BY <1>4 DEF endList, Here
  <2>2. clients'[me.client].got = Joined(listing(xfer.disk, xfer.name))
    BY <1>4, DoneList
  <2> QED
    BY <2>1, <2>2 DEF Complete
<1> QED
  BY <1>1, <1>2, <1>3, <1>4

(* A transfer whose data connection holds and for which nothing has failed *)
(* is complete when 226 is sent: the client of a RETR has got every record *)
(* of the file, the client of a listing all of it, and the file of an      *)
(* upload holds all that was sent, behind what an APPE found in it.        *)
THEOREM TransfersComplete == FtpSpec => DoneIsComplete
<1>1. TypeInv /\ CommandsInv /\ StoreInv /\ FetchInv /\ [FtpNext]_ftpVars
        => (pc = "copy" /\ pc' = "serve" /\ Live /\ ~xfer.failed /\ failures' = failures => Complete)
  BY DoneCompletes
<1>2. TypeInv /\ CommandsInv /\ StoreInv /\ FetchInv /\ [FtpNext]_ftpVars
        => [pc = "copy" /\ pc' = "serve" /\ Live /\ ~xfer.failed /\ failures' = failures => Complete]_ftpVars
  BY <1>1
<1> QED
  BY <1>2, TypesHold, CommandsHold, StoreHolds, FetchHolds, PTL DEF FtpSpec, DoneIsComplete, Complete

=============================================================================
