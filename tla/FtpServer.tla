----------------------------- MODULE FtpServer ------------------------------
(***************************************************************************)
(* The FTP server of CMS (cms/cmsftpd.c): one thread that serves any       *)
(* number of control connections, one command at a time, and ends with     *)
(* the last of its sessions.                                               *)
(*                                                                         *)
(* The server waits in five places: in selectX for a control connection,   *)
(* in recv for the end of a command line, in accept for a data connection  *)
(* that the client opens, and in recv and send on that connection.         *)
(* Between them its steps are atomic.  The socket calls are taken from the *)
(* Sockets module by what they return; the CMS file functions and the FTP  *)
(* clients are external.                                                   *)
(*                                                                         *)
(* A path is the sequence of its parts, a file id one of Names, a text a   *)
(* sequence of bytes with LF at the line ends (the CR is left out).        *)
(***************************************************************************)
EXTENDS Integers, Sequences, FiniteSets, FiniteSetsExt, SequencesExt

CONSTANTS
  Clients,        \* FTP clients, each with one control connection
  Names,          \* file ids (without the disk)
  disks,          \* index -> letter and readonly flag of a minidisk
  ftOverrides,    \* name -> binary, recfm, lrecl, for the overridden types
  reqPwd,         \* is a password required
  autoOverwrite,  \* -replace
  FD_SETSIZE,     \* socket numbers (64)
  PACKETLEN,      \* length of the buffers
  DefaultLrecl,   \* LRECL without a modifier (80)
  Scripts,        \* client -> the commands it sends, for each case
  Stored,         \* the files at the start
  MaxFailures     \* bound: failures of sockets, connections and files

Root    == -1     \* currDisk of "/"
Invalid == -2     \* no such path
Loops   == -3     \* the interpretation of the path does not end
Denied  == -4     \* no default disk
DiskIdx == DOMAIN disks

BLANK == 0        \* fills the records, blank or zero
LF    == 10

ASSUME FtpAssumption ==
  /\ IsFiniteSet(DiskIdx) /\ 0 \in DiskIdx
  /\ DiskIdx = 0 .. Cardinality(DiskIdx) - 1
  /\ IsFiniteSet(Names) /\ Names \subseteq STRING /\ IsFiniteSet(Clients)
  /\ {reqPwd, autoOverwrite} \subseteq BOOLEAN
  /\ {FD_SETSIZE, DefaultLrecl} \subseteq Nat \ {0}
  /\ PACKETLEN \in Nat /\ DefaultLrecl < PACKETLEN
  /\ MaxFailures \in Nat
  /\ DOMAIN ftOverrides \subseteq Names

(* What clients send and files hold.  A record is never empty, nor so long *)
(* that it does not fit into the buffer (255 against 1400).                *)
Lrecls  == 0 .. PACKETLEN - 1
Records == {r \in Seq(Nat) : Len(r) \in 1 .. PACKETLEN - 1}
Files   == [is : BOOLEAN, recs : Seq(Records)]
Formats == [binary : BOOLEAN, recfm : {"F", "V"}, lrecl : Lrecls]
Arguments ==
  [is : {"none", "word", "dir", "file"}, abs : BOOLEAN, parts : Seq(STRING), good : BOOLEAN,
   name : STRING, mod : {<<>>} \cup {"F", "V"} \X Lrecls, replace : BOOLEAN, word : STRING,
   data : Seq(Nat \ {BLANK})]
Commands == [cmd : STRING, arg : Arguments]

ASSUME FtpDataAssumption ==
  /\ disks \in [DiskIdx -> [letter : STRING, readonly : BOOLEAN]]
  /\ ftOverrides \in [DOMAIN ftOverrides -> Formats]
  /\ Stored \in [DiskIdx -> [Names -> Files]]
  /\ Scripts \subseteq [Clients -> Seq(Commands)]

VARIABLES
  srvSocket, trfSocket,        \* socket numbers or -1
  clientSocks, lastSockPlus1,  \* the set to watch and its limit
  clientSockCount,
  sessions,   \* list of the sessions, the newest first
  f,          \* the open CMS file
  pc,         \* what the server is at
  round,      \* result of the last selectX and the sessions left to look at
  cmd,        \* the command being worked on
  xfer,       \* the data transfer it is at
  sockets,    \* number -> what it is used for (external)
  files,      \* disk -> name -> file (external)
  clients,    \* client -> its state and what it has got (external)
  failures

watch   == <<srvSocket, clientSocks, lastSockPlus1, clientSockCount>>
program == <<watch, sessions, f, trfSocket, xfer>>
ftpVars == <<program, pc, round, cmd, sockets, files, clients, failures>>

Numbers == 0 .. FD_SETSIZE - 1
Closed  == [use |-> "none", client |-> 0]
Absent  == [is |-> FALSE, recs |-> <<>>]
NULL    == [is |-> "closed"]
NoXfer  == [cmd |-> "none"]
NoCmd   == [cmd |-> "none"]

FtpInit ==
  /\ srvSocket = -1 /\ trfSocket = -1
  /\ clientSocks = {} /\ lastSockPlus1 = 0 /\ clientSockCount = 0
  /\ sessions = <<>>
  /\ f = NULL
  /\ pc = "boot"
  /\ round = [active |-> {}, todo |-> {}, done |-> FALSE]
  /\ cmd = NoCmd
  /\ xfer = NoXfer
  /\ sockets = [n \in Numbers |-> Closed]
  /\ files = Stored
  /\ failures = 0
  /\ \E s \in Scripts :
       clients = [c \in Clients |->
         [script |-> s[c], state |-> "out", sent |-> 0, begun |-> FALSE, unread |-> FALSE,
          handled |-> 0, replies |-> <<>>, queued |-> <<>>, dialed |-> 0, got |-> <<>>]]

-----------------------------------------------------------------------------
(* External: socket numbers, failures, and what a client has got.          *)

FreeNumbers == {n \in Numbers : sockets[n] = Closed}
NewNumber   == IF FreeNumbers = {} THEN -1 ELSE Min(FreeNumbers)
Open(n, use, c) == [sockets EXCEPT ![n] = [use |-> use, client |-> c]]
Close(ns) == [n \in Numbers |-> IF n \in ns THEN Closed ELSE sockets[n]]

Fail == failures < MaxFailures /\ failures' = failures + 1

Final(code)   == code >= 200
Between(c)    == clients[c].handled = clients[c].sent
Answered(c)   == Between(c) /\ \E i \in DOMAIN clients[c].replies : Final(clients[c].replies[i])
Current(c)    == clients[c].script[clients[c].sent]
Transfers     == {"RETR", "STOR", "APPE", "LIST", "NLST"}

-----------------------------------------------------------------------------
(* Sessions.                                                               *)

NewSession(sock, c) ==
  [client |-> c, ctlSocket |-> sock, psvSocket |-> -1, notedUser |-> "", loggedIn |-> FALSE,
   havingActiveClientAddr |-> FALSE, ftpTrfBinary |-> FALSE, currDisk |-> Root,
   renameFrom |-> "", renameDiskIdx |-> Root]

(* Slip: the server socket counts as a session.                            *)
initClientSocks_counted(sock) ==
  clientSocks' = {sock} /\ lastSockPlus1' = sock + 1 /\ clientSockCount' = 1

initClientSocks(sock) ==
  clientSocks' = {sock} /\ lastSockPlus1' = sock + 1 /\ clientSockCount' = 0

(* Slip: the limit of the set to watch stays.                              *)
addClientSock_sameLimit(sock, c) ==
  /\ clientSocks' = clientSocks \cup {sock}
  /\ clientSockCount' = clientSockCount + 1
  /\ lastSockPlus1' = lastSockPlus1
  /\ sessions' = <<NewSession(sock, c)>> \o sessions

addClientSock(sock, c) ==
  /\ clientSocks' = clientSocks \cup {sock}
  /\ clientSockCount' = clientSockCount + 1
  /\ lastSockPlus1' = Max({lastSockPlus1, sock + 1})
  /\ sessions' = <<NewSession(sock, c)>> \o sessions

SessionAt(n) == CHOOSE i \in DOMAIN sessions : sessions[i].ctlSocket = n
SocketsOf(s) == {s.ctlSocket, s.psvSocket} \cap Numbers

(* The connections that wait at a passive socket go with it.               *)
Unqueued(c) == [clients EXCEPT ![c].queued = <<>>]

(* Slip: the passive socket of the session stays open.                     *)
dropClientSock_leaks(n) ==
  LET i == SessionAt(n)
  IN /\ sessions' = RemoveAt(sessions, i)
     /\ sockets' = Close({n})
     /\ clientSocks' = clientSocks \ {n}
     /\ clientSockCount' = clientSockCount - 1
     /\ round' = [round EXCEPT !.done = (@ \/ clientSockCount - 1 <= 0),
                                !.todo = @ \ {n}]

(* Slip: the session is not counted off.                                   *)
dropClientSock_uncounted(n) ==
  LET i == SessionAt(n)
  IN /\ sessions' = RemoveAt(sessions, i)
     /\ sockets' = Close(SocketsOf(sessions[i]))
     /\ clientSocks' = clientSocks \ {n}
     /\ clientSockCount' = clientSockCount
     /\ round' = [round EXCEPT !.done = (@ \/ clientSockCount <= 0),
                                !.todo = @ \ {n}]

dropClientSock(n) ==
  LET i == SessionAt(n)
  IN /\ sessions' = RemoveAt(sessions, i)
     /\ sockets' = Close(SocketsOf(sessions[i]))
     /\ clientSocks' = clientSocks \ {n}
     /\ clientSockCount' = clientSockCount - 1
     /\ round' = [round EXCEPT !.done = (@ \/ clientSockCount - 1 <= 0),
                                !.todo = @ \ {n}]

(* trfSocket may be the number of a data connection closed long ago.       *)
sock_shutdown ==
  /\ sockets' = Close(({trfSocket, srvSocket} \cap Numbers)
                        \cup UNION {SocketsOf(sessions[i]) : i \in DOMAIN sessions})
  /\ sessions' = <<>>
  /\ clientSocks' = clientSocks \ {sessions[i].ctlSocket : i \in DOMAIN sessions}
  /\ clientSockCount' = clientSockCount - Len(sessions)
  /\ pc' = "ended"
  /\ UNCHANGED <<srvSocket, lastSockPlus1, trfSocket, f, xfer, cmd, files>>

-----------------------------------------------------------------------------
(* The file system over the minidisks.                                     *)

getDiskIdx(letter) ==
  IF \E d \in DiskIdx : disks[d].letter = letter
  THEN Min({d \in DiskIdx : disks[d].letter = letter})
  ELSE Invalid

(* The tree is one level deep.  A part that starts with a dot and is       *)
(* neither "." nor ".." is never skipped.                                  *)
enterPart(idx, part) ==
  CASE idx \in {Invalid, Loops} -> idx
    [] part = ".."   -> Root
    [] part = "."    -> idx
    [] part = ".x"   -> Loops
    [] part = ""     -> Invalid
    [] OTHER         -> IF idx = Root THEN getDiskIdx(part) ELSE Invalid

getDirIdx(s, arg) ==
  LET at[i \in 0 .. Len(arg.parts)] ==
        IF i = 0 THEN (IF arg.abs THEN Root ELSE s.currDisk)
        ELSE enterPart(at[i - 1], arg.parts[i])
  IN at[Len(arg.parts)]

(* The disk of a file spec, or why there is none.  Without a path, or with *)
(* "/" alone, it is the A disk (which is the first if it is there).        *)
parseFullPath(s, arg) ==
  CASE arg.is # "file" \/ ~arg.good -> Invalid
    [] arg.parts = <<>> /\ ~arg.abs /\ s.currDisk # Root -> s.currDisk
    [] arg.parts = <<>> /\ (arg.abs \/ s.currDisk = Root) ->
         IF disks[0].letter = "A" THEN 0 ELSE Denied
    [] OTHER -> getDirIdx(s, arg)

Refusal(d) == IF d = Denied THEN 553 ELSE 501

findOverride(name) == name \in DOMAIN ftOverrides

(* The upload modifier, or the defaults of the file type, or V 80.         *)
formatOf(s, arg) ==
  CASE arg.mod # <<>> -> [binary |-> s.ftpTrfBinary, recfm |-> arg.mod[1], lrecl |-> arg.mod[2]]
    [] arg.mod = <<>> /\ findOverride(arg.name) -> ftOverrides[arg.name]
    [] OTHER -> [binary |-> s.ftpTrfBinary, recfm |-> "V", lrecl |-> DefaultLrecl]

-----------------------------------------------------------------------------
(* Commands that neither wait nor transfer.                                *)

Is(names) == pc = "cmd" /\ cmd.cmd \in names
me == sessions[SessionAt(cmd.h)]
setSession(s) == sessions' = [sessions EXCEPT ![SessionAt(cmd.h)] = s]

(* The last replies to a command, after which the next session is served.  *)
FinishFrom(cls, codes) ==
  /\ clients' = [cls EXCEPT ![me.client].replies = @ \o codes, ![me.client].handled = @ + 1]
  /\ pc' = "serve"
  /\ cmd' = NoCmd
Finish(codes) == FinishFrom(clients, codes)

simple == UNCHANGED <<watch, f, trfSocket, xfer, round>>

cmdUSER ==
  /\ Is({"USER"})
  /\ setSession([me EXCEPT !.notedUser = IF reqPwd THEN cmd.arg.word ELSE @, !.loggedIn = FALSE])
  /\ Finish(<<331>>)
  /\ simple /\ UNCHANGED <<sockets, files, failures>>

(* Slip: the noted user is kept.                                           *)
passWord_keepsUser(s, word) ==
  LET ok == ~reqPwd \/ (s.notedUser = "right" /\ word = "right")
  IN [s EXCEPT !.loggedIn = ok]

passWord(s, word) ==
  LET ok == ~reqPwd \/ (s.notedUser = "right" /\ word = "right")
  IN [s EXCEPT !.loggedIn = ok, !.notedUser = ""]

cmdPASS ==
  /\ Is({"PASS"})
  /\ LET s == passWord(me, cmd.arg.word)
     IN setSession(s) /\ Finish(IF s.loggedIn THEN <<230>> ELSE <<530>>)
  /\ simple /\ UNCHANGED <<sockets, files, failures>>

BeforeLogin == {"", "USER", "PASS", "NOOP", "SYST", "QUIT", "PORT", "PASV", "PWD"}
WithLogin   == {"CWD", "CDUP", "LIST", "NLST", "STAT", "RETR", "STOR", "APPE", "TYPE", "DELE",
                "MKD", "RMD", "RNFR", "RNTO"}

(* NOOP, SYST, PWD, MKD, RMD, an unknown command, and every other command  *)
(* of a session that is not logged in.                                     *)
onlyReply ==
  /\ pc = "cmd"
  /\ \/ cmd.cmd \in {"NOOP", "SYST", "PWD"} /\ Finish(<<200>>)
     \/ cmd.cmd \notin BeforeLogin /\ ~me.loggedIn /\ Finish(<<530>>)
     \/ cmd.cmd \in {"MKD", "RMD"} /\ me.loggedIn /\ Finish(<<550>>)
     \/ cmd.cmd \notin BeforeLogin \cup WithLogin /\ me.loggedIn /\ Finish(<<502>>)
  /\ simple /\ UNCHANGED <<sessions, sockets, files, failures>>

(* A line without a command ends the session, too, but with no reply.      *)
cmdQUIT ==
  /\ Is({"QUIT", ""})
  /\ dropClientSock(cmd.h)
  /\ FinishFrom(Unqueued(me.client), IF cmd.cmd = "QUIT" THEN <<221>> ELSE <<>>)
  /\ UNCHANGED <<srvSocket, lastSockPlus1, f, trfSocket, xfer, files, failures>>

(* A passive socket that is still open is used again.                      *)
cmdPASV ==
  /\ Is({"PASV"})
  /\ LET n == NewNumber
     IN \/ /\ me.psvSocket >= 0
           /\ Finish(<<227>>)
           /\ UNCHANGED <<sessions, sockets, failures>>
        \/ /\ me.psvSocket < 0 /\ n >= 0
           /\ sockets' = Open(n, "psv", me.client)
           /\ setSession([me EXCEPT !.psvSocket = n, !.havingActiveClientAddr = FALSE])
           /\ Finish(<<227>>)
           /\ UNCHANGED failures
        \/ /\ me.psvSocket < 0
           /\ IF n < 0 THEN UNCHANGED failures ELSE Fail
           /\ Finish(<<500>>)
           /\ UNCHANGED <<sessions, sockets>>
  /\ simple /\ UNCHANGED files

cmdPORT ==
  /\ Is({"PORT"})
  /\ \/ /\ cmd.arg.word # "address"
        /\ Finish(<<501>>)
        /\ UNCHANGED <<sessions, sockets>>
     \/ /\ cmd.arg.word = "address"
        /\ setSession([me EXCEPT !.havingActiveClientAddr = TRUE, !.psvSocket = -1])
        /\ sockets' = Close({me.psvSocket} \cap Numbers)
        /\ FinishFrom(Unqueued(me.client), <<200>>)
  /\ simple /\ UNCHANGED <<files, failures>>

(* CDUP is CWD to the root.                                                *)
cmdCWD ==
  /\ Is({"CWD", "CDUP"}) /\ me.loggedIn
  /\ LET d == IF cmd.cmd = "CDUP" THEN Root
              ELSE IF cmd.arg.is = "none" THEN Invalid ELSE getDirIdx(me, cmd.arg)
     IN \/ /\ d = Invalid
           /\ Finish(<<550>>)
           /\ simple /\ UNCHANGED <<sessions, sockets, files, failures>>
        \/ /\ d >= Root
           /\ setSession([me EXCEPT !.currDisk = d])
           /\ Finish(<<250>>)
           /\ simple /\ UNCHANGED <<sockets, files, failures>>

cmdTYPE ==
  /\ Is({"TYPE"}) /\ me.loggedIn
  /\ \/ /\ cmd.arg.word \in {"I", "A"}
        /\ setSession([me EXCEPT !.ftpTrfBinary = (cmd.arg.word = "I")])
        /\ Finish(<<200>>)
     \/ /\ cmd.arg.word \notin {"I", "A"}
        /\ Finish(<<504>>)
        /\ UNCHANGED sessions
  /\ simple /\ UNCHANGED <<sockets, files, failures>>

(* DELE, RNFR and RNTO take the first disk for the root.                   *)
DiskFor(d) == CASE d # Root -> d
                [] d = Root /\ (disks[0].letter = "A" \/ cmd.cmd = "RNTO") -> 0
                [] OTHER -> Denied

mayChange(d) == ~disks[d].readonly

cmdDELE ==
  /\ Is({"DELE"}) /\ me.loggedIn
  /\ LET d  == DiskFor(parseFullPath(me, cmd.arg))
         nm == cmd.arg.name
         can == mayChange(d) /\ nm \in Names /\ files[d][nm].is
     IN \/ /\ d \in {Invalid, Denied}
           /\ Finish(<<Refusal(d)>>)
           /\ simple /\ UNCHANGED <<sessions, sockets, files, failures>>
        \/ /\ d \in DiskIdx
           /\ IF can THEN Fail ELSE UNCHANGED failures
           /\ Finish(IF mayChange(d) /\ nm \notin Names THEN <<553>> ELSE <<550>>)
           /\ simple /\ UNCHANGED <<sessions, sockets, files>>
        \/ /\ d \in DiskIdx /\ can
           /\ files' = [files EXCEPT ![d][nm] = Absent]
           /\ Finish(<<250>>)
           /\ simple /\ UNCHANGED <<sessions, sockets, failures>>

cmdRNFR ==
  /\ Is({"RNFR"}) /\ me.loggedIn
  /\ LET d  == DiskFor(parseFullPath(me, cmd.arg))
         ok == d \in DiskIdx /\ cmd.arg.name \in Names
     IN \/ /\ d # Loops /\ ~ok
           /\ setSession([me EXCEPT !.renameDiskIdx = Root])
           /\ Finish(IF d \in DiskIdx THEN <<553>> ELSE <<Refusal(d)>>)
           /\ simple /\ UNCHANGED <<sockets, files, failures>>
        \/ /\ ok
           /\ setSession([me EXCEPT !.renameDiskIdx = d, !.renameFrom = cmd.arg.name])
           /\ Finish(<<350>>)
           /\ simple /\ UNCHANGED <<sockets, files, failures>>

(* A path that is refused leaves the rename pending, any other outcome     *)
(* ends it.                                                                *)
cmdRNTO ==
  /\ Is({"RNTO"}) /\ me.loggedIn
  /\ LET d     == DiskFor(parseFullPath(me, cmd.arg))
         from  == me.renameFrom
         to    == cmd.arg.name
         asked == me.renameDiskIdx # Root
         named == asked /\ d = me.renameDiskIdx /\ mayChange(d) /\ to \in Names
         ended == setSession([me EXCEPT !.renameDiskIdx = Root])
     IN \/ /\ ~asked \/ d \in {Invalid, Denied}
           /\ Finish(IF asked THEN <<Refusal(d)>> ELSE <<503>>)
           /\ simple /\ UNCHANGED <<sessions, sockets, files, failures>>
        \/ /\ asked /\ d \in DiskIdx /\ ~named
           /\ ended
           /\ Finish(IF d = me.renameDiskIdx /\ mayChange(d) THEN <<553>> ELSE <<550>>)
           /\ simple /\ UNCHANGED <<sockets, files, failures>>
        \/ /\ named
           /\ ended
           /\ LET can == files[d][from].is /\ ~files[d][to].is
              IN \/ /\ can
                    /\ files' = [files EXCEPT ![d][to] = files[d][from], ![d][from] = Absent]
                    /\ Finish(<<250>>)
                    /\ UNCHANGED failures
                 \/ /\ IF can THEN Fail ELSE UNCHANGED failures
                    /\ Finish(<<550>>)
                    /\ UNCHANGED files
           /\ simple /\ UNCHANGED sockets

-----------------------------------------------------------------------------
(* Transfers: the file is opened first, then the data connection.          *)

(* disks[-1] is read if the path leads to the root: any letter, any flag.  *)
DisksAt(d)    == IF d = Root THEN DiskIdx \cup {Invalid} ELSE {d}
ReadonlyAt(d) == IF d = Root THEN BOOLEAN ELSE {~mayChange(d)}

Transfer(d, nm) ==
  [cmd |-> cmd.cmd, disk |-> d, name |-> nm, format |-> formatOf(me, cmd.arg),
   sock |-> -1, conn |-> "none", buf |-> <<>>, pos |-> 0,
   base |-> <<>>, rcvd |-> <<>>, left |-> cmd.arg.data, failed |-> FALSE, stays |-> FALSE]

Preliminary(codes) == clients' = [clients EXCEPT ![me.client].replies = @ \o codes]

(* openFile fails; f is reset, or left as it was if the old file cannot be *)
(* erased or its records are too long.                                     *)
openError ==
  /\ f' \in {NULL, f}
  /\ Finish(<<550>>)
  /\ UNCHANGED <<watch, sessions, trfSocket, xfer, round, sockets>>

refuse(code) ==
  /\ Finish(<<code>>)
  /\ simple /\ UNCHANGED <<sessions, sockets, files, failures>>

cmdRETR ==
  /\ Is({"RETR"}) /\ me.loggedIn
  /\ LET d == parseFullPath(me, cmd.arg)
     IN \/ d \in {Invalid, Denied} /\ refuse(Refusal(d))
        \/ /\ d >= Root
           /\ \E e \in DisksAt(d) :
                LET found == e \in DiskIdx /\ cmd.arg.name \in Names /\ files[e][cmd.arg.name].is
                IN \/ /\ IF found THEN Fail ELSE UNCHANGED failures
                      /\ openError /\ UNCHANGED files
                   \/ /\ found
                      /\ f' = [is |-> "read", disk |-> e, name |-> cmd.arg.name]
                      /\ xfer' = Transfer(e, cmd.arg.name)
                      /\ Preliminary(<<150>>)
                      /\ pc' = "connect"
                      /\ UNCHANGED <<watch, sessions, trfSocket, round, cmd, sockets, files,
                                     failures>>

mayReplace(arg) == cmd.cmd = "APPE" \/ autoOverwrite \/ arg.replace

(* The old file is erased before there is a data connection.               *)
cmdSTOR ==
  /\ Is({"STOR", "APPE"}) /\ me.loggedIn
  /\ LET d  == parseFullPath(me, cmd.arg)
         nm == cmd.arg.name
     IN \/ d \in {Invalid, Denied} /\ refuse(Refusal(d))
        \/ d >= Root /\ TRUE \in ReadonlyAt(d) /\ refuse(553)
        \/ /\ d >= Root /\ FALSE \in ReadonlyAt(d)
           /\ \E e \in DisksAt(d) :
                LET named == e \in DiskIdx /\ nm \in Names
                    there == named /\ files[e][nm].is
                    erased == IF there /\ cmd.cmd = "STOR" THEN [files EXCEPT ![e][nm] = Absent]
                              ELSE files
                IN \/ there /\ ~mayReplace(cmd.arg) /\ refuse(553)
                   \/ /\ ~there \/ mayReplace(cmd.arg)
                      /\ IF named THEN Fail ELSE UNCHANGED failures
                      /\ openError /\ files' \in {files, erased}
                   \/ /\ named /\ (~there \/ mayReplace(cmd.arg))
                      /\ f' = [is |-> "write", disk |-> e, name |-> nm]
                      /\ files' = erased
                      /\ xfer' = [Transfer(e, nm) EXCEPT !.base = files'[e][nm].recs]
                      /\ Preliminary(<<150>>)
                      /\ pc' = "connect"
                      /\ UNCHANGED <<watch, sessions, trfSocket, round, cmd, sockets, failures>>

(* LIST, NLST and STAT.  A parameter is a directory, or else a pattern; if *)
(* it is neither, both parseFullPath and cmdList send a reply.  Patterns   *)
(* that cannot be compiled (external) are refused.  STAT uses the control  *)
(* connection for the data.                                                *)
cmdList ==
  /\ Is({"LIST", "NLST", "STAT"}) /\ me.loggedIn
  /\ LET dir  == IF cmd.arg.is = "none" THEN me.currDisk
                 ELSE IF cmd.arg.is = "file" /\ getDirIdx(me, cmd.arg) # Loops THEN Invalid
                 ELSE getDirIdx(me, cmd.arg)
         d    == IF dir # Invalid THEN dir ELSE parseFullPath(me, cmd.arg)
         name == IF dir # Invalid THEN "*" ELSE cmd.arg.name
     IN \/ /\ d \in {Invalid, Denied}
           /\ Finish(<<Refusal(d), 550>>)
           /\ simple /\ UNCHANGED <<sessions, sockets, files, failures>>
        \/ dir = Invalid /\ d >= Root /\ refuse(550)
        \/ /\ d >= Root
           /\ \E e \in IF dir = Root THEN {Root} ELSE DisksAt(d) :
                IF cmd.cmd = "STAT"
                THEN /\ xfer' = [Transfer(e, name) EXCEPT !.sock = cmd.h,
                                 !.conn = IF clients[me.client].state = "on" THEN "live" ELSE "lost"]
                     /\ trfSocket' = cmd.h
                     /\ pc' = "copy"
                ELSE /\ xfer' = Transfer(e, name)
                     /\ pc' = "connect"
                     /\ UNCHANGED trfSocket
           /\ Preliminary(<<150>>)
           /\ UNCHANGED <<watch, sessions, f, round, cmd, sockets, files, failures>>

(* RETR keeps the socket in a variable of its own.                         *)
setTrfSocket(n) == trfSocket' = IF xfer.cmd = "RETR" THEN trfSocket ELSE n

(* A connection waits at the passive socket for each transfer command the  *)
(* client opened one for; what it opened for an earlier one is closed.     *)
Connected(n, conn) ==
  /\ sockets' = Open(n, "data", me.client)
  /\ setTrfSocket(n)
  /\ xfer' = [xfer EXCEPT !.sock = n, !.conn = conn]
  /\ pc' = "copy"
  /\ UNCHANGED <<watch, sessions, f, round, cmd, files, failures>>

NotConnected(code) ==
  /\ Finish(<<code>>)
  /\ setTrfSocket(-1)
  /\ xfer' = NoXfer
  /\ UNCHANGED <<watch, sessions, f, round, sockets, files>>

openDataConnection ==
  /\ pc = "connect"
  /\ LET c    == me.client
         n    == NewNumber
         here == clients[c].state = "on"
     IN \/ /\ me.psvSocket < 0 /\ ~me.havingActiveClientAddr
           /\ NotConnected(503)
           /\ UNCHANGED failures
        \/ /\ me.psvSocket >= 0 /\ n >= 0 /\ clients[c].queued # <<>>
           /\ Connected(n, IF Head(clients[c].queued) = clients[c].sent /\ here
                           THEN "live" ELSE "lost")
           /\ clients' = [clients EXCEPT ![c].queued = Tail(@)]
        \/ /\ me.psvSocket < 0 /\ me.havingActiveClientAddr /\ n >= 0 /\ here
           /\ Connected(n, "live")
           /\ UNCHANGED clients
        \/ /\ me.psvSocket >= 0 \/ me.havingActiveClientAddr
           /\ IF n < 0 \/ (me.psvSocket < 0 /\ ~here) THEN UNCHANGED failures ELSE Fail
           /\ NotConnected(425)

-----------------------------------------------------------------------------
(* The content of files.                                                   *)

(* Blanks at the end of a record are dropped, down to one byte.            *)
trimmed(rec) ==
  LET last == Max({1} \cup {i \in DOMAIN rec : rec[i] # BLANK}) IN SubSeq(rec, 1, last)

unitOf(rec, binary) == IF binary THEN rec ELSE trimmed(rec) \o <<LF>>

(* Empty records become one byte, fixed ones are filled to LRECL.          *)
recordOf(bytes, format) ==
  LET len == Max({1, Len(bytes), IF format.recfm = "F" THEN format.lrecl ELSE 1})
  IN [i \in 1 .. len |-> IF i <= Len(bytes) THEN bytes[i] ELSE BLANK]

(* One byte of an upload: s.fill is the record that is being filled, s.recs *)
(* the records to write.                                                   *)
takeByte(s, b, format) ==
  LET fill == Append(s.fill, b)
      end  == [fill |-> <<>>, recs |-> Append(s.recs, recordOf(s.fill, format))]
      full == [fill |-> <<>>, recs |-> Append(s.recs, recordOf(fill, format))]
  IN CASE ~format.binary /\ b = LF -> end
       [] ~(~format.binary /\ b = LF) /\ Len(fill) >= format.lrecl -> full
       [] OTHER -> [s EXCEPT !.fill = fill]

takeBytes(start, chunk, format) ==
  LET taken[i \in 0 .. Len(chunk)] ==
        IF i = 0 THEN start ELSE takeByte(taken[i - 1], chunk[i], format)
  IN taken[Len(chunk)]

(* Slip: each packet starts a record.                                      *)
takeChunk_afresh(fill, chunk, format) ==
  takeBytes([fill |-> <<>>, recs |-> <<>>], chunk, format)

takeChunk(fill, chunk, format) ==
  takeBytes([fill |-> fill, recs |-> <<>>], chunk, format)

-----------------------------------------------------------------------------
(* The transfer.  x.buf is bufData, or the record being filled by STOR.    *)

Here(kinds) == pc = "copy" /\ xfer.cmd \in kinds

(* transmitUnit: the new buffer and what is sent.  After a failed send the *)
(* buffer is kept and the unit dropped.                                    *)
transmitUnit(buf, unit, ok) ==
  LET cut == SubSeq(unit, 1, Min({PACKETLEN, Len(unit)}))
  IN IF Len(buf) + Len(unit) > PACKETLEN /\ buf # <<>>
     THEN IF ok THEN [buf |-> cut, out |-> buf] ELSE [buf |-> buf, out |-> <<>>]
     ELSE [buf |-> buf \o cut, out |-> <<>>]

Live == xfer.conn = "live"
Got(bytes) == [clients EXCEPT ![me.client].got = @ \o bytes]

copying == UNCHANGED <<watch, sessions, trfSocket, round, sockets>>

readRecord ==
  /\ Here({"RETR"})
  /\ ~xfer.stays
  /\ LET recs == files[f.disk][f.name].recs
     IN /\ xfer.pos < Len(recs)
        /\ LET r == transmitUnit(xfer.buf, unitOf(recs[xfer.pos + 1], xfer.format.binary), Live)
           IN /\ xfer' = [xfer EXCEPT !.pos = @ + 1, !.buf = r.buf]
              /\ clients' = Got(r.out)
  /\ copying /\ UNCHANGED <<f, pc, cmd, files, failures>>

(* A reply is sent, but the transfer goes on; in a text the bytes read     *)
(* before, translated twice, go out again (they are left out here).  Only  *)
(* the end of the file ends the loop of cmdRETR: if the error stays it     *)
(* goes on for ever, with a reply each time (the first one is kept here).  *)
readError ==
  /\ Here({"RETR"})
  /\ ~xfer.stays
  /\ Fail
  /\ LET again == IF xfer.format.binary THEN <<>> ELSE <<LF>>
         r     == transmitUnit(xfer.buf, again, Live)
     IN /\ \E stays \in BOOLEAN :
             xfer' = [xfer EXCEPT !.failed = TRUE, !.stays = stays, !.buf = r.buf]
        /\ clients' = [Got(r.out) EXCEPT ![me.client].replies = Append(@, 550)]
  /\ copying /\ UNCHANGED <<f, pc, cmd, files>>

(* The end of a transfer, whatever became of its records.                  *)
endTransfer(cls, codes) ==
  /\ FinishFrom(cls, codes \o <<226>>)
  /\ sockets' = IF xfer.cmd = "STAT" THEN sockets ELSE Close({xfer.sock})
  /\ xfer' = NoXfer
  /\ UNCHANGED <<watch, sessions, round>>

(* Slip: the last packet is not sent.                                      *)
transmitEnd_never == clients

transmitEnd == IF Live THEN Got(xfer.buf) ELSE clients

endRETR ==
  /\ Here({"RETR"})
  /\ ~xfer.stays
  /\ xfer.pos >= Len(files[f.disk][f.name].recs)
  /\ endTransfer(transmitEnd, <<>>)
  /\ f' = NULL
  /\ UNCHANGED <<trfSocket, files, failures>>

(* Records are written one by one, the first n of them with success; each  *)
(* that fails is answered, and the next is tried.  A full disk stays full. *)
writeRecords(recs, n) ==
  /\ xfer.failed => n = 0
  /\ IF n < Len(recs) /\ ~xfer.failed THEN Fail ELSE UNCHANGED failures
  /\ files' = [files EXCEPT ![f.disk][f.name] =
                 [is |-> @.is \/ n > 0, recs |-> @.recs \o SubSeq(recs, 1, n)]]

Errors(k) == [i \in 1 .. k |-> 550]

(* xfer.pos counts the records, written or not.                            *)
recvChunk ==
  /\ Here({"STOR", "APPE"})
  /\ Live /\ xfer.left # <<>>
  /\ \E len \in 1 .. Min({PACKETLEN, Len(xfer.left)}) :
       LET chunk == SubSeq(xfer.left, 1, len)
           s     == takeChunk(xfer.buf, chunk, xfer.format)
       IN \E n \in 0 .. Len(s.recs) :
            /\ writeRecords(s.recs, n)
            /\ Preliminary(Errors(Len(s.recs) - n))
            /\ xfer' = [xfer EXCEPT !.buf = s.fill, !.rcvd = @ \o chunk,
                          !.left = SubSeq(@, len + 1, Len(@)), !.pos = @ + Len(s.recs),
                          !.failed = (@ \/ n < Len(s.recs))]
  /\ copying /\ UNCHANGED <<f, pc, cmd>>

(* recv has failed: the client has closed the connection, or it is lost.   *)
(* trfSocket keeps the number of the socket that is closed here.           *)
endSTOR ==
  /\ Here({"STOR", "APPE"})
  /\ Live => xfer.left = <<>>
  /\ LET recs == CASE xfer.buf # <<>> -> <<recordOf(xfer.buf, xfer.format)>>
                   [] xfer.buf = <<>> /\ xfer.pos = 0 /\ xfer.cmd = "STOR" ->
                        <<recordOf(<<>>, xfer.format)>>
                   [] OTHER -> <<>>
     IN \E n \in 0 .. Len(recs) :
          /\ writeRecords(recs, n)
          /\ endTransfer(clients, Errors(Len(recs) - n))
  /\ f' = NULL
  /\ UNCHANGED trfSocket

(* The end of getDirIdx, if there is none.                                 *)
loopInPath ==
  /\ pc = "cmd" /\ me.loggedIn /\ cmd.arg.is \in {"dir", "file"}
  /\ \/ cmd.cmd \in {"CWD", "LIST", "NLST", "STAT"} /\ getDirIdx(me, cmd.arg) = Loops
     \/ /\ cmd.cmd \in {"RETR", "STOR", "APPE", "DELE", "RNFR", "RNTO"}
        /\ cmd.cmd = "RNTO" => me.renameDiskIdx # Root
        /\ parseFullPath(me, cmd.arg) = Loops
  /\ pc' = "looping"
  /\ simple /\ UNCHANGED <<sessions, cmd, sockets, files, clients, failures>>

(* The root lists the disks, a disk its files.                             *)
listing(d, name) ==
  CASE d = Root    -> [i \in 1 .. Cardinality(DiskIdx) |-> <<disks[i - 1].letter, "LF">>]
    [] d = Invalid -> <<>>
    [] OTHER       -> LET found == SetToSeq({nm \in Names : files[d][nm].is /\ name \in {"*", nm}})
                      IN [i \in DOMAIN found |-> <<found[i], "LF">>]

(* What is in the buffer, and what has been sent, after these units.       *)
transmitUnits(units, ok) ==
  LET r[i \in 0 .. Len(units)] ==
        IF i = 0 THEN [buf |-> <<>>, out |-> <<>>]
        ELSE LET t == transmitUnit(r[i - 1].buf, units[i], ok)
             IN [buf |-> t.buf, out |-> r[i - 1].out \o t.out]
  IN r[Len(units)]

endList ==
  /\ Here({"LIST", "NLST", "STAT"})
  /\ LET r == transmitUnits(listing(xfer.disk, xfer.name), Live)
     IN endTransfer(IF Live THEN Got(r.out \o r.buf) ELSE clients, <<>>)
  /\ trfSocket' = -1
  /\ UNCHANGED <<f, files, failures>>

-----------------------------------------------------------------------------
(* The main loop.                                                          *)

(* The server socket is made, bound (twice) and listens, or the server     *)
(* ends at once.                                                           *)
boot ==
  /\ pc = "boot"
  /\ LET n == NewNumber
     IN \/ /\ srvSocket' = n
           /\ sockets' = Open(n, "srv", 0)
           /\ initClientSocks(n)
           /\ pc' = "wait"
           /\ UNCHANGED <<sessions, f, trfSocket, xfer, cmd, files, failures>>
        \/ /\ Fail
           /\ sock_shutdown
  /\ UNCHANGED <<round, clients>>

(* What a control connection and the server socket show.                   *)
Ready(n) ==
  \/ n = srvSocket /\ \E c \in Clients : clients[c].state = "calling"
  \/ /\ \E i \in DOMAIN sessions : sessions[i].ctlSocket = n
     /\ LET c == sessions[SessionAt(n)].client
        IN clients[c].begun \/ clients[c].unread \/ clients[c].state = "gone"

waitForSocket ==
  /\ pc = "wait"
  /\ \E a \in SUBSET {n \in clientSocks : n < lastSockPlus1 /\ Ready(n)} :
       /\ a # {}
       /\ round' = [round EXCEPT !.active = a]
  /\ pc' = "accept"
  /\ UNCHANGED <<program, cmd, sockets, files, clients, failures>>

(* The operator enters TERMINATE, or selectX fails.                        *)
terminate ==
  /\ pc = "wait"
  /\ sock_shutdown
  /\ UNCHANGED <<round, clients, failures>>

(* The sessions that are looked at in this round.                          *)
Todo(list) == {list[i].ctlSocket : i \in DOMAIN list} \cap round.active

acceptClient ==
  /\ pc = "accept"
  /\ srvSocket \in round.active
  /\ \/ \E c \in Clients :
          /\ clients[c].state = "calling"
          /\ NewNumber >= 0
          /\ addClientSock(NewNumber, c)
          /\ sockets' = Open(NewNumber, "ctl", c)
          /\ clients' = [clients EXCEPT ![c].state = "on", ![c].replies = <<220>>]
          /\ round' = [round EXCEPT !.todo = Todo(sessions')]
          /\ pc' = "serve"
          /\ UNCHANGED <<srvSocket, f, trfSocket, xfer, cmd, files, failures>>
     \/ /\ IF NewNumber < 0 THEN UNCHANGED failures ELSE Fail
        /\ clientSockCount <= 0
        /\ sock_shutdown
        /\ UNCHANGED <<round, clients>>
     \/ /\ IF NewNumber < 0 THEN UNCHANGED failures ELSE Fail
        /\ clientSockCount > 0
        /\ srvSocket' = -1
        /\ clientSocks' = clientSocks \ {srvSocket}
        /\ sockets' = Close({srvSocket})
        /\ clients' = [c \in Clients |-> IF clients[c].state = "calling"
                                         THEN [clients[c] EXCEPT !.state = "gone"] ELSE clients[c]]
        /\ round' = [round EXCEPT !.todo = Todo(sessions)]
        /\ pc' = "serve"
        /\ UNCHANGED <<lastSockPlus1, clientSockCount, sessions, f, trfSocket, xfer, cmd, files>>

noAccept ==
  /\ pc = "accept"
  /\ srvSocket \notin round.active
  /\ round' = [round EXCEPT !.todo = Todo(sessions)]
  /\ pc' = "serve"
  /\ UNCHANGED <<program, cmd, sockets, files, clients, failures>>

(* They come in the order of the list, the newest first.                   *)
NextUp == sessions[Min({i \in DOMAIN sessions : sessions[i].ctlSocket \in round.todo})]

(* recv is called until the CR is there.  As long as only a part of a line *)
(* has come (begun) the server waits here, and serves nobody else.  What   *)
(* starts with a line end is a command without a name: an empty line, or   *)
(* one before which the LF of the last one has come late.                  *)
getCtlLine ==
  /\ pc = "serve" /\ round.todo # {}
  /\ LET c == NextUp.client
     IN /\ clients[c].unread
        /\ cmd' = [cmd |-> Current(c).cmd, arg |-> Current(c).arg, h |-> NextUp.ctlSocket]
        /\ clients' = [clients EXCEPT ![c].unread = FALSE]
  /\ round' = [round EXCEPT !.todo = @ \ {NextUp.ctlSocket}]
  /\ pc' = "cmd"
  /\ UNCHANGED <<program, sockets, files, failures>>

(* The control connection is lost: no command, the session is done.        *)
lostCtl ==
  /\ pc = "serve" /\ round.todo # {}
  /\ ~clients[NextUp.client].unread /\ clients[NextUp.client].state = "gone"
  /\ dropClientSock(NextUp.ctlSocket)
  /\ clients' = Unqueued(NextUp.client)
  /\ UNCHANGED <<srvSocket, lastSockPlus1, f, trfSocket, xfer, pc, cmd, files, failures>>

endRound ==
  /\ pc = "serve" /\ round.todo = {}
  /\ \/ /\ round.done
        /\ sock_shutdown
     \/ /\ ~round.done
        /\ pc' = "wait"
        /\ UNCHANGED <<program, cmd, sockets, files>>
  /\ round' = [round EXCEPT !.active = {}]
  /\ UNCHANGED <<clients, failures>>

-----------------------------------------------------------------------------
(* External: the clients.  A client sends a command when the server is     *)
(* done with the one before (so that replies in the midst of a transfer do *)
(* not mislead it), opens a data connection before or after the command it *)
(* is meant for, and may leave at any time.  A line may come in two parts, *)
(* and the second one never.                                               *)

serverSide == <<watch, sessions, f, trfSocket, pc, round, cmd, sockets, files, failures>>

call(c) ==
  /\ srvSocket # -1 /\ pc # "ended"
  /\ clients[c].state = "out"
  /\ clients' = [clients EXCEPT ![c].state = "calling"]
  /\ UNCHANGED <<serverSide, xfer>>

HasNext(c) == clients[c].state = "on" /\ Between(c) /\ clients[c].sent < Len(clients[c].script)

beginCommand(c) ==
  /\ pc # "ended"
  /\ HasNext(c) /\ ~clients[c].begun
  /\ clients' = [clients EXCEPT ![c].begun = TRUE]
  /\ UNCHANGED <<serverSide, xfer>>

sendCommand(c) ==
  /\ pc # "ended"
  /\ HasNext(c)
  /\ clients' = [clients EXCEPT ![c].sent = @ + 1, ![c].begun = FALSE, ![c].unread = TRUE,
                                ![c].replies = <<>>, ![c].got = <<>>]
  /\ UNCHANGED <<serverSide, xfer>>

dial(c) ==
  /\ clients[c].state = "on"
  /\ \E i \in DOMAIN sessions : sessions[i].client = c /\ sessions[i].psvSocket >= 0
  /\ LET k == IF Between(c) THEN clients[c].sent + 1 ELSE clients[c].sent
     IN /\ k > clients[c].dialed /\ k <= Len(clients[c].script)
        /\ clients[c].script[k].cmd \in Transfers
        /\ clients' = [clients EXCEPT ![c].dialed = k, ![c].queued = Append(@, k)]
  /\ UNCHANGED <<serverSide, xfer>>

leave(c) ==
  /\ clients[c].state = "on" /\ pc # "ended"
  /\ clients' = [clients EXCEPT ![c].state = "gone"]
  /\ xfer' = IF xfer # NoXfer /\ me.client = c /\ Live THEN [xfer EXCEPT !.conn = "lost"] ELSE xfer
  /\ UNCHANGED serverSide

loseData ==
  /\ pc = "copy" /\ xfer.cmd # "STAT" /\ Live
  /\ Fail
  /\ xfer' = [xfer EXCEPT !.conn = "lost"]
  /\ UNCHANGED <<watch, sessions, f, trfSocket, pc, round, cmd, sockets, files, clients>>

processSingleCmd ==
  \/ cmdUSER \/ cmdPASS \/ onlyReply \/ cmdQUIT \/ cmdPASV \/ cmdPORT
  \/ cmdCWD \/ cmdTYPE \/ cmdDELE \/ cmdRNFR \/ cmdRNTO
  \/ cmdRETR \/ cmdSTOR \/ cmdList \/ loopInPath
  \/ openDataConnection
  \/ readRecord \/ endRETR \/ recvChunk \/ endSTOR \/ endList

main ==
  \/ boot \/ waitForSocket \/ acceptClient \/ noAccept \/ getCtlLine \/ lostCtl \/ endRound
  \/ processSingleCmd

clientSteps == \E c \in Clients : call(c) \/ beginCommand(c) \/ sendCommand(c) \/ leave(c)

FtpNext == main \/ clientSteps \/ (\E c \in Clients : dial(c)) \/ readError \/ loseData \/ terminate

FtpSpec == FtpInit /\ [][FtpNext]_ftpVars

(* The server goes on as long as it can; a client that has a passive port  *)
(* and has asked for a transfer opens its data connection.                 *)
FtpFairSpec ==
  /\ FtpSpec
  /\ WF_ftpVars(main)
  /\ \A c \in Clients : WF_ftpVars(dial(c) /\ ~Between(c))

-----------------------------------------------------------------------------
(* What the server has to guarantee.                                       *)

Sock == Numbers \cup {-1}
Disk == DiskIdx \cup {Root}

(* Variables have their types; a file is open and a transfer known exactly *)
(* where the server works on one.                                          *)
FtpTypeOK ==
  /\ {srvSocket, trfSocket} \subseteq Sock
  /\ clientSocks \subseteq Numbers
  /\ lastSockPlus1 \in 0 .. FD_SETSIZE
  /\ clientSockCount \in 0 .. Cardinality(Clients)
  /\ \A i \in DOMAIN sessions :
       LET s == sessions[i]
       IN /\ s.client \in Clients /\ s.ctlSocket \in Numbers /\ s.psvSocket \in Sock
          /\ {s.loggedIn, s.havingActiveClientAddr, s.ftpTrfBinary} \subseteq BOOLEAN
          /\ s.notedUser \in STRING \cup {""} /\ (s.renameDiskIdx # Root => s.renameFrom \in Names)
          /\ {s.currDisk, s.renameDiskIdx} \subseteq Disk
  /\ pc \in {"boot", "wait", "accept", "serve", "cmd", "connect", "copy", "ended", "looping"}
  /\ (pc \in {"connect", "copy"}) = (xfer # NoXfer)
  /\ pc = "copy" /\ xfer.cmd = "RETR" => f.is = "read"
  /\ pc = "copy" /\ xfer.cmd \in {"STOR", "APPE"} => f.is = "write"
  /\ sockets \in [Numbers -> [use : {"none", "srv", "ctl", "psv", "data"}, client : Clients \cup {0}]]
  /\ failures \in 0 .. MaxFailures

(* Every open socket belongs to the server, to exactly one session or to   *)
(* the transfer under way, as what it was opened for; the sessions are     *)
(* those that are watched and counted; nothing stays open at the end.      *)
SocketsMatch ==
  LET used(i) == SocketsOf(sessions[i])
      mine    == IF srvSocket # -1 THEN {srvSocket} ELSE {}
      moving  == IF pc = "copy" /\ xfer.cmd # "STAT" THEN {xfer.sock} ELSE {}
      ctls    == {sessions[i].ctlSocket : i \in DOMAIN sessions}
  IN /\ pc = "ended" => \A n \in Numbers : sockets[n] = Closed
     /\ pc # "ended" =>
          /\ \A i, j \in DOMAIN sessions : i # j => used(i) \cap used(j) = {}
          /\ \A i \in DOMAIN sessions :
               LET s == sessions[i]
               IN /\ sockets[s.ctlSocket] = [use |-> "ctl", client |-> s.client]
                  /\ s.psvSocket >= 0 => sockets[s.psvSocket] = [use |-> "psv", client |-> s.client]
          /\ {n \in Numbers : sockets[n] # Closed}
               = mine \cup moving \cup UNION {used(i) : i \in DOMAIN sessions}
          /\ clientSocks = ctls \cup mine
          /\ clientSockCount = Len(sessions)
          /\ \A n \in clientSocks : n < lastSockPlus1

(* The commands of client c that have been worked on.                      *)
Said(c) == SubSeq(clients[c].script, 1, clients[c].handled)
LastOf(cmds, names) == Max({0} \cup {i \in DOMAIN cmds : cmds[i].cmd \in names})

(* After the last USER there was a PASS.  With a password required the     *)
(* last PASS had the right one, the last USER the right name, and there    *)
(* was no PASS between them.                                               *)
Authorised(cmds) ==
  LET p == LastOf(cmds, {"PASS"})
      u == LastOf(cmds, {"USER"})
  IN /\ u < p
     /\ reqPwd => /\ 0 < u /\ cmds[u].arg.word = "right" /\ cmds[p].arg.word = "right"
                  /\ \A i \in u + 1 .. p - 1 : cmds[i].cmd # "PASS"

(* The last RNFR that came from a client logged in: any other is refused   *)
(* without a look at what it names, and leaves an earlier one pending.     *)
LastHeard(cmds) ==
  Max({0} \cup {i \in DOMAIN cmds : cmds[i].cmd = "RNFR" /\ Authorised(SubSeq(cmds, 1, i - 1))})

(* The path of an upload leads to the root: whether it is allowed is read  *)
(* from disks[-1].readonly, which is anything.                             *)
UploadToRoot ==
  cmd.cmd \in {"STOR", "APPE"} /\ parseFullPath(me, cmd.arg) = Root

(* A file is changed only for a client that is logged in at that time, on  *)
(* a disk that is not read-only (but for an upload to the root), and only  *)
(* the file its command names: for a rename also the file named by its     *)
(* last RNFR.  An existing file is replaced by STOR only with -replace or  *)
(* the modifier.                                                           *)
ChangesAllowed ==
  [][\A d \in DiskIdx, nm \in Names :
       files'[d][nm] # files[d][nm] =>
         LET said == Said(me.client)
         IN /\ ~disks[d].readonly \/ UploadToRoot
            /\ Authorised(said)
            /\ \/ cmd.arg.name = nm
               \/ /\ cmd.cmd = "RNTO"
                  /\ LastHeard(said) > 0
                  /\ said[LastHeard(said)].arg.name = nm
            /\ cmd.cmd = "STOR" /\ pc = "cmd" /\ files[d][nm].is =>
                 autoOverwrite \/ cmd.arg.replace]_ftpVars

(* Bytes without those in drop, and sequences one behind the other.        *)
Sift(bytes, drop) ==
  LET kept[i \in 0 .. Len(bytes)] ==
        IF i = 0 THEN <<>>
        ELSE IF bytes[i] \in drop THEN kept[i - 1] ELSE Append(kept[i - 1], bytes[i])
  IN kept[Len(bytes)]

Joined(seqs) ==
  LET upto[i \in 0 .. Len(seqs)] == IF i = 0 THEN <<>> ELSE upto[i - 1] \o seqs[i]
  IN upto[Len(seqs)]

Texts(recs) == Joined([i \in DOMAIN recs |-> Sift(recs[i], {BLANK})])
TextOf(bytes, binary) == Sift(bytes, IF binary THEN {} ELSE {LF})

(* However the network cuts the data into packets, the records of an       *)
(* upload so far, with the one being filled, are what has been received,   *)
(* behind what was in the file; no record is longer than LRECL, or than a  *)
(* byte, which is what an LRECL of 0 means.                                *)
StoredInOrder ==
  pc = "copy" /\ xfer.cmd \in {"STOR", "APPE"} /\ ~xfer.failed =>
    LET recs == files[f.disk][f.name].recs
    IN /\ Texts(recs) \o xfer.buf
            = Texts(xfer.base) \o TextOf(xfer.rcvd, xfer.format.binary)
       /\ \A i \in Len(xfer.base) + 1 .. Len(recs) : Len(recs[i]) <= Max({1, xfer.format.lrecl})

(* A transfer over a connection that holds, without an error of the file,  *)
(* is complete when 226 is sent: the client has got the whole file or      *)
(* listing, or the file holds all that the client sent.                    *)
DoneIsComplete ==
  [][pc = "copy" /\ pc' = "serve" /\ Live /\ ~xfer.failed /\ failures' = failures =>
       LET recs(fs) == fs[xfer.disk][xfer.name].recs
           got      == clients'[me.client].got
       IN CASE xfer.cmd = "RETR" ->
                 got = Joined([i \in DOMAIN recs(files) |->
                                 unitOf(recs(files)[i], xfer.format.binary)])
            [] xfer.cmd \in {"STOR", "APPE"} ->
                 Texts(recs(files'))
                   = Texts(xfer.base) \o TextOf(cmd.arg.data, xfer.format.binary)
            [] OTHER -> got = Joined(listing(xfer.disk, xfer.name))]_ftpVars

(* The server gets no further: it interprets a path that has no end, reads *)
(* a file that can no longer be read, waits for the data connection of a   *)
(* client that has left, or for the rest of a command line.                *)
Stuck ==
  \/ pc = "looping"
  \/ pc = "copy" /\ xfer.stays
  \/ /\ pc = "connect" /\ me.psvSocket >= 0
     /\ clients[me.client].queued = <<>> /\ clients[me.client].state = "gone"
  \/ /\ pc = "serve" /\ round.todo # {}
     /\ clients[NextUp.client].state = "on" /\ ~clients[NextUp.client].unread

(* The last line of the client was without a command, and has ended its    *)
(* session.                                                                *)
HungUp(c) == Between(c) /\ clients[c].sent > 0 /\ Current(c).cmd = ""

(* Every command is answered, in whatever order sessions, commands and     *)
(* data connections come, lines come in parts, or the client leaves or the *)
(* server ends; unless the server is stuck for good.                       *)
CommandAnswered ==
  \A c \in Clients :
    (clients[c].state = "on" /\ ~Answered(c)) ~>
      (Answered(c) \/ HungUp(c) \/ clients[c].state = "gone" \/ pc = "ended" \/ []Stuck)

(* When all clients of the server have left, it ends.                      *)
ServerEnds ==
  (sessions # <<>> /\ \A c \in Clients : clients[c].state = "gone")
    ~> (pc = "ended" \/ []Stuck)
=============================================================================
