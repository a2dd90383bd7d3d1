---------------------------- MODULE MCFtpServer -----------------------------
(* Small instances of FtpServer for TLC.                                   *)
EXTENDS FtpServer

Arg  == [is |-> "none", abs |-> FALSE, parts |-> <<>>, good |-> TRUE, name |-> "",
         mod |-> <<>>, replace |-> FALSE, word |-> "", data |-> <<>>]
Word(w)   == [Arg EXCEPT !.is = "word", !.word = w]
Dir(p)    == [Arg EXCEPT !.is = "dir", !.parts = p]
File(n)   == [Arg EXCEPT !.is = "file", !.name = n]
On(p, n)  == [File(n) EXCEPT !.abs = TRUE, !.parts = p]
New(n, d) == [File(n) EXCEPT !.data = d]
Over(a)   == [a EXCEPT !.replace = TRUE]
Up(n, d)  == [Over(New(n, d)) EXCEPT !.parts = <<"..">>]

Cmd(c, a) == [cmd |-> c, arg |-> a]
Login     == <<Cmd("USER", Word("right")), Cmd("PASS", Word("right"))>>
Noop      == <<Cmd("NOOP", Arg)>>

MCDisks == [d \in 0 .. 1 |-> [letter |-> IF d = 0 THEN "A" ELSE "B", readonly |-> d = 1]]
MCNames == {"x", "y"}
MCOverrides == [nm \in {"y"} |-> [binary |-> TRUE, recfm |-> "F", lrecl |-> 2]]
MCStored == [d \in 0 .. 1 |-> [nm \in MCNames |->
               IF nm = "x" THEN [is |-> TRUE, recs |-> <<<<1>>, <<2, 3>>>>] ELSE Absent]]

MCClients == {1, 2}
Two(a, b) == [c \in MCClients |-> IF c = 1 THEN a ELSE b]

(* Downloads, one after a refused one; uploads of new, existing and more   *)
(* records; listings; deletions and renames, on a read-only disk too;      *)
(* logins in the wrong order; what needs no login; paths, and an upload to *)
(* the root; a line without a command.                                     *)
MCScripts ==
  {Two(Login \o <<Cmd("PASV", Arg), Cmd("RETR", File("y")), Cmd("PASV", Arg), Cmd("RETR", File("x"))>>,
       Noop),
   Two(Login \o <<Cmd("PORT", Word("address")), Cmd("APPE", New("x", <<4, 5, LF>>))>>,
       <<Cmd("PASV", Arg), Cmd("RETR", File("x"))>>),
   Two(Login \o <<Cmd("PASV", Arg), Cmd("STOR", Over(New("x", <<4, LF, 5, 6>>))),
                  Cmd("PORT", Word("address")), Cmd("STOR", New("y", <<4, 5, 6>>)),
                  Cmd("RETR", File("y"))>>,
       <<>>),
   Two(Login \o <<Cmd("LIST", Arg), Cmd("PASV", Arg), Cmd("LIST", Arg), Cmd("CWD", Dir(<<"A">>)),
                  Cmd("NLST", File("x"))>>,
       <<Cmd("PASV", Arg)>>),
   Two(Login \o <<Cmd("RNFR", File("x")), Cmd("RNTO", On(<<"B">>, "y")), Cmd("RNTO", File("y")),
                  Cmd("RNFR", On(<<"A">>, "x")), Cmd("RNTO", [File("y") EXCEPT !.good = FALSE]),
                  Cmd("RNTO", File("y")), Cmd("TYPE", Word("X")), Cmd("MKD", Arg), Cmd("ABOR", Arg),
                  Cmd("CDUP", Arg), Cmd("LIST", Dir(<<"Q">>)), Cmd("CWD", Dir(<<"A", "B">>))>>,
       <<>>),
   Two(Login \o <<Cmd("RNFR", File("x")), Cmd("RNTO", File("y")), Cmd("DELE", File("y"))>>,
       Login \o <<Cmd("RNFR", On(<<"B">>, "x")), Cmd("RNTO", On(<<"B">>, "y"))>>),
   Two(<<Cmd("USER", Word("right")), Cmd("PASS", Word("wrong")), Cmd("PASS", Word("right")),
         Cmd("DELE", File("x"))>>,
       <<Cmd("USER", Word("wrong")), Cmd("PASS", Word("right"))>> \o Login \o
         <<Cmd("USER", Word("right")), Cmd("STOR", Over(New("x", <<1>>)))>>),
   Two(Login \o <<Cmd("RNFR", File("x")), Cmd("USER", Word("right")), Cmd("RNFR", File("y")),
                  Cmd("PASS", Word("right")), Cmd("RNTO", File("y")), Cmd("PORT", Word("address")),
                  Cmd("APPE", [New("x", <<4, LF, 5>>) EXCEPT !.mod = <<"V", 0>>])>>,
       <<>>),
   Two(Login \o <<Cmd("STAT", Arg), Cmd("STOR", New("x", <<1>>)), Cmd("CWD", Dir(<<".", ".x">>))>>,
       <<Cmd("PORT", Word("")), Cmd("PASV", Arg), Cmd("QUIT", Arg)>>),
   Two(Login \o <<Cmd("PORT", Word("address")), Cmd("TYPE", Word("I")), Cmd("STOR", Up("x", <<4>>)),
                  Cmd("LIST", [File("x") EXCEPT !.parts = <<"..">>]), Cmd("", Arg)>>,
       <<>>)}
=============================================================================
