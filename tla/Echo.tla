-------------------------------- MODULE Echo --------------------------------
(***************************************************************************)
(* The echo server and its clients (prototypes/demo_tcpip), the programs   *)
(* the broker and its clients were made from, down to the bytes of the Rio *)
(* package: rio_writen with short writes, rio_read and rio_readlineb with  *)
(* short reads, lines cut at MAXLINE, end of file and errors.  The server  *)
(* serves one client at a time; both programs read a line only after they  *)
(* have written one.                                                       *)
(*                                                                         *)
(* A byte is a letter, "nl" for '\n'.  The commands "help" and "quit" are  *)
(* one byte each, as is the server's "NO HELP FOR YOU".  A client stands   *)
(* for its connection; its standard input is what it is given at the       *)
(* start.  Printing is left out, except for what the client prints.        *)
(*                                                                         *)
(* The kernel's part of the sockets (c2s, s2c, cend, send) is external.    *)
(***************************************************************************)
EXTENDS Integers, Sequences

CONSTANTS
  Clients,        \* echo clients
  Inputs,         \* what a client may find in its standard input
  MayDie,         \* clients the user may end
  Unresolvable,   \* clients whose address gethostbyaddr() may not find
  MAXLINE,        \* size of buf in both programs
  RIO_BUFSIZE,    \* size of the buffer of a rio_t
  NULL            \* no client

ASSUME InputsAssumption == Inputs \subseteq Seq(STRING)
ASSUME EchoClientsAssumption ==
  MayDie \subseteq Clients /\ Unresolvable \subseteq Clients /\ NULL \notin Clients
ASSUME SizesAssumption == MAXLINE \in Nat /\ MAXLINE >= 3 /\ RIO_BUFSIZE \in Nat \ {0}

Help == <<"help", "nl">>
Quit == <<"quit", "nl">>
NoHelp == <<"NO HELP FOR YOU", "nl">>

VARIABLES            \* the server
  spc,               \* "accept" | "read" | "write", or how it has ended:
                     \* "dead" (an error on a connection), "unnamed"
                     \* (dns_error) or "stopped" (by the user)
  connfd,            \* the client it serves
  srio, sbuf,        \* rio and buf of echo()
  sleft              \* the bytes rio_writen has still to write

VARIABLES            \* the clients
  cpc,
  stdin,             \* what fgets has not read yet
  crio, cbuf, cleft,
  cgot,              \* the bytes rio_readlineb has stored so far
  asked              \* history: the line the client has written last

VARIABLES            \* the kernel's side of the connections
  c2s, s2c,          \* bytes written and not yet read
  cend,              \* the client's end: "none" | "open" | "closed" | "reset"
  send               \* the server's end: "open" | "closed" | "reset"

server == <<spc, connfd, srio, sbuf, sleft>>
clients == <<cpc, stdin, crio, cbuf, cleft, cgot, asked>>
net == <<c2s, s2c, cend, send>>
vars == <<server, clients, net>>

Init ==
  /\ spc = "accept" /\ connfd = NULL
  /\ srio = <<>> /\ sbuf = <<>> /\ sleft = <<>>
  /\ cpc = [c \in Clients |-> "idle"]
  /\ stdin \in [Clients -> Inputs]
  /\ crio = [c \in Clients |-> <<>>]
  /\ cbuf = [c \in Clients |-> <<>>]
  /\ cleft = [c \in Clients |-> <<>>]
  /\ cgot = [c \in Clients |-> <<>>]
  /\ asked = [c \in Clients |-> <<>>]
  /\ c2s = [c \in Clients |-> <<>>]
  /\ s2c = [c \in Clients |-> <<>>]
  /\ cend = [c \in Clients |-> "none"]
  /\ send = [c \in Clients |-> "open"]

-----------------------------------------------------------------------------
(* The Rio package.                                                        *)

Ended == spc \in {"dead", "unnamed", "stopped"}

\* A write to an end that is closed is lost; the reset that answers it comes
\* at once or later.
AfterWrite(end) == IF end = "closed" THEN {"closed", "reset"} ELSE {end}

Behind(bytes, k) == SubSeq(bytes, k + 1, Len(bytes))

\* Mutant of NotWritten: bufp is not advanced.
WrittenAgain(bytes, k) == SubSeq(bytes, 1, Len(bytes) - k)

\* rio_writen: what is left when write() has taken k bytes.
NotWritten(bytes, k) == Behind(bytes, k)

\* read() fills the buffer of a rio_t with some of the bytes that wait.
Fills(bytes) == {k \in 1 .. RIO_BUFSIZE : k <= Len(bytes)}

\* Mutants of LineFull: one byte too few, or one too many.
FullEarly(n) == n = MAXLINE - 2
FullLate(n) == n = MAXLINE

\* rio_readlineb: the user's buffer has room for MAXLINE - 1 bytes and '\0'.
LineFull(n) == n = MAXLINE - 1

\* rio_readlineb stops behind this byte.
LineEnds(buf) == buf[Len(buf)] = "nl" \/ LineFull(Len(buf))

-----------------------------------------------------------------------------
(* echoclient.c.                                                           *)

ClientGoes(c, from, to) == cpc[c] = from /\ cpc' = [cpc EXCEPT ![c] = to]

\* The client ends, and the kernel closes its end: with a reset if it leaves
\* bytes unread.
ClientEnds(c, how) ==
  /\ cpc' = [cpc EXCEPT ![c] = how]
  /\ cend' = [cend EXCEPT ![c] = IF s2c[c] = <<>> /\ @ = "open" THEN "closed" ELSE "reset"]
  /\ UNCHANGED <<server, stdin, crio, cbuf, cleft, cgot, asked, c2s, s2c, send>>

\* Open_clientfd.  The connection waits in the queue of the listening socket
\* until the server accepts it.
Connect(c) ==
  /\ ~Ended
  /\ ClientGoes(c, "idle", "prompt")
  /\ cend' = [cend EXCEPT ![c] = "open"]
  /\ UNCHANGED <<server, stdin, crio, cbuf, cleft, cgot, asked, c2s, s2c, send>>

\* Refused: unix_error.
ConnectFails(c) ==
  /\ Ended
  /\ ClientGoes(c, "idle", "gone")
  /\ UNCHANGED <<server, stdin, crio, cbuf, cleft, cgot, asked, net>>

\* fgets: a line, cut when it fills the buffer, or what the input ends with;
\* nothing at the end of the input.
FirstLine(bytes) ==
  LET whole(k) == bytes[k] = "nl" \/ k \in {MAXLINE - 1, Len(bytes)}
  IN  IF bytes = <<>> THEN <<>>
      ELSE SubSeq(bytes, 1, CHOOSE k \in 1 .. Len(bytes) :
                              whole(k) /\ \A i \in 1 .. k - 1 : ~whole(i))

Fgets(c) ==
  /\ ClientGoes(c, "prompt", "write")
  /\ FirstLine(stdin[c]) \notin {<<>>, Quit}
  /\ cbuf' = [cbuf EXCEPT ![c] = FirstLine(stdin[c])]
  /\ stdin' = [stdin EXCEPT ![c] = Behind(@, Len(cbuf'[c]))]
  /\ cleft' = [cleft EXCEPT ![c] = cbuf'[c]]
  /\ asked' = [asked EXCEPT ![c] = cbuf'[c]]
  /\ UNCHANGED <<server, crio, cgot, net>>

\* End of the input, or "quit": Close(clientfd) and exit.
Leave(c) ==
  /\ cpc[c] = "prompt"
  /\ FirstLine(stdin[c]) \in {<<>>, Quit}
  /\ ClientEnds(c, "gone")

\* Rio_writen(clientfd, buf, strlen(buf)).
ClientWrite(c) ==
  /\ cpc[c] = "write"
  /\ send[c] # "reset"
  /\ \E k \in 1 .. Len(cleft[c]) :
       /\ cleft' = [cleft EXCEPT ![c] = NotWritten(@, k)]
       /\ c2s' = [c2s EXCEPT ![c] =
                    IF send[c] = "open" THEN @ \o SubSeq(cleft[c], 1, k) ELSE @]
  /\ cpc' = [cpc EXCEPT ![c] = IF cleft'[c] = <<>> THEN "read" ELSE "write"]
  /\ send' \in {[send EXCEPT ![c] = end] : end \in AfterWrite(send[c])}
  /\ UNCHANGED <<server, stdin, crio, cbuf, cgot, asked, s2c, cend>>

ClientFill(c) ==
  /\ cpc[c] = "read" /\ crio[c] = <<>>
  /\ \E k \in Fills(s2c[c]) :
       /\ crio' = [crio EXCEPT ![c] = SubSeq(s2c[c], 1, k)]
       /\ s2c' = [s2c EXCEPT ![c] = Behind(@, k)]
  /\ UNCHANGED <<server, cpc, stdin, cbuf, cleft, cgot, asked, c2s, cend, send>>

\* One round of the loop of rio_readlineb.
ClientTake(c) ==
  /\ crio[c] # <<>>
  /\ LET got == Append(cgot[c], Head(crio[c])) IN
       /\ ClientGoes(c, "read", IF LineEnds(got) THEN "print" ELSE "read")
       /\ cgot' = [cgot EXCEPT ![c] = IF LineEnds(got) THEN <<>> ELSE got]
       /\ cbuf' = [cbuf EXCEPT ![c] = IF LineEnds(got) THEN got ELSE @]
  /\ crio' = [crio EXCEPT ![c] = Tail(@)]
  /\ UNCHANGED <<server, stdin, cleft, asked, net>>

\* End of file: the bytes so far, or, if there are none, buf as it was; the
\* client does not look at the result.
ClientEOF(c) ==
  /\ crio[c] = <<>> /\ s2c[c] = <<>> /\ send[c] = "closed"
  /\ ClientGoes(c, "read", "print")
  /\ cbuf' = [cbuf EXCEPT ![c] = IF cgot[c] = <<>> THEN @ ELSE cgot[c]]
  /\ cgot' = [cgot EXCEPT ![c] = <<>>]
  /\ UNCHANGED <<server, stdin, crio, cleft, asked, net>>

\* SIGPIPE in write(), or unix_error after ECONNRESET in read().
ClientBroken(c) ==
  /\ send[c] = "reset"
  /\ cpc[c] = "write" \/ (cpc[c] = "read" /\ crio[c] = <<>>)
  /\ ClientEnds(c, "gone")

\* Fputs(buf, stdout), and round again.
Fputs(c) ==
  /\ ClientGoes(c, "print", "prompt")
  /\ cbuf' = [cbuf EXCEPT ![c] = <<>>]
  /\ asked' = [asked EXCEPT ![c] = <<>>]
  /\ UNCHANGED <<server, stdin, crio, cleft, cgot, net>>

\* The user ends the client.
Kill(c) ==
  /\ c \in MayDie
  /\ cpc[c] \notin {"idle", "gone", "killed"}
  /\ ClientEnds(c, "killed")

-----------------------------------------------------------------------------
(* echoserveri.c.                                                          *)

\* exit(), or SIGPIPE, while the server serves c: the kernel closes the
\* connections, with a reset where bytes are unread and where nobody has
\* accepted the connection yet.
ServerEnds(c, how) ==
  /\ spc' = how
  /\ connfd' = NULL /\ srio' = <<>> /\ sbuf' = <<>> /\ sleft' = <<>>
  /\ send' = [d \in Clients |->
                CASE cend[d] = "none" -> "open"
                  [] d = c /\ c2s[d] = <<>> -> "closed"
                  [] OTHER -> "reset"]
  /\ UNCHANGED <<clients, c2s, s2c, cend>>

\* Accept, Gethostbyaddr and Rio_readinitb; a waiting client is in the queue.
Waiting(c) == cend[c] # "none" /\ send[c] = "open" /\ connfd # c

Accept(c) ==
  /\ spc = "accept"
  /\ Waiting(c)
  /\ spc' = "read"
  /\ connfd' = c
  /\ srio' = <<>> /\ sbuf' = <<>>
  /\ UNCHANGED <<sleft, clients, net>>

\* dns_error: the branch for a missing host name (line 33) is never reached.
AcceptFails(c) ==
  /\ spc = "accept"
  /\ Waiting(c)
  /\ c \in Unresolvable
  /\ ServerEnds(c, "unnamed")

ServerFill ==
  /\ spc = "read" /\ srio = <<>>
  /\ \E k \in Fills(c2s[connfd]) :
       /\ srio' = SubSeq(c2s[connfd], 1, k)
       /\ c2s' = [c2s EXCEPT ![connfd] = Behind(@, k)]
  /\ UNCHANGED <<spc, connfd, sbuf, sleft, clients, s2c, cend, send>>

\* What echo() writes for a line.
Answer(line) == IF line = Help THEN NoHelp ELSE line

Echoes(line) == spc' = "write" /\ sbuf' = <<>> /\ sleft' = Answer(line)

ServerTake ==
  /\ spc = "read" /\ srio # <<>>
  /\ LET got == Append(sbuf, Head(srio)) IN
       IF LineEnds(got) THEN Echoes(got)
       ELSE sbuf' = got /\ UNCHANGED <<spc, sleft>>
  /\ srio' = Tail(srio)
  /\ UNCHANGED <<connfd, clients, net>>

AtEOF == spc = "read" /\ srio = <<>> /\ c2s[connfd] = <<>> /\ cend[connfd] = "closed"

\* End of file behind a piece of a line, which is echoed.
ServerPartial ==
  /\ AtEOF
  /\ sbuf # <<>>
  /\ Echoes(sbuf)
  /\ UNCHANGED <<connfd, srio, clients, net>>

\* Mutant of ServerEOF: the loop goes on at the end of file.
ServerIgnoresEOF ==
  /\ AtEOF
  /\ sbuf = <<>>
  /\ UNCHANGED vars

\* rio_readlineb returns 0: Close(connfd), and on to the next client.
ServerEOF ==
  /\ AtEOF
  /\ sbuf = <<>>
  /\ spc' = "accept"
  /\ connfd' = NULL
  /\ send' = [send EXCEPT ![connfd] = "closed"]
  /\ UNCHANGED <<srio, sbuf, sleft, clients, c2s, s2c, cend>>

\* Rio_writen(connfd, ..).
ServerWrite ==
  /\ spc = "write"
  /\ cend[connfd] # "reset"
  /\ \E k \in 1 .. Len(sleft) :
       /\ sleft' = NotWritten(sleft, k)
       /\ s2c' = [s2c EXCEPT ![connfd] =
                    IF cend[connfd] = "open" THEN @ \o SubSeq(sleft, 1, k) ELSE @]
  /\ spc' = IF sleft' = <<>> THEN "read" ELSE "write"
  /\ cend' \in {[cend EXCEPT ![connfd] = end] : end \in AfterWrite(cend[connfd])}
  /\ UNCHANGED <<connfd, srio, sbuf, clients, c2s, send>>

\* SIGPIPE in write(), or unix_error after ECONNRESET in read().
ServerBroken ==
  /\ spc = "write" \/ (spc = "read" /\ srio = <<>>)
  /\ cend[connfd] = "reset"
  /\ ServerEnds(connfd, "dead")

\* The user ends the server.
Stop == ~Ended /\ ServerEnds(connfd, "stopped")

-----------------------------------------------------------------------------
Client(c) ==
  \/ Fgets(c) \/ Leave(c) \/ ClientWrite(c) \/ ClientFill(c) \/ ClientTake(c)
  \/ ClientEOF(c) \/ ClientBroken(c) \/ Fputs(c)

Server ==
  \/ \E c \in Clients : Accept(c) \/ AcceptFails(c)
  \/ ServerFill \/ ServerTake \/ ServerPartial \/ ServerEOF
  \/ ServerWrite \/ ServerBroken

Next ==
  \/ Server \/ Stop
  \/ \E c \in Clients : Connect(c) \/ ConnectFails(c) \/ Client(c) \/ Kill(c)

Spec == Init /\ [][Next]_vars

\* The processes are scheduled and the standard input of a client is a file;
\* nothing makes the user start or end a client.
FairSpec == Spec /\ WF_vars(Server) /\ \A c \in Clients : WF_vars(Client(c))

-----------------------------------------------------------------------------
(* Properties.                                                             *)

\* Through short writes, short reads and lines cut at MAXLINE, what a client
\* prints is the answer to the line it has just sent, and nothing of it is
\* left behind for the next round, as long as the server runs.
FaithfulEcho ==
  \A c \in Clients : cpc[c] = "print" /\ send[c] = "open" =>
    /\ cbuf[c] = Answer(asked[c])
    /\ crio[c] = <<>> /\ c2s[c] = <<>> /\ s2c[c] = <<>>

\* Client and server both wait for the other in read().
BothWait(c) ==
  /\ cpc[c] = "read" /\ crio[c] = <<>> /\ s2c[c] = <<>> /\ send[c] = "open"
  /\ connfd = c /\ spc = "read" /\ srio = <<>> /\ c2s[c] = <<>>
  /\ cend[c] = "open"

\* The line neither ends nor fills the buffer: the input ended in it.
Unfinished(line) ==
  line # <<>> /\ line[Len(line)] # "nl" /\ Len(line) < MAXLINE - 1

\* A client that is being served and the server wait for each other for ever
\* only behind an input that does not end in a line break.
WaitsForRest == \A c \in Clients : BothWait(c) => Unfinished(asked[c])

\* A client that leaves by itself never hurts the server, it leaves nothing
\* unread: the server dies of a connection (unix_error, SIGPIPE) only when the
\* user has ended a client.
OnlyKillsHurt == spc = "dead" => \E c \in Clients : cpc[c] = "killed"

\* One client at a time, but everybody's turn comes: a client that has
\* connected comes to its end, unless one is stuck behind an unfinished line.
EveryoneServed ==
  \A c \in Clients :
    cpc[c] = "prompt" ~> \/ cpc[c] \in {"gone", "killed"}
                         \/ \E d \in Clients : Unfinished(asked[d])

=============================================================================
