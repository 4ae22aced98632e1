----------------------------- MODULE EchoProofs -----------------------------
(***************************************************************************)
(* The conversation of an echo client with the server: while the server    *)
(* runs, every byte of a line and of its answer has one place, whatever    *)
(* the sizes of lines, reads and writes, for any clients and any inputs.   *)
(***************************************************************************)
EXTENDS Echo, SequenceTheorems, WellFoundedInduction, TLAPS

\* What goes over the connections.
Byte == STRING \cup {"help", "nl", "quit", "NO HELP FOR YOU"}

EchoTypes ==
  /\ spc \in {"accept", "read", "write", "dead", "unnamed", "stopped"}
  /\ connfd \in Clients \cup {NULL}
  /\ srio \in Seq(Byte) /\ sbuf \in Seq(Byte) /\ sleft \in Seq(Byte)
  /\ cpc \in [Clients -> {"idle", "prompt", "write", "read", "print", "gone", "killed"}]
  /\ stdin \in [Clients -> Seq(STRING)]
  /\ crio \in [Clients -> Seq(Byte)] /\ cbuf \in [Clients -> Seq(Byte)]
  /\ cleft \in [Clients -> Seq(Byte)] /\ cgot \in [Clients -> Seq(Byte)]
  /\ asked \in [Clients -> Seq(Byte)]
  /\ c2s \in [Clients -> Seq(Byte)] /\ s2c \in [Clients -> Seq(Byte)]
  /\ cend \in [Clients -> {"none", "open", "closed", "reset"}]
  /\ send \in [Clients -> {"open", "closed", "reset"}]

\* The server serves a client, and has written what it has to or writes.
ServerInv ==
  /\ connfd # NULL <=> spc \in {"read", "write"}
  /\ connfd # NULL => send[connfd] = "open"
  /\ spc = "write" <=> sleft # <<>>
  /\ spc = "write" => sbuf = <<>>
  /\ spc = "read" => sbuf = <<>> \/ ~LineEnds(sbuf)

\* Of a server that has ended nothing is open, except towards clients that
\* have never reached it.
EndInv ==
  /\ \A c \in Clients : cpc[c] \notin {"idle", "gone"} => cend[c] # "none"
  /\ Ended => \A c \in Clients : send[c] = "open" => cend[c] = "none"
  /\ OnlyKillsHurt

-----------------------------------------------------------------------------
(* A conversation.                                                         *)

\* A line as fgets and rio_readlineb cut it: '\n' is its last byte at most.
IsLine(line) ==
  /\ line \in Seq(Byte)
  /\ Len(line) \in 1 .. MAXLINE - 1
  /\ \A i \in 1 .. Len(line) - 1 : line[i] # "nl"

\* The bytes of c in the server that it has not answered yet.
Held(c) == IF connfd = c THEN sbuf \o srio ELSE <<>>

Listens(c) == connfd = c => spc = "read"

Silent(c) == s2c[c] = <<>> /\ crio[c] = <<>> /\ cgot[c] = <<>>

\* No byte of c is anywhere.
Nothing(c) ==
  /\ Silent(c) /\ Listens(c)
  /\ cleft[c] = <<>> /\ c2s[c] = <<>>
  /\ connfd = c => srio = <<>> /\ sbuf = <<>>

\* The line is on its way to the server.
Asking(c) ==
  /\ Silent(c) /\ Listens(c)
  /\ Held(c) \o (c2s[c] \o cleft[c]) = asked[c]

\* What the client has not taken of the answer.
Coming(c) == crio[c] \o (s2c[c] \o sleft)

\* The answer is on its way back, and not all there yet.
Answering(c) ==
  /\ connfd = c
  /\ c2s[c] = <<>> /\ srio = <<>> /\ sbuf = <<>>
  /\ LineEnds(asked[c])
  /\ Coming(c) # <<>>
  /\ cgot[c] \o Coming(c) = Answer(asked[c])

Talks(c) == cpc[c] \in {"prompt", "write", "read", "print"}

TalkOf(c) ==
  /\ cpc[c] \in {"idle", "prompt", "print", "gone"} => Nothing(c)
  /\ cpc[c] = "idle" => cend[c] = "none" /\ send[c] = "open" /\ connfd # c
  /\ Talks(c) => cend[c] = "open" /\ send[c] = "open"
  /\ cpc[c] = "gone" => cend[c] = "closed"
  /\ cpc[c] \in {"write", "read"} => IsLine(asked[c])
  /\ cpc[c] = "write" => cleft[c] # <<>> /\ Asking(c)
  /\ cpc[c] = "read" => cleft[c] = <<>> /\ (Asking(c) \/ Answering(c))
  /\ cpc[c] = "print" => cbuf[c] = Answer(asked[c])

TalkInv == ~Ended => \A c \in Clients : TalkOf(c)

Inv == EchoTypes /\ ServerInv /\ EndInv /\ TalkInv

-----------------------------------------------------------------------------
(* Bytes.                                                                  *)

\* What write() has taken and what it has not make up the whole; read() likewise.
LEMMA Pieces ==
  ASSUME NEW s \in Seq(Byte), NEW k \in 1 .. Len(s)
  PROVE  /\ SubSeq(s, 1, k) \in Seq(Byte) /\ SubSeq(s, 1, k) # <<>>
         /\ Behind(s, k) \in Seq(Byte)
         /\ SubSeq(s, 1, k) \o Behind(s, k) = s
<1>1. SubSeq(s, 1, k) \in Seq(Byte) /\ Len(SubSeq(s, 1, k)) = k
  BY SubSeqProperties
<1>2. SubSeq(s, k + 1, Len(s)) \in Seq(Byte)
  BY SubSeqProperties
<1>3. SubSeq(s, 1, k) \o SubSeq(s, k + 1, Len(s)) = s
  <2>1. 1 \in 1 .. Len(s) + 1 /\ k \in 1 - 1 .. Len(s) /\ Len(s) \in k .. Len(s)
    OBVIOUS
  <2>2. SubSeq(s, 1, k) \o SubSeq(s, k + 1, Len(s)) = SubSeq(s, 1, Len(s))
    BY <2>1, ConcatAdjacentSubSeq
  <2> QED BY <2>2, SubSeqFull
<1> QED BY <1>1, <1>2, <1>3 DEF Behind

\* What a rio_t takes are pieces.
LEMMA FillPieces ==
  ASSUME NEW s \in Seq(Byte), NEW k \in Fills(s)
  PROVE  /\ SubSeq(s, 1, k) \in Seq(Byte) /\ SubSeq(s, 1, k) # <<>>
         /\ Behind(s, k) \in Seq(Byte) /\ s # <<>>
         /\ SubSeq(s, 1, k) \o Behind(s, k) = s
<1>1. k \in 1 .. Len(s) /\ s # <<>>
  BY SizesAssumption, LenProperties, EmptySeq DEF Fills
<1> QED BY <1>1, Pieces

\* A byte that moves from the front of one sequence to the end of another.
LEMMA MovedByte ==
  ASSUME NEW s \in Seq(Byte), NEW r \in Seq(Byte), r # <<>>
  PROVE  /\ Append(s, Head(r)) \in Seq(Byte) /\ Append(s, Head(r)) # <<>>
         /\ Tail(r) \in Seq(Byte)
         /\ Append(s, Head(r)) \o Tail(r) = s \o r
<1>1. Head(r) \in Byte /\ Tail(r) \in Seq(Byte) /\ r = <<Head(r)>> \o Tail(r)
  BY HeadTailProperties, SMT
<1>2. Append(s, Head(r)) = s \o <<Head(r)>>
  BY <1>1, AppendIsConcat
<1>3. (s \o <<Head(r)>>) \o Tail(r) = s \o (<<Head(r)>> \o Tail(r))
  <2>1. <<Head(r)>> \in Seq(Byte)
    BY <1>1
  <2> QED BY <1>1, <2>1, ConcatAssociative
<1>4. Append(s, Head(r)) \in Seq(Byte) /\ Append(s, Head(r)) # <<>>
  BY <1>1
<1> QED BY <1>1, <1>2, <1>3, <1>4

\* rio_readlineb has a line when it has all of it, not before.
LEMMA LineReached ==
  ASSUME NEW got \in Seq(Byte), NEW rest \in Seq(Byte), got # <<>>, IsLine(got \o rest)
  PROVE  /\ rest # <<>> => ~LineEnds(got)
         /\ LineEnds(got) => rest = <<>> /\ got \o rest = got
<1>1. Len(got) \in Nat \ {0} /\ Len(rest) \in Nat /\ Len(got \o rest) = Len(got) + Len(rest)
  BY ConcatProperties, EmptySeq
<1>2. ASSUME rest # <<>> PROVE ~LineEnds(got)
  <2>1. Len(rest) > 0
    BY <1>1, <1>2, EmptySeq
  <2>2. Len(got) \in 1 .. Len(got \o rest) - 1 /\ Len(got) < MAXLINE - 1
    BY <1>1, <2>1, SizesAssumption DEF IsLine
  <2>3. (got \o rest)[Len(got)] = got[Len(got)]
    BY <1>1, ConcatProperties
  <2> QED BY <2>2, <2>3, SizesAssumption DEF IsLine, LineEnds, LineFull
<1>3. rest = <<>> => got \o rest = got
  BY ConcatEmptySeq
<1> QED BY <1>2, <1>3

\* The answer to "help" is made of bytes.
LEMMA NoHelpBytes == NoHelp \in Seq(Byte)
<1>1. "NO HELP FOR YOU" \in Byte /\ "nl" \in Byte
  BY DEF Byte
<1>2. \A a, b \in Byte : <<a, b>> \in Seq(Byte)
  OBVIOUS
<1> QED BY <1>1, <1>2 DEF NoHelp

\* There is always something to write.
LEMMA AnswerBytes ==
  ASSUME NEW line \in Seq(Byte), line # <<>>
  PROVE  Answer(line) \in Seq(Byte) /\ Answer(line) # <<>>
<1>1. NoHelp # <<>>
  BY DEF NoHelp
<1> QED BY <1>1, NoHelpBytes DEF Answer

\* What echo() writes is a line, and a whole one for a whole one.
LEMMA AnswerLine ==
  ASSUME NEW line, IsLine(line)
  PROVE  /\ IsLine(Answer(line)) /\ Answer(line) # <<>>
         /\ LineEnds(line) => LineEnds(Answer(line))
<1>1. CASE line = Help
  <2>1. NoHelp \in Seq(Byte)
    BY NoHelpBytes
  <2>2. Len(NoHelp) = 2 /\ NoHelp[2] = "nl" /\ NoHelp # <<>>
    BY DEF NoHelp
  <2>3. NoHelp[1] # "nl"
    BY DEF NoHelp
  <2>4. IsLine(NoHelp)
    BY <2>1, <2>2, <2>3, SizesAssumption DEF IsLine
  <2>5. Answer(line) = NoHelp
    BY <1>1 DEF Answer
  <2> QED BY <2>2, <2>4, <2>5 DEF LineEnds
<1>2. CASE line # Help
  <2>1. line # <<>>
    BY DEF IsLine
  <2> QED BY <1>2, <2>1 DEF Answer
<1> QED BY <1>1, <1>2

\* fgets gives a line of what it finds.
LEMMA FirstLineIsLine ==
  ASSUME NEW bytes \in Seq(STRING), FirstLine(bytes) # <<>>
  PROVE  /\ IsLine(FirstLine(bytes))
         /\ Behind(bytes, Len(FirstLine(bytes))) \in Seq(STRING)
<1> DEFINE whole(k) == bytes[k] = "nl" \/ k \in {MAXLINE - 1, Len(bytes)}
           T == {k \in 1 .. Len(bytes) : whole(k)}
           first(k) == whole(k) /\ \A i \in 1 .. k - 1 : ~whole(i)
           m == CHOOSE k \in 1 .. Len(bytes) : first(k)
<1>1. bytes # <<>> /\ FirstLine(bytes) = SubSeq(bytes, 1, m)
  BY DEF FirstLine
<1>2. Len(bytes) \in Nat \ {0}
  BY <1>1, EmptySeq
<1>3. \E k \in 1 .. Len(bytes) : first(k)
  <2>1. T \subseteq Nat /\ T # {}
    <3>1. Len(bytes) \in T
      BY <1>2
    <3> QED BY <3>1, <1>2
  <2>2. \E x \in T : \A y \in T : ~(<<y, x>> \in OpToRel(<, Nat))
    <3> HIDE DEF T
    <3> DEFINE R == OpToRel(<, Nat)
    <3>1. IsWellFoundedOn(R, Nat)
      BY NatLessThanWellFounded
    <3> HIDE DEF R
    <3>2. \E x \in T : \A y \in T : ~(<<y, x>> \in R)
      BY <2>1, <3>1, WFMin
    <3> QED BY <3>2 DEF R
  <2>3. PICK x \in T : \A y \in T : ~(<<y, x>> \in OpToRel(<, Nat))
    BY <2>2
  <2>4. \A y \in T : ~(y < x)
    BY <2>1, <2>3 DEF OpToRel
  <2>5. \A i \in 1 .. x - 1 : ~whole(i)
    <3> SUFFICES ASSUME NEW i \in 1 .. x - 1, whole(i) PROVE FALSE
      OBVIOUS
    <3>1. i \in T /\ i < x
      BY <1>2
    <3> QED BY <3>1, <2>4
  <2> QED BY <2>3, <2>5
<1>4. m \in 1 .. Len(bytes) /\ first(m)
  BY <1>3
<1> HIDE DEF m
<1>5. m <= MAXLINE - 1
  <2> SUFFICES ASSUME m > MAXLINE - 1 PROVE FALSE
    BY <1>4, SizesAssumption
  <2>1. MAXLINE - 1 \in 1 .. m - 1
    BY <1>4, SizesAssumption
  <2> QED BY <2>1, <1>4
<1>6. /\ SubSeq(bytes, 1, m) \in Seq(Byte) /\ Len(SubSeq(bytes, 1, m)) = m
      /\ \A i \in 1 .. m : SubSeq(bytes, 1, m)[i] = bytes[i]
  <2>1. \A i \in 1 .. m : bytes[i] \in STRING
    BY <1>2, <1>4
  <2>2. STRING \subseteq Byte
    BY DEF Byte
  <2>3. \A i \in 1 .. m : bytes[i] \in Byte
    BY <2>1, <2>2
  <2> QED BY <2>3, <1>4, SubSeqProperties
<1>7. IsLine(SubSeq(bytes, 1, m))
  <2>1. \A i \in 1 .. m - 1 : SubSeq(bytes, 1, m)[i] # "nl"
    BY <1>4, <1>6
  <2> QED BY <1>4, <1>5, <1>6, <2>1, SizesAssumption DEF IsLine
<1>8. SubSeq(bytes, m + 1, Len(bytes)) \in Seq(STRING)
  <2>1. \A i \in m + 1 .. Len(bytes) : bytes[i] \in STRING
    BY <1>2, <1>4
  <2> QED BY <2>1, <1>2, <1>4, SubSeqProperties
<1> QED BY <1>1, <1>6, <1>7, <1>8 DEF Behind

-----------------------------------------------------------------------------
(* Types and the server.                                                   *)

\* The steps of the clients keep the types.
LEMMA ClientTypes ==
  ASSUME EchoTypes, NEW c \in Clients,
         Connect(c) \/ ConnectFails(c) \/ Client(c) \/ Kill(c)
  PROVE  EchoTypes'
<1> USE DEF server, clients, net, ClientGoes
<1>0. <<>> \in Seq(Byte)
  BY EmptySeq
<1>1. CASE Connect(c) \/ ConnectFails(c)
  BY <1>1 DEF Connect, ConnectFails, EchoTypes
<1>2. CASE Fgets(c)
  <2> DEFINE line == FirstLine(stdin[c])
  <2>1. line \in Seq(Byte) /\ Behind(stdin[c], Len(line)) \in Seq(STRING)
    BY <1>2, FirstLineIsLine DEF Fgets, EchoTypes, IsLine
  <2>2. /\ cbuf' = [cbuf EXCEPT ![c] = line] /\ cleft' = [cleft EXCEPT ![c] = line]
        /\ asked' = [asked EXCEPT ![c] = line]
        /\ stdin' = [stdin EXCEPT ![c] = Behind(@, Len(line))]
        /\ cpc' = [cpc EXCEPT ![c] = "write"]
        /\ UNCHANGED <<server, crio, cgot, net>>
    BY <1>2 DEF Fgets, EchoTypes
  <2> HIDE DEF line
  <2> QED BY <2>1, <2>2 DEF EchoTypes
<1>3. ASSUME NEW how \in {"gone", "killed"}, ClientEnds(c, how) PROVE EchoTypes'
  BY <1>3 DEF ClientEnds, EchoTypes
<1>4. CASE Leave(c) \/ ClientBroken(c) \/ Kill(c)
  BY <1>3, <1>4 DEF Leave, ClientBroken, Kill
<1>5. CASE ClientWrite(c)
  <2>1. PICK k \in 1 .. Len(cleft[c]) :
          /\ cleft' = [cleft EXCEPT ![c] = Behind(@, k)]
          /\ c2s' = [c2s EXCEPT ![c] =
                       IF send[c] = "open" THEN @ \o SubSeq(cleft[c], 1, k) ELSE @]
    BY <1>5 DEF ClientWrite, NotWritten
  <2>2. SubSeq(cleft[c], 1, k) \in Seq(Byte) /\ Behind(cleft[c], k) \in Seq(Byte)
    BY Pieces DEF EchoTypes
  <2>3. c2s[c] \o SubSeq(cleft[c], 1, k) \in Seq(Byte)
    BY <2>2, ConcatProperties DEF EchoTypes
  <2>4. cleft' \in [Clients -> Seq(Byte)] /\ c2s' \in [Clients -> Seq(Byte)]
    BY <2>1, <2>2, <2>3 DEF EchoTypes
  <2>5. PICK end \in AfterWrite(send[c]) : send' = [send EXCEPT ![c] = end]
    BY <1>5 DEF ClientWrite
  <2>6. send' \in [Clients -> {"open", "closed", "reset"}]
    BY <2>5 DEF EchoTypes, AfterWrite
  <2>7. cpc' \in [Clients -> {"idle", "prompt", "write", "read", "print", "gone", "killed"}]
    BY <1>5 DEF ClientWrite, EchoTypes
  <2> QED BY <1>5, <2>4, <2>6, <2>7 DEF ClientWrite, EchoTypes
<1>6. CASE ClientFill(c)
  <2>1. PICK k \in Fills(s2c[c]) :
          /\ crio' = [crio EXCEPT ![c] = SubSeq(s2c[c], 1, k)]
          /\ s2c' = [s2c EXCEPT ![c] = Behind(@, k)]
    BY <1>6 DEF ClientFill
  <2>2. SubSeq(s2c[c], 1, k) \in Seq(Byte) /\ Behind(s2c[c], k) \in Seq(Byte)
    BY FillPieces DEF EchoTypes
  <2> QED BY <1>6, <2>1, <2>2 DEF ClientFill, EchoTypes
<1>7. CASE ClientTake(c)
  <2> DEFINE got == Append(cgot[c], Head(crio[c]))
  <2>1. got \in Seq(Byte) /\ Tail(crio[c]) \in Seq(Byte)
    BY <1>7, MovedByte DEF ClientTake, EchoTypes
  <2>2. /\ cpc' \in {[cpc EXCEPT ![c] = to] : to \in {"print", "read"}}
        /\ cgot' \in {[cgot EXCEPT ![c] = g] : g \in {<<>>, got}}
        /\ cbuf' \in {[cbuf EXCEPT ![c] = b] : b \in {got, cbuf[c]}}
        /\ crio' = [crio EXCEPT ![c] = Tail(@)]
        /\ UNCHANGED <<server, stdin, cleft, asked, net>>
    BY <1>7, Zenon DEF ClientTake
  <2> HIDE DEF got
  <2>3. cpc' \in [Clients -> {"idle", "prompt", "write", "read", "print", "gone", "killed"}]
    BY <2>2 DEF EchoTypes
  <2>4. cgot' \in [Clients -> Seq(Byte)] /\ cbuf' \in [Clients -> Seq(Byte)]
    <3>1. PICK g \in {<<>>, got}, b \in {got, cbuf[c]} :
            cgot' = [cgot EXCEPT ![c] = g] /\ cbuf' = [cbuf EXCEPT ![c] = b]
      BY <2>2
    <3>2. cgot \in [Clients -> Seq(Byte)] /\ cbuf \in [Clients -> Seq(Byte)]
      BY DEF EchoTypes
    <3>3. g \in Seq(Byte)
      BY <2>1, <1>0
    <3>4. b \in Seq(Byte)
      BY <2>1, <3>2
    <3> QED BY <3>1, <3>2, <3>3, <3>4
  <2>5. crio' \in [Clients -> Seq(Byte)]
    BY <2>1, <2>2 DEF EchoTypes
  <2> QED BY <2>2, <2>3, <2>4, <2>5 DEF EchoTypes
<1>8. CASE ClientEOF(c)
  <2>1. cbuf' \in [Clients -> Seq(Byte)] /\ cgot' \in [Clients -> Seq(Byte)]
    BY <1>0, <1>8 DEF ClientEOF, EchoTypes
  <2> QED BY <1>8, <2>1 DEF ClientEOF, EchoTypes
<1>9. CASE Fputs(c)
  <2>1. cbuf' \in [Clients -> Seq(Byte)] /\ asked' \in [Clients -> Seq(Byte)]
    BY <1>0, <1>9 DEF Fputs, EchoTypes
  <2> QED BY <1>9, <2>1 DEF Fputs, EchoTypes
<1> QED BY <1>1, <1>2, <1>4, <1>5, <1>6, <1>7, <1>8, <1>9 DEF Client

\* So do those of the server.
LEMMA ServerTypes ==
  ASSUME EchoTypes, ServerInv, Server \/ Stop
  PROVE  EchoTypes'
<1> USE DEF server, clients, net
<1>0. <<>> \in Seq(Byte) /\ (spc \in {"read", "write"} => connfd \in Clients)
  BY EmptySeq DEF EchoTypes, ServerInv
<1>1. ASSUME NEW how \in {"dead", "unnamed", "stopped"}, NEW c, ServerEnds(c, how)
      PROVE  EchoTypes'
  <2>1. send' \in [Clients -> {"open", "closed", "reset"}]
    BY <1>1 DEF ServerEnds
  <2> QED BY <1>0, <1>1, <2>1 DEF ServerEnds, EchoTypes
<1>2. CASE Stop \/ ServerBroken \/ \E c \in Clients : AcceptFails(c)
  BY <1>1, <1>2 DEF Stop, ServerBroken, AcceptFails
<1>3. CASE \E c \in Clients : Accept(c)
  BY <1>0, <1>3 DEF Accept, EchoTypes
<1>4. CASE ServerFill
  <2>1. PICK k \in Fills(c2s[connfd]) :
          /\ srio' = SubSeq(c2s[connfd], 1, k)
          /\ c2s' = [c2s EXCEPT ![connfd] = Behind(@, k)]
    BY <1>4 DEF ServerFill
  <2>2. SubSeq(c2s[connfd], 1, k) \in Seq(Byte) /\ Behind(c2s[connfd], k) \in Seq(Byte)
    BY <1>0, <1>4, FillPieces DEF EchoTypes, ServerFill
  <2> QED BY <1>4, <2>1, <2>2 DEF ServerFill, EchoTypes
<1>5. CASE ServerTake
  <2> DEFINE got == Append(sbuf, Head(srio))
  <2>1. got \in Seq(Byte) /\ got # <<>> /\ Tail(srio) \in Seq(Byte)
    BY <1>5, MovedByte DEF ServerTake, EchoTypes
  <2>2. Answer(got) \in Seq(Byte)
    BY <2>1, AnswerBytes
  <2>3. /\ \/ Echoes(got)
           \/ sbuf' = got /\ UNCHANGED <<spc, sleft>>
        /\ srio' = Tail(srio)
        /\ UNCHANGED <<connfd, clients, net>>
    BY <1>5, Zenon DEF ServerTake
  <2> HIDE DEF got
  <2>4. spc' \in {spc, "write"} /\ sbuf' \in Seq(Byte) /\ sleft' \in Seq(Byte)
    BY <1>0, <2>1, <2>2, <2>3 DEF Echoes, EchoTypes
  <2> QED BY <2>1, <2>3, <2>4 DEF EchoTypes
<1>6. CASE ServerPartial
  <2>1. Answer(sbuf) \in Seq(Byte)
    BY <1>6, AnswerBytes DEF ServerPartial, EchoTypes
  <2> QED BY <1>0, <1>6, <2>1 DEF ServerPartial, Echoes, EchoTypes
<1>7. CASE ServerEOF
  BY <1>7 DEF ServerEOF, EchoTypes
<1>8. CASE ServerWrite
  <2>1. PICK k \in 1 .. Len(sleft) :
          /\ sleft' = Behind(sleft, k)
          /\ s2c' = [s2c EXCEPT ![connfd] =
                       IF cend[connfd] = "open" THEN @ \o SubSeq(sleft, 1, k) ELSE @]
    BY <1>8 DEF ServerWrite, NotWritten
  <2>2. SubSeq(sleft, 1, k) \in Seq(Byte) /\ Behind(sleft, k) \in Seq(Byte)
    BY Pieces DEF EchoTypes
  <2>3. s2c[connfd] \o SubSeq(sleft, 1, k) \in Seq(Byte)
    BY <1>0, <1>8, <2>2, ConcatProperties DEF EchoTypes, ServerWrite
  <2>4. sleft' \in Seq(Byte) /\ s2c' \in [Clients -> Seq(Byte)]
    BY <2>1, <2>2, <2>3 DEF EchoTypes
  <2>5. PICK end \in AfterWrite(cend[connfd]) : cend' = [cend EXCEPT ![connfd] = end]
    BY <1>8 DEF ServerWrite
  <2>6. cend' \in [Clients -> {"none", "open", "closed", "reset"}]
    BY <1>0, <1>8, <2>5 DEF EchoTypes, AfterWrite, ServerWrite
  <2>7. spc' \in {"read", "write"}
    BY <1>8 DEF ServerWrite
  <2> QED BY <1>8, <2>4, <2>6, <2>7 DEF ServerWrite, EchoTypes
<1> QED BY <1>2, <1>3, <1>4, <1>5, <1>6, <1>7, <1>8 DEF Server

\* The server's state and open connections are as before.
LEMMA ServerRests ==
  ASSUME EchoTypes, ServerInv, UNCHANGED server,
         \A c \in Clients : send[c] = "open" => send'[c] = "open"
  PROVE  ServerInv'
BY DEF EchoTypes, ServerInv, server, LineEnds, LineFull

\* No step of a client closes an end of the server.
LEMMA ClientServer ==
  ASSUME EchoTypes, ServerInv, NEW c \in Clients,
         Connect(c) \/ ConnectFails(c) \/ Client(c) \/ Kill(c)
  PROVE  UNCHANGED server /\ ServerInv'
<1>1. UNCHANGED server
  BY DEF Client, Connect, ConnectFails, Fgets, Leave, ClientWrite, ClientFill, ClientTake,
     ClientEOF, ClientBroken, Fputs, Kill, ClientEnds
<1>2. CASE ClientWrite(c)
  <2>1. PICK end \in AfterWrite(send[c]) : send' = [send EXCEPT ![c] = end]
    BY <1>2 DEF ClientWrite
  <2>2. \A d \in Clients : send[d] = "open" => send'[d] = "open"
    BY <2>1 DEF AfterWrite, EchoTypes
  <2> QED BY <1>1, <2>2, ServerRests
<1>3. CASE ~ClientWrite(c)
  <2>1. send' = send
    BY <1>3 DEF Client, Connect, ConnectFails, Fgets, Leave, ClientFill, ClientTake,
       ClientEOF, ClientBroken, Fputs, Kill, ClientEnds, net
  <2> QED BY <1>1, <2>1, ServerRests
<1> QED BY <1>2, <1>3

\* The server's own steps.
LEMMA ServerServer ==
  ASSUME EchoTypes, ServerInv, Server \/ Stop
  PROVE  ServerInv'
<1> USE DEF server, clients, net
<1>0. spc \in {"read", "write"} => connfd \in Clients
  BY DEF EchoTypes, ServerInv
<1>1. CASE Stop \/ ServerBroken \/ \E c \in Clients : AcceptFails(c)
  BY <1>1 DEF Stop, ServerBroken, AcceptFails, ServerEnds, ServerInv
<1>2. CASE \E c \in Clients : Accept(c)
  BY <1>2, EchoClientsAssumption DEF Accept, Waiting, ServerInv
<1>3. CASE ServerFill
  BY <1>3 DEF ServerFill, ServerInv
<1>4. CASE ServerTake
  <2> DEFINE got == Append(sbuf, Head(srio))
  <2>1. got \in Seq(Byte) /\ got # <<>>
    BY <1>4, MovedByte DEF ServerTake, EchoTypes
  <2>2. Answer(got) # <<>>
    BY <2>1, AnswerBytes
  <2>3. /\ \/ Echoes(got)
           \/ sbuf' = got /\ ~LineEnds(got) /\ UNCHANGED <<spc, sleft>>
        /\ spc = "read" /\ UNCHANGED <<connfd, send>>
    BY <1>4, Zenon DEF ServerTake
  <2> HIDE DEF got
  <2>4. CASE Echoes(got)
    BY <2>2, <2>3, <2>4 DEF Echoes, ServerInv
  <2>5. CASE sbuf' = got /\ ~LineEnds(got) /\ UNCHANGED <<spc, sleft>>
    <3>1. ~LineEnds(sbuf)'
      BY <2>5 DEF LineEnds, LineFull
    <3> QED BY <2>3, <2>5, <3>1 DEF ServerInv
  <2> QED BY <2>3, <2>4, <2>5
<1>5. CASE ServerPartial
  <2>1. Answer(sbuf) # <<>>
    BY <1>5, AnswerBytes DEF ServerPartial, EchoTypes
  <2> QED BY <1>5, <2>1 DEF ServerPartial, AtEOF, Echoes, ServerInv
<1>6. CASE ServerEOF
  BY <1>6 DEF ServerEOF, AtEOF, ServerInv
<1>7. CASE ServerWrite
  BY <1>7 DEF ServerWrite, ServerInv
<1> QED BY <1>1, <1>2, <1>3, <1>4, <1>5, <1>6, <1>7 DEF Server

-----------------------------------------------------------------------------
(* The ends of the connections.                                            *)

\* A client's step leaves the ends of a server that is gone as they are.
LEMMA ClientEnd ==
  ASSUME EchoTypes, EndInv, NEW c \in Clients,
         Connect(c) \/ ConnectFails(c) \/ Client(c) \/ Kill(c)
  PROVE  EndInv'
<1> USE DEF ClientGoes, net
<1>1. UNCHANGED server
  BY DEF Client, Connect, ConnectFails, Fgets, Leave, ClientWrite, ClientFill, ClientTake,
     ClientEOF, ClientBroken, Fputs, Kill, ClientEnds
<1>2. \A d \in Clients : cpc[d] = "killed" => cpc'[d] = "killed"
  BY DEF Client, Connect, ConnectFails, Fgets, Leave, ClientWrite, ClientFill, ClientTake,
     ClientEOF, ClientBroken, Fputs, Kill, ClientEnds, EchoTypes
<1>3. OnlyKillsHurt'
  BY <1>1, <1>2 DEF server, EndInv, OnlyKillsHurt
<1>4. CASE Connect(c)
  BY <1>1, <1>3, <1>4 DEF Connect, EndInv, Ended, server, EchoTypes
<1>5. CASE ConnectFails(c)
  BY <1>1, <1>3, <1>5 DEF ConnectFails, EndInv, Ended, server, EchoTypes
<1>6. ASSUME NEW how \in {"gone", "killed"}, ClientEnds(c, how),
             cpc[c] \notin {"idle", "gone"}
      PROVE  EndInv'
  <2>1. cend'[c] # "none" /\ cend[c] # "none" /\ cpc'[c] # "idle"
    BY <1>6 DEF ClientEnds, EchoTypes, EndInv
  <2>2. send' = send /\ \A d \in Clients \ {c} : cend'[d] = cend[d] /\ cpc'[d] = cpc[d]
    BY <1>6 DEF ClientEnds, EchoTypes
  <2> QED BY <1>1, <1>3, <2>1, <2>2 DEF EndInv, Ended, server
<1>7. CASE Leave(c) \/ ClientBroken(c) \/ Kill(c)
  BY <1>6, <1>7 DEF Leave, ClientBroken, Kill
<1>8. CASE ClientWrite(c)
  <2>1. PICK end \in AfterWrite(send[c]) : send' = [send EXCEPT ![c] = end]
    BY <1>8 DEF ClientWrite
  <2>2. \A d \in Clients : send'[d] = "open" => send[d] = "open"
    BY <2>1 DEF AfterWrite, EchoTypes
  <2>3. cend' = cend /\ \A d \in Clients : cpc'[d] \notin {"idle", "gone"} =>
                                            cpc[d] \notin {"idle", "gone"}
    BY <1>8 DEF ClientWrite, EchoTypes
  <2> QED BY <1>1, <1>3, <2>2, <2>3 DEF EndInv, Ended, server
<1>9. CASE Fgets(c) \/ ClientFill(c) \/ ClientTake(c) \/ ClientEOF(c) \/ Fputs(c)
  <2>1. send' = send /\ cend' = cend
    BY <1>9 DEF Fgets, ClientFill, ClientTake, ClientEOF, Fputs
  <2>2. \A d \in Clients : cpc'[d] \notin {"idle", "gone"} => cpc[d] \notin {"idle", "gone"}
    BY <1>9 DEF Fgets, ClientFill, ClientTake, ClientEOF, Fputs, EchoTypes
  <2> QED BY <1>1, <1>3, <2>1, <2>2 DEF EndInv, Ended, server
<1> QED BY <1>4, <1>5, <1>7, <1>8, <1>9 DEF Client

\* A server that ends, with whatever message, leaves no end open.
LEMMA LastEnd ==
  ASSUME EchoTypes, EndInv, NEW c, NEW how, ServerEnds(c, how),
         how = "dead" => \E d \in Clients : cpc[d] = "killed"
  PROVE  EndInv'
<1>1. cpc' = cpc /\ cend' = cend /\ spc' = how
  BY DEF ServerEnds, clients
<1>2. \A d \in Clients : send'[d] = "open" => cend[d] = "none"
  BY DEF ServerEnds
<1> QED BY <1>1, <1>2 DEF EndInv, OnlyKillsHurt

\* It dies of a client that was killed.
LEMMA ServerEnd ==
  ASSUME EchoTypes, ServerInv, EndInv, TalkInv, Server \/ Stop
  PROVE  EndInv'
<1> USE DEF clients, net
<1>0. spc \in {"read", "write"} => connfd \in Clients
  BY DEF EchoTypes, ServerInv
<1>1. CASE Stop \/ \E c \in Clients : AcceptFails(c)
  <2>1. ASSUME NEW c, NEW how \in {"stopped", "unnamed"}, ServerEnds(c, how) PROVE EndInv'
    BY <2>1, LastEnd
  <2> QED BY <1>1, <2>1 DEF Stop, AcceptFails
<1>2. CASE ServerBroken
  <2>1. spc \in {"read", "write"} /\ cend[connfd] = "reset" /\ ServerEnds(connfd, "dead")
    BY <1>2 DEF ServerBroken
  <2>2. connfd \in Clients /\ TalkOf(connfd)
    BY <1>0, <2>1 DEF TalkInv, Ended
  <2>3. cpc[connfd] = "killed"
    BY <2>1, <2>2 DEF TalkOf, Talks, EchoTypes
  <2> QED BY <2>1, <2>2, <2>3, LastEnd
<1>3. CASE ServerWrite
  <2>1. PICK end \in AfterWrite(cend[connfd]) : cend' = [cend EXCEPT ![connfd] = end]
    BY <1>3 DEF ServerWrite
  <2>2. \A d \in Clients : cend[d] # "none" => cend'[d] # "none"
    BY <1>0, <1>3, <2>1 DEF AfterWrite, EchoTypes, ServerWrite
  <2>3. cpc' = cpc /\ spc' \in {"read", "write"}
    BY <1>3 DEF ServerWrite
  <2> QED BY <2>2, <2>3 DEF EndInv, Ended, OnlyKillsHurt
<1>4. CASE ServerFill \/ ServerTake \/ ServerPartial \/ ServerEOF \/ \E c \in Clients : Accept(c)
  <2>1. cpc' = cpc /\ cend' = cend
    BY <1>4 DEF ServerFill, ServerTake, ServerPartial, ServerEOF, Accept
  <2>2. spc' \in {"accept", "read", "write"}
    BY <1>4 DEF ServerFill, ServerTake, ServerPartial, ServerEOF, Accept, Echoes, AtEOF
  <2> QED BY <2>1, <2>2 DEF EndInv, Ended, OnlyKillsHurt
<1> QED BY <1>1, <1>2, <1>3, <1>4 DEF Server

-----------------------------------------------------------------------------
(* The bytes.                                                              *)

\* Nothing of d changes.
Still(d) ==
  /\ cpc'[d] = cpc[d] /\ cbuf'[d] = cbuf[d] /\ asked'[d] = asked[d]
  /\ crio'[d] = crio[d] /\ cgot'[d] = cgot[d] /\ cleft'[d] = cleft[d]
  /\ c2s'[d] = c2s[d] /\ s2c'[d] = s2c[d]
  /\ cend'[d] = cend[d] /\ send'[d] = send[d]

\* Then its conversation stands where it stood, if the server's side of it
\* does not change or there is none.
LEMMA TalkFrame ==
  ASSUME NEW d \in Clients, TalkOf(d), Still(d),
         UNCHANGED server \/ (connfd # d /\ connfd' # d)
  PROVE  TalkOf(d)'
<1>1. CASE UNCHANGED server
  BY <1>1 DEF server, Still, TalkOf, Talks, Nothing, Silent, Listens, Asking, Held, Answering,
     Coming, LineEnds, LineFull, IsLine, Answer
<1>2. CASE connfd # d /\ connfd' # d
  <2>1. Held(d)' = Held(d) /\ Listens(d)' /\ Listens(d) /\ ~Answering(d)
    BY <1>2 DEF Held, Listens, Answering
  <2>2. (Nothing(d) => Nothing(d)') /\ (Asking(d) => Asking(d)')
    BY <1>2, <2>1 DEF Still, Nothing, Silent, Asking
  <2>3. IsLine(asked[d]) => IsLine(asked[d])'
    BY DEF Still, IsLine
  <2> QED BY <1>2, <2>1, <2>2, <2>3 DEF Still, TalkOf, Talks, Answer
<1> QED BY <1>1, <1>2

\* The bytes of a line stay what they are when one of the sequences they are
\* in gives some to the next.
LEMMA Assoc ==
  ASSUME NEW a \in Seq(Byte), NEW b \in Seq(Byte), NEW c \in Seq(Byte)
  PROVE  (a \o b) \o c = a \o (b \o c)
BY ConcatAssociative

\* Two of them have no bytes if neither has.
LEMMA Joined ==
  ASSUME NEW a \in Seq(Byte), NEW b \in Seq(Byte)
  PROVE  /\ a \o b \in Seq(Byte)
         /\ a \o <<>> = a /\ <<>> \o a = a
         /\ a \o b = <<>> <=> a = <<>> /\ b = <<>>
<1>1. a \o b \in Seq(Byte)
  BY ConcatProperties
<1>2. a \o <<>> = a /\ <<>> \o a = a
  BY ConcatEmptySeq
<1>3. a \o b = <<>> => a = <<>> /\ b = <<>>
  BY ConcatSimplifications!concIsEmpty
<1>4. <<>> \o <<>> = <<>>
  BY ConcatEmptySeq, EmptySeq
<1> QED BY <1>1, <1>2, <1>3, <1>4

\* A client sends its line.
LEMMA WriteTalk ==
  ASSUME Inv, ~Ended, NEW c \in Clients, TalkOf(c), ClientWrite(c)
  PROVE  TalkOf(c)'
<1> USE DEF net, clients
<1>1. /\ cpc[c] = "write" /\ cend[c] = "open" /\ send[c] = "open" /\ IsLine(asked[c])
      /\ Asking(c) /\ EchoTypes
  BY DEF ClientWrite, TalkOf, Talks, Inv
<1>2. PICK k \in 1 .. Len(cleft[c]) :
        /\ cleft' = [cleft EXCEPT ![c] = Behind(@, k)]
        /\ c2s' = [c2s EXCEPT ![c] = IF send[c] = "open" THEN @ \o SubSeq(cleft[c], 1, k) ELSE @]
  BY DEF ClientWrite, NotWritten
<1>3. cleft'[c] = Behind(cleft[c], k) /\ c2s'[c] = c2s[c] \o SubSeq(cleft[c], 1, k)
  BY <1>1, <1>2 DEF EchoTypes
<1>4. c2s'[c] \o cleft'[c] = c2s[c] \o cleft[c]
  <2>1. /\ SubSeq(cleft[c], 1, k) \in Seq(Byte) /\ Behind(cleft[c], k) \in Seq(Byte)
        /\ SubSeq(cleft[c], 1, k) \o Behind(cleft[c], k) = cleft[c]
    BY <1>1, Pieces DEF EchoTypes
  <2>2. c2s[c] \in Seq(Byte)
    BY <1>1 DEF EchoTypes
  <2>3. (c2s[c] \o SubSeq(cleft[c], 1, k)) \o Behind(cleft[c], k)
           = c2s[c] \o (SubSeq(cleft[c], 1, k) \o Behind(cleft[c], k))
    BY <2>1, <2>2, Assoc
  <2> QED BY <1>3, <2>1, <2>3
<1>5. /\ cend' = cend /\ send'[c] = "open" /\ asked' = asked /\ UNCHANGED server
      /\ s2c' = s2c /\ crio' = crio /\ cgot' = cgot
      /\ cpc'[c] = IF cleft'[c] = <<>> THEN "read" ELSE "write"
  BY <1>1 DEF ClientWrite, AfterWrite, EchoTypes
<1>6. Asking(c)'
  BY <1>1, <1>4, <1>5 DEF Asking, Silent, Listens, Held, server
<1>7. IsLine(asked[c])'
  BY <1>1, <1>5 DEF IsLine
<1> QED BY <1>1, <1>5, <1>6, <1>7 DEF TalkOf, Talks

\* A client reads of the answer.
LEMMA FillTalk ==
  ASSUME Inv, ~Ended, NEW c \in Clients, TalkOf(c), ClientFill(c)
  PROVE  TalkOf(c)'
<1> USE DEF clients
<1>1. PICK k \in Fills(s2c[c]) :
        /\ crio' = [crio EXCEPT ![c] = SubSeq(s2c[c], 1, k)]
        /\ s2c' = [s2c EXCEPT ![c] = Behind(@, k)]
  BY DEF ClientFill
<1>2. /\ cpc[c] = "read" /\ crio[c] = <<>> /\ EchoTypes
      /\ UNCHANGED <<server, cpc, cleft, cgot, asked, c2s, cend, send>>
  BY DEF ClientFill, Inv
<1>3. crio'[c] = SubSeq(s2c[c], 1, k) /\ s2c'[c] = Behind(s2c[c], k)
  BY <1>1, <1>2 DEF EchoTypes
<1>4. /\ SubSeq(s2c[c], 1, k) \in Seq(Byte) /\ SubSeq(s2c[c], 1, k) # <<>>
      /\ Behind(s2c[c], k) \in Seq(Byte) /\ s2c[c] # <<>>
      /\ SubSeq(s2c[c], 1, k) \o Behind(s2c[c], k) = s2c[c]
  <2>1. s2c[c] \in Seq(Byte)
    BY <1>2 DEF EchoTypes
  <2> QED BY <2>1, FillPieces
<1>5. Answering(c) /\ IsLine(asked[c]) /\ cleft[c] = <<>>
  BY <1>2, <1>4 DEF TalkOf, Asking, Silent
<1>6. crio'[c] \o (s2c'[c] \o sleft) = crio[c] \o (s2c[c] \o sleft)
  <2>1. sleft \in Seq(Byte) /\ s2c[c] \in Seq(Byte)
    BY <1>2 DEF EchoTypes
  <2>2. (crio'[c] \o s2c'[c]) \o sleft = crio'[c] \o (s2c'[c] \o sleft)
    <3>1. crio'[c] \in Seq(Byte) /\ s2c'[c] \in Seq(Byte)
      BY <1>3, <1>4
    <3> QED BY <2>1, <3>1, Assoc
  <2>3. <<>> \o (s2c[c] \o sleft) = s2c[c] \o sleft
    BY <2>1, Joined
  <2> QED BY <1>2, <1>3, <1>4, <2>2, <2>3
<1>7. Answering(c)'
  BY <1>2, <1>5, <1>6 DEF Answering, Coming, server, LineEnds, LineFull
<1>8. IsLine(asked[c])'
  BY <1>2, <1>5 DEF IsLine
<1> QED BY <1>2, <1>5, <1>7, <1>8 DEF TalkOf, Talks

\* A client takes a byte of the answer, the last one with the answer whole.
LEMMA TakeTalk ==
  ASSUME Inv, ~Ended, NEW c \in Clients, TalkOf(c), ClientTake(c)
  PROVE  TalkOf(c)'
<1> USE DEF net, clients
<1> DEFINE got == Append(cgot[c], Head(crio[c]))
           rest == Tail(crio[c]) \o (s2c[c] \o sleft)
<1>1. EchoTypes /\ ServerInv /\ cpc[c] = "read" /\ crio[c] # <<>>
  BY DEF ClientTake, ClientGoes, Inv
<1>2. /\ Answering(c) /\ IsLine(asked[c]) /\ cleft[c] = <<>>
      /\ cend[c] = "open" /\ send[c] = "open"
  BY <1>1 DEF TalkOf, Talks, Asking, Silent
<1>3. /\ cgot[c] \in Seq(Byte) /\ crio[c] \in Seq(Byte) /\ s2c[c] \in Seq(Byte)
      /\ sleft \in Seq(Byte)
  BY <1>1 DEF EchoTypes
<1>4. /\ got \in Seq(Byte) /\ got # <<>> /\ Tail(crio[c]) \in Seq(Byte)
      /\ got \o Tail(crio[c]) = cgot[c] \o crio[c]
  BY <1>1, <1>3, MovedByte
<1> HIDE DEF got
<1>5. rest \in Seq(Byte) /\ got \o rest = Answer(asked[c])
  <2> DEFINE tail == s2c[c] \o sleft
  <2>1. tail \in Seq(Byte)
    BY <1>3, Joined
  <2> HIDE DEF tail
  <2>2. Tail(crio[c]) \o tail \in Seq(Byte)
    BY <1>4, <2>1, Joined
  <2>3. (got \o Tail(crio[c])) \o tail = got \o (Tail(crio[c]) \o tail)
    BY <1>4, <2>1, Assoc
  <2>4. (cgot[c] \o crio[c]) \o tail = cgot[c] \o (crio[c] \o tail)
    BY <1>3, <2>1, Assoc
  <2>5. cgot[c] \o (crio[c] \o tail) = Answer(asked[c])
    BY <1>2 DEF Answering, Coming, tail
  <2> QED BY <1>4, <2>2, <2>3, <2>4, <2>5 DEF tail
<1>6. IsLine(Answer(asked[c])) /\ LineEnds(Answer(asked[c]))
  BY <1>2, AnswerLine DEF Answering
<1>7. /\ rest # <<>> => ~LineEnds(got)
      /\ rest = <<>> => got = Answer(asked[c]) /\ LineEnds(got)
  <2> HIDE DEF rest
  <2>1. rest # <<>> => ~LineEnds(got)
    BY <1>4, <1>5, <1>6, LineReached
  <2>2. rest = <<>> => got \o rest = got
    BY <1>4, Joined
  <2> QED BY <1>5, <1>6, <2>1, <2>2
<1>8. /\ cpc' = [cpc EXCEPT ![c] = IF LineEnds(got) THEN "print" ELSE "read"]
      /\ cgot' = [cgot EXCEPT ![c] = IF LineEnds(got) THEN <<>> ELSE got]
      /\ cbuf' = [cbuf EXCEPT ![c] = IF LineEnds(got) THEN got ELSE @]
      /\ crio' = [crio EXCEPT ![c] = Tail(@)]
      /\ UNCHANGED <<server, stdin, cleft, asked, net>>
  BY DEF ClientTake, ClientGoes, got
<1>9. CASE rest = <<>>
  <2>1. Tail(crio[c]) = <<>> /\ s2c[c] = <<>> /\ sleft = <<>>
    <3>1. s2c[c] \o sleft \in Seq(Byte)
      BY <1>3, Joined
    <3>2. Tail(crio[c]) = <<>> /\ s2c[c] \o sleft = <<>>
      BY <1>4, <1>9, <3>1, Joined
    <3> QED BY <1>3, <3>2, Joined
  <2>2. /\ cpc'[c] = "print" /\ cgot'[c] = <<>> /\ cbuf'[c] = Answer(asked[c])
        /\ crio'[c] = <<>>
    BY <1>1, <1>7, <1>8, <1>9, <2>1 DEF EchoTypes
  <2>3. connfd = c /\ c2s[c] = <<>> /\ srio = <<>> /\ sbuf = <<>> /\ spc = "read"
    BY <1>1, <1>2, <2>1, EchoClientsAssumption DEF Answering, ServerInv
  <2>4. Nothing(c)'
    BY <1>2, <1>8, <2>1, <2>2, <2>3 DEF Nothing, Silent, Listens, server
  <2>5. cbuf'[c] = Answer(asked[c])'
    BY <1>8, <2>2 DEF Answer
  <2> QED BY <1>2, <1>8, <2>2, <2>4, <2>5 DEF TalkOf, Talks
<1>10. CASE rest # <<>>
  <2>1. cpc'[c] = "read" /\ cgot'[c] = got /\ crio'[c] = Tail(crio[c])
    BY <1>1, <1>7, <1>8, <1>10 DEF EchoTypes
  <2>2. Coming(c)' = rest
    BY <1>8, <2>1 DEF Coming, server
  <2>3. Answering(c)'
    BY <1>2, <1>5, <1>8, <1>10, <2>1, <2>2 DEF Answering, server, LineEnds, LineFull, Answer
  <2>4. IsLine(asked[c])'
    BY <1>2, <1>8 DEF IsLine
  <2> QED BY <1>2, <1>8, <2>1, <2>3, <2>4 DEF TalkOf, Talks
<1> QED BY <1>9, <1>10

\* Every step of a client.
LEMMA ClientTalk ==
  ASSUME Inv, ~Ended, NEW c \in Clients, TalkOf(c),
         Connect(c) \/ ConnectFails(c) \/ Client(c) \/ Kill(c)
  PROVE  TalkOf(c)'
<1> USE DEF net, clients, ClientGoes
<1>0. EchoTypes /\ ServerInv
  BY DEF Inv
<1>1. CASE Connect(c)
  <2>1. Nothing(c)'
    BY <1>1 DEF Connect, TalkOf, Nothing, Silent, Listens, server
  <2>2. cpc'[c] = "prompt" /\ cend'[c] = "open" /\ send'[c] = "open"
    BY <1>0, <1>1 DEF Connect, TalkOf, EchoTypes
  <2> QED BY <2>1, <2>2 DEF TalkOf, Talks
<1>2. CASE Fgets(c)
  <2> DEFINE line == FirstLine(stdin[c])
  <2>1. IsLine(line) /\ line # <<>>
    BY <1>0, <1>2, FirstLineIsLine DEF Fgets, EchoTypes
  <2>2. cpc[c] = "prompt" /\ UNCHANGED <<server, crio, cgot, net>>
    BY <1>2 DEF Fgets
  <2>3. cpc'[c] = "write" /\ cleft'[c] = line /\ asked'[c] = line
    BY <1>0, <1>2 DEF Fgets, EchoTypes
  <2> HIDE DEF line
  <2>4. Nothing(c) /\ cend[c] = "open" /\ send[c] = "open"
    BY <2>2 DEF TalkOf, Talks
  <2>5. Held(c) = <<>>
    BY <2>4, Joined, EmptySeq DEF Held, Nothing
  <2>6. Held(c)' = <<>> /\ Listens(c)' /\ Silent(c)'
    BY <2>2, <2>4, <2>5 DEF Held, server, Nothing, Listens, Silent
  <2>7. <<>> \o (<<>> \o line) = line
    BY <2>1, Joined DEF IsLine
  <2>8. Asking(c)'
    BY <2>2, <2>3, <2>4, <2>6, <2>7 DEF Asking, Nothing
  <2>9. IsLine(asked[c])'
    BY <2>1, <2>3 DEF IsLine
  <2> QED BY <2>1, <2>2, <2>3, <2>4, <2>8, <2>9 DEF TalkOf, Talks
<1>3. CASE Leave(c)
  <2>1. cpc[c] = "prompt" /\ Nothing(c) /\ cend[c] = "open"
    BY <1>3 DEF Leave, TalkOf, Talks
  <2>2. cpc'[c] = "gone" /\ cend'[c] = "closed"
    BY <1>0, <1>3, <2>1 DEF Leave, ClientEnds, Nothing, Silent, EchoTypes
  <2>3. Nothing(c)'
    BY <1>3, <2>1 DEF Leave, ClientEnds, Nothing, Silent, Listens, server
  <2> QED BY <2>2, <2>3 DEF TalkOf, Talks
<1>4. CASE Fputs(c)
  <2>1. cpc[c] = "print" /\ cpc'[c] = "prompt" /\ net' = net
    BY <1>0, <1>4 DEF Fputs, EchoTypes
  <2>2. Nothing(c)'
    BY <1>4, <2>1 DEF Fputs, TalkOf, Nothing, Silent, Listens, server
  <2> QED BY <2>1, <2>2 DEF TalkOf, Talks
<1>5. CASE Kill(c)
  <2>1. cpc'[c] = "killed"
    BY <1>0, <1>5 DEF Kill, ClientEnds, EchoTypes
  <2> QED BY <2>1 DEF TalkOf, Talks
<1>6. ~ConnectFails(c) /\ ~ClientEOF(c) /\ ~ClientBroken(c)
  BY DEF ConnectFails, ClientEOF, ClientBroken, TalkOf, Talks
<1> QED BY <1>1, <1>2, <1>3, <1>4, <1>5, <1>6, WriteTalk, FillTalk, TakeTalk DEF Client

\* A client's step is about its own connection.
LEMMA ClientStill ==
  ASSUME EchoTypes, NEW c \in Clients, NEW d \in Clients \ {c},
         Connect(c) \/ ConnectFails(c) \/ Client(c) \/ Kill(c)
  PROVE  Still(d)
<1> USE DEF net, ClientGoes
<1>1. CASE Connect(c) \/ ConnectFails(c)
  BY <1>1 DEF Connect, ConnectFails, Still, EchoTypes
<1>2. CASE Leave(c) \/ ClientBroken(c) \/ Kill(c)
  BY <1>2 DEF Leave, ClientBroken, Kill, ClientEnds, Still, EchoTypes
<1>3. CASE Fgets(c)
  BY <1>3 DEF Fgets, Still, EchoTypes
<1>4. CASE ClientWrite(c)
  BY <1>4 DEF ClientWrite, Still, EchoTypes
<1>5. CASE ClientFill(c)
  BY <1>5 DEF ClientFill, Still, EchoTypes
<1>6. CASE ClientTake(c)
  BY <1>6 DEF ClientTake, Still, EchoTypes
<1>7. CASE ClientEOF(c) \/ Fputs(c)
  BY <1>7 DEF ClientEOF, Fputs, Still, EchoTypes
<1> QED BY <1>1, <1>2, <1>3, <1>4, <1>5, <1>6, <1>7 DEF Client

\* The server accepts a client, which may have written already.
LEMMA AcceptTalk ==
  ASSUME Inv, ~Ended, NEW c \in Clients, TalkOf(c), Accept(c)
  PROVE  TalkOf(c)'
<1> USE DEF net, clients
<1>1. /\ EchoTypes /\ cend[c] # "none" /\ connfd # c
      /\ spc' = "read" /\ connfd' = c /\ srio' = <<>> /\ sbuf' = <<>>
      /\ UNCHANGED <<clients, net>>
  BY DEF Accept, Waiting, Inv
<1>2. Held(c) = <<>> /\ Held(c)' = <<>> /\ Listens(c)' /\ ~Answering(c)
  <2>1. <<>> \o <<>> = <<>>
    BY ConcatEmptySeq, EmptySeq
  <2> QED BY <1>1, <2>1 DEF Held, Listens, Answering
<1>3. (Nothing(c) => Nothing(c)') /\ (Asking(c) => Asking(c)')
  BY <1>1, <1>2 DEF Nothing, Asking, Silent
<1>4. IsLine(asked[c]) => IsLine(asked[c])'
  BY <1>1 DEF IsLine
<1> QED BY <1>1, <1>2, <1>3, <1>4 DEF TalkOf, Talks, Answer

\* The server reads of the line.
LEMMA ServerFillTalk ==
  ASSUME Inv, NEW c \in Clients, connfd = c, TalkOf(c), ServerFill
  PROVE  TalkOf(c)'
<1> USE DEF clients
<1>1. PICK k \in Fills(c2s[c]) :
        /\ srio' = SubSeq(c2s[c], 1, k)
        /\ c2s' = [c2s EXCEPT ![c] = Behind(@, k)]
  BY DEF ServerFill
<1>2. /\ srio = <<>> /\ EchoTypes
      /\ UNCHANGED <<spc, connfd, sbuf, sleft, clients, s2c, cend, send>>
  BY DEF ServerFill, Inv
<1>3. c2s'[c] = Behind(c2s[c], k)
  BY <1>1, <1>2 DEF EchoTypes
<1>4. c2s[c] \in Seq(Byte) /\ sbuf \in Seq(Byte) /\ cleft[c] \in Seq(Byte)
  BY <1>2 DEF EchoTypes
<1>5. /\ SubSeq(c2s[c], 1, k) \in Seq(Byte) /\ Behind(c2s[c], k) \in Seq(Byte)
      /\ c2s[c] # <<>>
      /\ SubSeq(c2s[c], 1, k) \o Behind(c2s[c], k) = c2s[c]
  BY <1>4, FillPieces
<1>6. ~Nothing(c) /\ ~Answering(c)
  BY <1>5 DEF Nothing, Answering
<1>7. Asking(c) => Asking(c)'
  <2> SUFFICES ASSUME Asking(c) PROVE Asking(c)'
    OBVIOUS
  <2> DEFINE r == SubSeq(c2s[c], 1, k)
             b == Behind(c2s[c], k)
  <2>1. Held(c) = sbuf /\ Held(c)' = sbuf \o r /\ c2s'[c] = b
    BY <1>1, <1>2, <1>3, <1>4, Joined DEF Held
  <2>2. r \in Seq(Byte) /\ b \in Seq(Byte) /\ r \o b = c2s[c]
    BY <1>5
  <2> HIDE DEF r, b
  <2>3. (sbuf \o r) \o (b \o cleft[c]) = sbuf \o (r \o (b \o cleft[c]))
    <3>1. b \o cleft[c] \in Seq(Byte)
      BY <1>4, <2>2, Joined
    <3> QED BY <1>4, <2>2, <3>1, Assoc
  <2>4. r \o (b \o cleft[c]) = c2s[c] \o cleft[c]
    <3>1. (r \o b) \o cleft[c] = r \o (b \o cleft[c])
      BY <1>4, <2>2, Assoc
    <3> QED BY <2>2, <3>1
  <2> QED BY <1>2, <2>1, <2>3, <2>4 DEF Asking, Silent, Listens
<1>8. IsLine(asked[c]) => IsLine(asked[c])'
  BY <1>2 DEF IsLine
<1> QED BY <1>2, <1>6, <1>7, <1>8 DEF TalkOf, Talks

\* The server takes a byte of the line, the last one with the line whole.
LEMMA ServerTakeTalk ==
  ASSUME Inv, NEW c \in Clients, connfd = c, TalkOf(c), ServerTake
  PROVE  TalkOf(c)'
<1> USE DEF net, clients
<1> DEFINE got == Append(sbuf, Head(srio))
           rest == Tail(srio) \o (c2s[c] \o cleft[c])
<1>1. EchoTypes /\ ServerInv /\ spc = "read" /\ srio # <<>> /\ UNCHANGED <<connfd, clients, net>>
  BY DEF ServerTake, Inv
<1>2. ~Nothing(c) /\ ~Answering(c)
  BY <1>1 DEF Nothing, Answering
<1>3. /\ srio \in Seq(Byte) /\ sbuf \in Seq(Byte)
      /\ c2s[c] \in Seq(Byte) /\ cleft[c] \in Seq(Byte)
  BY <1>1 DEF EchoTypes
<1>4. /\ got \in Seq(Byte) /\ got # <<>> /\ Tail(srio) \in Seq(Byte)
      /\ got \o Tail(srio) = sbuf \o srio
  BY <1>1, <1>3, MovedByte
<1>5. /\ srio' = Tail(srio)
      /\ LineEnds(got) => Echoes(got)
      /\ ~LineEnds(got) => sbuf' = got /\ UNCHANGED <<spc, sleft>>
  BY Zenon DEF ServerTake, got
<1> HIDE DEF got
<1>6. SUFFICES ASSUME Talks(c), Asking(c), IsLine(asked[c]) PROVE TalkOf(c)'
  BY <1>1, <1>2 DEF TalkOf, Talks
<1>7. rest \in Seq(Byte) /\ got \o rest = asked[c]
  <2> DEFINE tail == c2s[c] \o cleft[c]
  <2>1. tail \in Seq(Byte)
    BY <1>3, Joined
  <2> HIDE DEF tail
  <2>2. Tail(srio) \o tail \in Seq(Byte)
    BY <1>4, <2>1, Joined
  <2>3. (got \o Tail(srio)) \o tail = got \o (Tail(srio) \o tail)
    BY <1>4, <2>1, Assoc
  <2>4. (sbuf \o srio) \o tail = asked[c]
    BY <1>6 DEF Asking, Held, tail
  <2> QED BY <1>4, <2>2, <2>3, <2>4 DEF tail
<1>8. CASE LineEnds(got)
  <2>1. rest = <<>> /\ asked[c] = got
    <3> HIDE DEF rest
    <3> QED BY <1>4, <1>6, <1>7, <1>8, LineReached
  <2>2. Tail(srio) = <<>> /\ c2s[c] = <<>> /\ cleft[c] = <<>>
    <3>1. c2s[c] \o cleft[c] \in Seq(Byte)
      BY <1>3, Joined
    <3>2. Tail(srio) = <<>> /\ c2s[c] \o cleft[c] = <<>>
      BY <1>4, <2>1, <3>1, Joined
    <3> QED BY <1>3, <3>2, Joined
  <2>3. cpc[c] = "read" /\ cend[c] = "open" /\ send[c] = "open"
    BY <1>2, <1>6, <2>2 DEF TalkOf, Talks
  <2>4. sleft' = Answer(asked[c]) /\ sbuf' = <<>> /\ srio' = <<>>
    BY <1>5, <1>8, <2>1, <2>2 DEF Echoes
  <2>5. Coming(c)' = Answer(asked[c]) /\ cgot[c] \o Answer(asked[c]) = Answer(asked[c])
    <3>1. Answer(asked[c]) \in Seq(Byte)
      BY <1>4, <2>1, AnswerBytes
    <3>2. crio'[c] = <<>> /\ s2c'[c] = <<>> /\ cgot[c] = <<>>
      BY <1>1, <1>6 DEF Asking, Silent
    <3> QED BY <2>4, <3>1, <3>2, Joined DEF Coming
  <2>6. Answer(asked[c]) # <<>>
    BY <1>4, <2>1, AnswerBytes
  <2>7. LineEnds(asked[c])' /\ IsLine(asked[c])' /\ Answer(asked[c])' = Answer(asked[c])
    BY <1>1, <1>6, <1>8, <2>1 DEF LineEnds, LineFull, IsLine, Answer
  <2>8. Answering(c)'
    BY <1>1, <2>2, <2>4, <2>5, <2>6, <2>7 DEF Answering
  <2> QED BY <1>1, <2>2, <2>3, <2>7, <2>8 DEF TalkOf, Talks
<1>9. CASE ~LineEnds(got)
  <2>1. Held(c)' = got \o Tail(srio) /\ Held(c) = sbuf \o srio
    BY <1>1, <1>5, <1>9 DEF Held
  <2>2. Asking(c)'
    BY <1>1, <1>4, <1>5, <1>6, <1>9, <2>1 DEF Asking, Silent, Listens
  <2>3. IsLine(asked[c])'
    BY <1>1, <1>6 DEF IsLine
  <2> QED BY <1>1, <1>2, <2>2, <2>3 DEF TalkOf, Talks
<1> QED BY <1>8, <1>9

\* The server writes of the answer.
LEMMA ServerWriteTalk ==
  ASSUME Inv, NEW c \in Clients, connfd = c, TalkOf(c), ServerWrite
  PROVE  TalkOf(c)'
<1> USE DEF net, clients
<1>1. /\ EchoTypes /\ spc = "write" /\ cend[c] # "reset"
      /\ UNCHANGED <<connfd, srio, sbuf, clients, c2s, send>>
      /\ spc' = IF sleft' = <<>> THEN "read" ELSE "write"
  BY DEF ServerWrite, Inv
<1>2. ~Nothing(c) /\ ~Asking(c)
  BY <1>1 DEF Nothing, Asking, Listens
<1>3. SUFFICES ASSUME cpc[c] = "read", Answering(c), cend[c] = "open" PROVE TalkOf(c)'
  BY <1>1, <1>2 DEF TalkOf, Talks
<1>4. PICK k \in 1 .. Len(sleft) :
        /\ sleft' = Behind(sleft, k)
        /\ s2c' = [s2c EXCEPT ![c] = IF cend[c] = "open" THEN @ \o SubSeq(sleft, 1, k) ELSE @]
  BY DEF ServerWrite, NotWritten
<1>5. s2c'[c] = s2c[c] \o SubSeq(sleft, 1, k) /\ cend'[c] = "open"
  BY <1>1, <1>3, <1>4 DEF ServerWrite, AfterWrite, EchoTypes
<1>6. s2c'[c] \o sleft' = s2c[c] \o sleft
  <2>1. s2c[c] \in Seq(Byte) /\ sleft \in Seq(Byte)
    BY <1>1 DEF EchoTypes
  <2>2. /\ SubSeq(sleft, 1, k) \in Seq(Byte) /\ Behind(sleft, k) \in Seq(Byte)
        /\ SubSeq(sleft, 1, k) \o Behind(sleft, k) = sleft
    BY <2>1, Pieces
  <2>3. (s2c[c] \o SubSeq(sleft, 1, k)) \o Behind(sleft, k)
           = s2c[c] \o (SubSeq(sleft, 1, k) \o Behind(sleft, k))
    BY <2>1, <2>2, Assoc
  <2> QED BY <1>4, <1>5, <2>2, <2>3
<1>7. Answering(c)'
  BY <1>1, <1>3, <1>6 DEF Answering, Coming, LineEnds, LineFull, Answer
<1>8. cleft[c] = <<>> /\ IsLine(asked[c]) /\ send[c] = "open"
  BY <1>3 DEF TalkOf, Talks
<1>9. IsLine(asked[c])'
  BY <1>1, <1>8 DEF IsLine
<1> QED BY <1>1, <1>3, <1>5, <1>7, <1>8, <1>9 DEF TalkOf, Talks

\* Every step of the server.
LEMMA ServerTalk ==
  ASSUME Inv, Server \/ Stop, ~Ended', NEW d \in Clients, TalkOf(d)
  PROVE  TalkOf(d)'
<1> USE DEF net, clients
<1>0. /\ EchoTypes /\ ServerInv
      /\ spc \in {"read", "write"} => connfd \in Clients
      /\ spc = "accept" => connfd = NULL
  BY DEF Inv, EchoTypes, ServerInv
<1>1. CASE \E c \in Clients : Accept(c)
  <2>1. PICK c \in Clients : Accept(c)
    BY <1>1
  <2>2. CASE d = c
    BY <2>1, <2>2, AcceptTalk DEF Accept, Ended
  <2>3. CASE d # c
    <3>1. connfd # d /\ connfd' # d /\ Still(d)
      BY <1>0, <2>1, <2>3, EchoClientsAssumption DEF Accept, Still
    <3> QED BY <3>1, TalkFrame
  <2> QED BY <2>2, <2>3
<1>2. CASE ServerFill \/ ServerTake \/ ServerWrite
  <2>1. connfd \in Clients /\ connfd' = connfd
    BY <1>0, <1>2 DEF ServerFill, ServerTake, ServerWrite
  <2>2. CASE d = connfd
    BY <1>2, <2>2, ServerFillTalk, ServerTakeTalk, ServerWriteTalk
  <2>3. CASE d # connfd
    <3>1. Still(d)
      <4>1. CASE ServerFill
        BY <1>0, <2>1, <2>3, <4>1 DEF ServerFill, Still, EchoTypes
      <4>2. CASE ServerTake
        BY <4>2 DEF ServerTake, Still
      <4>3. CASE ServerWrite
        BY <1>0, <2>1, <2>3, <4>3 DEF ServerWrite, Still, EchoTypes
      <4> QED BY <1>2, <4>1, <4>2, <4>3
    <3> QED BY <2>1, <2>3, <3>1, TalkFrame
  <2> QED BY <2>2, <2>3
<1>3. CASE ServerPartial
  <2>1. /\ connfd \in Clients /\ connfd' = connfd /\ UNCHANGED <<clients, net>>
        /\ cend[connfd] = "closed" /\ sbuf # <<>>
    BY <1>0, <1>3 DEF ServerPartial, AtEOF
  <2>2. CASE d = connfd
    <3>1. cpc[d] = "killed"
      BY <1>0, <2>1, <2>2 DEF TalkOf, Talks, Nothing, EchoTypes
    <3> QED BY <2>1, <3>1 DEF TalkOf, Talks
  <2>3. CASE d # connfd
    <3>1. Still(d)
      BY <2>1 DEF Still
    <3> QED BY <2>1, <2>3, <3>1, TalkFrame
  <2> QED BY <2>2, <2>3
<1>4. CASE ServerEOF
  <2>1. /\ connfd \in Clients /\ connfd' = NULL /\ cend[connfd] = "closed"
        /\ send' = [send EXCEPT ![connfd] = "closed"]
        /\ UNCHANGED <<clients, c2s, s2c, cend>>
    BY <1>0, <1>4 DEF ServerEOF, AtEOF
  <2>2. CASE d = connfd
    <3>1. cpc[d] \in {"killed", "gone"}
      BY <1>0, <2>1, <2>2 DEF TalkOf, Talks, EchoTypes
    <3>2. Nothing(d) => Nothing(d)'
      BY <2>1, EchoClientsAssumption DEF Nothing, Silent, Listens
    <3> QED BY <2>1, <3>1, <3>2 DEF TalkOf, Talks
  <2>3. CASE d # connfd
    <3>1. Still(d) /\ connfd' # d
      BY <1>0, <2>1, <2>3, EchoClientsAssumption DEF Still, EchoTypes
    <3> QED BY <2>3, <3>1, TalkFrame
  <2> QED BY <2>2, <2>3
<1>5. ~Stop /\ ~ServerBroken /\ \A c \in Clients : ~AcceptFails(c)
  BY DEF Stop, ServerBroken, AcceptFails, ServerEnds, Ended
<1> QED BY <1>1, <1>2, <1>3, <1>4, <1>5 DEF Server

-----------------------------------------------------------------------------
(* The invariant and what it says.                                         *)

\* It holds before anybody has connected.
LEMMA InitInv == ASSUME Init PROVE Inv
<1>1. EchoTypes
  <2>1. <<>> \in Seq(Byte)
    BY EmptySeq
  <2>2. stdin \in [Clients -> Seq(STRING)]
    BY InputsAssumption DEF Init
  <2> QED BY <2>1, <2>2 DEF Init, EchoTypes
<1>2. ServerInv /\ EndInv
  BY DEF Init, ServerInv, EndInv, Ended, OnlyKillsHurt
<1>3. TalkInv
  BY EchoClientsAssumption DEF Init, TalkInv, TalkOf, Talks, Nothing, Silent, Listens
<1> QED BY <1>1, <1>2, <1>3 DEF Inv

\* Every step keeps it.
LEMMA StepInv == ASSUME Inv, [Next]_vars PROVE Inv'
<1>0. EchoTypes /\ ServerInv /\ EndInv /\ TalkInv
  BY DEF Inv
<1>1. CASE Server \/ Stop
  <2>1. EchoTypes' /\ ServerInv' /\ EndInv'
    BY <1>0, <1>1, ServerTypes, ServerServer, ServerEnd
  <2>2. TalkInv'
    <3> SUFFICES ASSUME ~Ended', NEW d \in Clients PROVE TalkOf(d)'
      BY DEF TalkInv
    <3>1. ~Ended
      BY <1>0, <1>1 DEF Server, Stop, Accept, AcceptFails, ServerFill, ServerTake, ServerPartial,
         ServerEOF, ServerWrite, ServerBroken, AtEOF, Ended
    <3>2. TalkOf(d)
      BY <1>0, <3>1 DEF TalkInv
    <3> QED BY <1>1, <3>2, ServerTalk
  <2> QED BY <2>1, <2>2 DEF Inv
<1>2. ASSUME NEW c \in Clients, Connect(c) \/ ConnectFails(c) \/ Client(c) \/ Kill(c)
      PROVE  Inv'
  <2>1. EchoTypes' /\ ServerInv' /\ EndInv' /\ UNCHANGED server
    BY <1>0, <1>2, ClientTypes, ClientServer, ClientEnd
  <2>2. TalkInv'
    <3> SUFFICES ASSUME ~Ended', NEW d \in Clients PROVE TalkOf(d)'
      BY DEF TalkInv
    <3>1. ~Ended /\ TalkOf(d)
      BY <1>0, <2>1 DEF TalkInv, Ended, server
    <3>2. CASE d = c
      BY <1>2, <3>1, <3>2, ClientTalk
    <3>3. CASE d # c
      <4>1. Still(d)
        BY <1>0, <1>2, <3>3, ClientStill
      <4> QED BY <2>1, <3>1, <4>1, TalkFrame
    <3> QED BY <3>2, <3>3
  <2> QED BY <2>1, <2>2 DEF Inv
<1>3. CASE UNCHANGED vars
  <2>1. EchoTypes' /\ ServerInv' /\ EndInv'
    BY <1>0, <1>3 DEF vars, server, clients, net, EchoTypes, ServerInv, EndInv, Ended,
       OnlyKillsHurt, LineEnds, LineFull
  <2>2. TalkInv'
    <3> SUFFICES ASSUME ~Ended', NEW d \in Clients PROVE TalkOf(d)'
      BY DEF TalkInv
    <3>1. TalkOf(d) /\ Still(d) /\ UNCHANGED server
      BY <1>0, <1>3 DEF TalkInv, Ended, vars, server, clients, net, Still
    <3> QED BY <3>1, TalkFrame
  <2> QED BY <2>1, <2>2 DEF Inv
<1> QED BY <1>1, <1>2, <1>3 DEF Next

\* The invariant of the specification.
LEMMA InvHolds == Spec => []Inv
<1> QED BY InitInv, StepInv, PTL DEF Spec

\* Through short writes, short reads and lines cut at MAXLINE a client prints
\* the answer to its line and nothing of it is left (rio_writen and
\* rio_readlineb under echo() and the loop of echoclient.c).
THEOREM FaithfulEchoHolds == Spec => []FaithfulEcho
<1>1. Inv => FaithfulEcho
  <2> SUFFICES ASSUME Inv, NEW c \in Clients, cpc[c] = "print", send[c] = "open"
               PROVE  /\ cbuf[c] = Answer(asked[c])
                      /\ crio[c] = <<>> /\ c2s[c] = <<>> /\ s2c[c] = <<>>
    BY DEF FaithfulEcho
  <2>1. ~Ended
    BY DEF Inv, EndInv
  <2>2. TalkOf(c)
    BY <2>1 DEF Inv, TalkInv
  <2> QED BY <2>2 DEF TalkOf, Nothing, Silent
<1> QED BY <1>1, InvHolds, PTL

\* Server and client wait for each other only behind an input that does not
\* end in a line break (both read a line only after they have written one).
THEOREM WaitsForRestHolds == Spec => []WaitsForRest
<1>1. Inv => WaitsForRest
  <2> SUFFICES ASSUME Inv, NEW c \in Clients, BothWait(c) PROVE Unfinished(asked[c])
    BY DEF WaitsForRest
  <2>1. /\ cpc[c] = "read" /\ crio[c] = <<>> /\ s2c[c] = <<>> /\ connfd = c
        /\ spc = "read" /\ srio = <<>> /\ c2s[c] = <<>>
    BY DEF BothWait
  <2>2. EchoTypes /\ ServerInv /\ TalkOf(c)
    BY <2>1 DEF Inv, TalkInv, Ended
  <2>3. <<>> \o <<>> = <<>>
    BY ConcatEmptySeq, EmptySeq
  <2>4. ~Answering(c)
    <3>1. sleft = <<>>
      BY <2>1, <2>2 DEF ServerInv
    <3> QED BY <2>1, <2>3, <3>1 DEF Answering, Coming
  <2>5. Asking(c) /\ IsLine(asked[c]) /\ cleft[c] = <<>>
    BY <2>1, <2>2, <2>4 DEF TalkOf
  <2>6. asked[c] = sbuf
    <3>1. sbuf \in Seq(Byte)
      BY <2>2 DEF EchoTypes
    <3>2. sbuf \o <<>> = sbuf
      BY <3>1, Joined
    <3> QED BY <2>1, <2>3, <2>5, <3>2 DEF Asking, Held
  <2>7. asked[c] # <<>> /\ ~LineEnds(asked[c])
    BY <2>1, <2>2, <2>5, <2>6 DEF ServerInv, IsLine
  <2> QED BY <2>5, <2>7, SizesAssumption DEF Unfinished, IsLine, LineEnds, LineFull
<1> QED BY <1>1, InvHolds, PTL

\* The server dies of a connection (unix_error, SIGPIPE) only when the user
\* has ended a client.
THEOREM OnlyKillsHurtHolds == Spec => []OnlyKillsHurt
<1>1. Inv => OnlyKillsHurt
  BY DEF Inv, EndInv
<1> QED BY <1>1, InvHolds, PTL

=============================================================================
