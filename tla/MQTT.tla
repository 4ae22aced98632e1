-------------------------------- MODULE MQTT --------------------------------
(***************************************************************************)
(* The whole system: the broker of module Broker with its publishers       *)
(* (pub_client.c) and subscribers (sub_client.c).                          *)
(*                                                                         *)
(* A client with Sus[c] = NONE is a publisher.  What a publisher samples   *)
(* from top(1) is abstracted to the sequence number of the message.        *)
(***************************************************************************)
EXTENDS Broker

CONSTANTS
  MayExit,      \* clients the user may end (Ctrl-C, kill)
  MaxMsgs,      \* bound on the messages of one publisher
  MaxBacklog    \* bound on the lines that wait in one socket

ASSUME MayExitAssumption == MayExit \subseteq Clients
ASSUME BoundsAssumption == MaxMsgs \in Nat /\ MaxBacklog \in Nat

VARIABLES
  cpc,          \* where main() of the client is
  sent,         \* messages the publisher has written
  shown         \* lines the subscriber has printed

clientVars == <<cpc, sent, shown>>
vars == <<brokerVars, clientVars>>

Publishers == {c \in Clients : Sus[c] = NONE}
Subscribers == Clients \ Publishers

Init ==
  /\ BrokerInit
  /\ cpc = [c \in Clients |-> "idle"]
  /\ sent = [c \in Clients |-> 0]
  /\ shown = [c \in Clients |-> 0]

-----------------------------------------------------------------------------
(* What both clients do.                                                   *)

ClientGoes(c, from, to) ==
  /\ cpc[c] = from
  /\ cpc' = [cpc EXCEPT ![c] = to]
  /\ UNCHANGED <<broker, closed, shared, pc, locals>>

\* Does the broker's end of the connection take a line?  Has it gone?  Between
\* the close() in sig_handler and the return of a read() both may be found.
TakesLines(c) ==
  broker = "up" /\ (IsShut(c) => \E t \in Clients : fd_pub[t] = c /\ pc[t] = "read")
HasGone(c) == broker # "up" \/ IsShut(c)

Writes(c, line) == rx' = [rx EXCEPT ![c] = Append(@, line)]

\* Open_clientfd; a refused connection ends the client in unix_error.
Connect(c) ==
  /\ ClientGoes(c, "idle", IF broker = "up" THEN "connected" ELSE "gone")
  /\ peer' = IF broker = "up" THEN [peer EXCEPT ![c] = "open"] ELSE peer
  /\ UNCHANGED <<rx, tx, sent, shown>>

SendName(c) ==
  /\ TakesLines(c)
  /\ ClientGoes(c, "connected", "named")
  /\ Writes(c, NameLine(c))
  /\ UNCHANGED <<peer, tx, sent, shown>>

SendSus(c) ==
  /\ TakesLines(c)
  /\ ClientGoes(c, "named", "running")
  /\ Writes(c, SusLine(c))
  /\ UNCHANGED <<peer, tx, sent, shown>>

\* The broker has gone during the handshake: a write raises SIGPIPE, or the
\* connection is found closed right after it.
HandshakeBroken(c) ==
  /\ HasGone(c)
  /\ ClientGoes(c, "connected", "gone") \/ ClientGoes(c, "named", "gone")
  /\ UNCHANGED <<net, sent, shown>>

\* The user ends the client.  The kernel closes the connection, with a reset
\* if lines from the broker are still unread in the socket.
Exit(c) ==
  /\ c \in MayExit
  /\ \E at \in {"connected", "named", "running"} : ClientGoes(c, at, "gone")
  /\ peer' \in {[peer EXCEPT ![c] = end] :
                  end \in IF shown[c] < Len(tx[c])
                            THEN {"closed", "reset"} ELSE {"closed"}}
  /\ UNCHANGED <<rx, tx, sent, shown>>

-----------------------------------------------------------------------------
(* pub_client.c, the loop of lines 63-71.                                  *)

Publish(p) ==
  /\ p \in Publishers
  /\ TakesLines(p)
  /\ ClientGoes(p, "running", "running")
  /\ sent[p] < MaxMsgs
  /\ Len(rx[p]) < MaxBacklog
  /\ Writes(p, DataLine(p, sent[p] + 1))
  /\ sent' = [sent EXCEPT ![p] = @ + 1]
  /\ UNCHANGED <<peer, tx, shown>>

\* A write to a dead broker: lost if the broker's end was shut down cleanly,
\* SIGPIPE if it answered with a reset.
PublishLost(p) ==
  /\ p \in Publishers
  /\ HasGone(p)
  /\ ClientGoes(p, "running", IF rx[p] = <<>> THEN "reset" ELSE "gone")
  /\ UNCHANGED <<net, sent, shown>>

PublishBroken(p) ==
  /\ ClientGoes(p, "reset", "gone")
  /\ UNCHANGED <<net, sent, shown>>

-----------------------------------------------------------------------------
(* sub_client.c, the loop of lines 55-62.                                  *)

Show(s) ==
  /\ s \in Subscribers
  /\ shown[s] < Len(tx[s])
  /\ ClientGoes(s, "running", "running")
  /\ shown' = [shown EXCEPT ![s] = @ + 1]
  /\ UNCHANGED <<net, sent>>

\* Mutant of SubEOF: the loop goes on at the end of file.
SubIgnoresEOF(s) ==
  /\ s \in Subscribers
  /\ HasGone(s)
  /\ ClientGoes(s, "running", "running")
  /\ UNCHANGED <<net, sent, shown>>

\* End of file, or a reset, which may overtake lines that are still unread.
SubEOF(s) ==
  /\ s \in Subscribers
  /\ HasGone(s)
  /\ shown[s] = Len(tx[s]) \/ rx[s] # <<>>
  /\ ClientGoes(s, "running", "gone")
  /\ UNCHANGED <<net, sent, shown>>

-----------------------------------------------------------------------------
Client(c) ==
  \/ Connect(c) \/ SendName(c) \/ SendSus(c) \/ HandshakeBroken(c)
  \/ Publish(c) \/ PublishLost(c) \/ PublishBroken(c)
  \/ Show(c) \/ SubEOF(c)

Next ==
  \/ BrokerNext /\ UNCHANGED clientVars
  \/ \E c \in Clients : Client(c) \/ Exit(c)

Spec == Init /\ [][Next]_vars

\* The scheduler runs every thread and every process that can run; nothing
\* makes the user start a client, end one, or send SIGINT, but a
\* sig_handler that has begun goes on.
Runs(c) == Client(c) /\ cpc[c] # "idle"

FairSpec ==
  /\ Spec
  /\ WF_vars(closed > 0 /\ (SigClose \/ SigExit) /\ UNCHANGED clientVars)
  /\ \A c \in Clients :
       /\ WF_vars((Accept(c) \/ Thread(c)) /\ UNCHANGED clientVars)
       /\ WF_vars(Runs(c))

-----------------------------------------------------------------------------
(* The state the properties speak about.                                   *)

Registering == {"name", "sus", "reg", "regLoad", "regStore", "update", "copy",
                "finish", "unlock"}
Splitting == {"regLoad", "regStore", "fwdLoad", "fwdStore"}
Forwarding == {"scan", "lookup", "read", "split", "fwdLoad", "fwdStore", "write"}

Sends == [topic : Topics, token : Token]

TypeOK ==
  /\ broker \in {"up", "stopped", "crashed"} /\ closed \in Slots
  /\ mutex \in {0, 1} /\ control \in Nat \cup {BAD} /\ fd_idx \in Slots
  /\ client_fd_list \in [Slots -> Clients \cup {STDIN}]
  /\ client_name_list \in [Slots -> Names \cup {NULL, THREAD_ID, TORN}]
  /\ client_sus_list \in [Slots -> {Sus[c] : c \in Clients} \cup {NULL, NONE}]
  /\ topic_list \in [Slots -> SUBSET Topics]
  /\ olds \in Cursor \cup {NULL} /\ nuls \subseteq Cursor
  /\ pc \in [Clients -> Registering \cup Forwarding
                          \cup {"none", "start", "wait"}]
  /\ rio \in [Clients -> Seq(Line)]
  /\ row \in [Clients -> Nat]
  /\ want \in [Clients -> SUBSET Topics]
  /\ fd_pub \in [Clients -> Clients \cup {STDIN}]
  /\ fd_sus \in [Clients -> Clients \cup {STDIN}]
  /\ buf \in [Clients -> Line \cup {NULL}]
  /\ argv \in [Clients -> Seq(Token)]
  /\ cur \in [Clients -> Cursor \cup {NULL}]
  /\ rx \in [Clients -> Seq(Line)]
  /\ peer \in [Clients -> {"none", "open", "closed", "reset"}]
  /\ tx \in [Clients -> Seq(Sends)]
  /\ cpc \in [Clients -> {"idle", "connected", "named", "running", "reset", "gone"}]
  /\ sent \in [Clients -> Nat]
  /\ shown \in [Clients -> Nat]

Registered(c) == \E i \in 0 .. fd_idx - 1 : client_fd_list[i] = c

-----------------------------------------------------------------------------
(* Safety.                                                                 *)

\* thread() registers its client alone: two threads are never both between
\* sem_wait(sem_mutex) and sem_post(sem_mutex) (lines 189-249), although the
\* section blocks on the network.
MutualExclusion ==
  \A t, u \in Clients :
    pc[t] \in Registering /\ pc[u] \in Registering => t = u

\* forward_messages() walks the parallel lists without a lock until it meets
\* a NULL in client_sus_list (line 307).  Every row it can meet, and every
\* counted row, has the descriptor, the name and the subscription of one
\* client, whatever registration is under way; no client has two rows.  Only a
\* registration behind the end of the lists breaks this: the topics it stores
\* at lines 236-238 overwrite the first names.
RowsComplete ==
  broker = "up" =>
    \A i \in Slots : i < fd_idx \/ client_sus_list[i] # NULL =>
      LET c == client_fd_list[i] IN
        /\ c \in Clients
        /\ client_name_list[i] = Name[c] \/ control = BAD
        /\ client_sus_list[i] = Sus[c]
        /\ \A k \in 0 .. i - 1 : client_fd_list[k] # c

\* Comment of line 245: forwarding starts with two registered clients.  The
\* loop of lines 306-327 would otherwise spin on an empty list.
ForwardAfterTwo ==
  \A t \in Clients : broker = "up" /\ pc[t] \in Forwarding =>
    fd_idx >= 2 /\ client_sus_list[0] # NULL /\ client_sus_list[1] # NULL

\* sem_control lets exactly one thread fewer than there are registered
\* clients into forward_messages() (lines 244-247 and 305): the posts and the
\* waits of all threads balance, so one registered thread never forwards.
ControlBalance ==
  broker = "up" /\ control # BAD =>
    control + Cardinality({t \in Clients : pc[t] \in Forwarding})
      = IF fd_idx = 0 THEN 0 ELSE fd_idx - 1

\* README: "subscribers ONLY recieve messages from topics they are interested
\* on filtered by the broker" (lines 154-169 with the row of line 312).
OnlyWantedTopics ==
  \A s \in Subscribers : \A i \in DOMAIN tx[s] : tx[s][i].topic \in Wanted[s]

\* Comment of line 126: a message goes from a given publisher to a given
\* subscriber.  Every line a subscriber is sent carries, after the name of a
\* topic, the value of that topic in a message of the node it subscribed to.
FaithfulFields ==
  \A s \in Subscribers : \A i \in DOMAIN tx[s] :
    LET token == tx[s][i].token IN
      /\ token.line.kind = "data"
      /\ token.field = tx[s][i].topic
      /\ Name[token.line.from] = Sus[s]

\* The topics of message n that subscriber s has been sent before position i.
SentBefore(s, n, i) ==
  {tx[s][j].topic : j \in {j \in 1 .. i - 1 : tx[s][j].token.line.seq = n}}

\* Messages reach a subscriber whole, once and in the order they were
\* published: its topics come in ascending order, and a later message starts
\* only when every wanted topic of the earlier one is sent (lines 142-176).
WholeMessagesInOrder ==
  \A s \in Subscribers : \A i \in DOMAIN tx[s] :
    LET n == tx[s][i].token.line.seq IN
      /\ SentBefore(s, n, i) = {k \in Wanted[s] : k < tx[s][i].topic}
      /\ \A j \in 1 .. i - 1 :
           LET m == tx[s][j].token.line.seq IN
             m <= n /\ (m < n => SentBefore(s, m, i) = Wanted[s])

\* README: "Broker's main task is to forward messages from a publisher": once
\* a subscriber is served, no message of its publisher is left out (the rio_t
\* of line 131 is thrown away with what it has buffered).
NothingSkipped ==
  \A s \in Subscribers : \A i \in DOMAIN tx[s] \ {1} :
    tx[s][i].token.line.seq <= tx[s][i - 1].token.line.seq + 1

\* A broker with well-formed clients dies only of a departure it does not
\* handle: a client that leaves during its handshake, or a subscriber that
\* leaves (SIGPIPE in Rio_writen, line 167).  A publisher may come and go.
CrashNeedsDeparture ==
  broker = "crashed" =>
    \E c \in Clients : cpc[c] = "gone" /\ (c \in Subscribers \/ ~Registered(c))

-----------------------------------------------------------------------------
(* The service of module PubSub.                                           *)

\* A line sent to a subscriber as the part of a message it stands for; text
\* of a line that is not a message is no value of any topic.
AsPart(line) ==
  [from |-> line.token.line.from, seq |-> line.token.line.seq, topic |-> line.topic,
   value |-> IF line.token.line.kind = "data" THEN line.token.field ELSE 0]

Service ==
  INSTANCE PubSub WITH
    Follows <- LAMBDA s, p : Sus[s] = Name[p],
    published <- [p \in Publishers |-> sent[p]],
    delivered <- [s \in Subscribers |-> [i \in DOMAIN tx[s] |-> AsPart(tx[s][i])]],
    up <- broker = "up"

\* The broker and its clients provide the service of PubSub: every step of a
\* thread, a client or the kernel is a publication, the delivery of the next
\* part that is due, the end of the service, or nothing at all.
ProvidesService == Service!Spec

-----------------------------------------------------------------------------
(* Liveness.                                                               *)

Follows(s, p) == Sus[s] = Name[p] /\ Registered(p) /\ Registered(s)

\* A client that has sent its two lines is registered in the end, whoever
\* holds sem_mutex meanwhile (lines 189-249).
EventuallyRegistered ==
  \A c \in Clients :
    cpc[c] = "running" ~> Registered(c) \/ cpc[c] = "gone" \/ broker # "up"

\* Comment of line 306: the loop "permite el constante envio de mensajes a los
\* suscriptores".  A line that waits in the socket of a registered publisher
\* is picked up if some registered client is subscribed to it.
ConstantForwarding ==
  \A p \in Publishers, s \in Subscribers :
    Follows(s, p) /\ rx[p] # <<>>
      ~> rx[p] = <<>> \/ broker # "up"

\* The wanted topics of message n have been printed by subscriber s.
Printed(s, n) ==
  Wanted[s] \subseteq
    {tx[s][j].topic : j \in {j \in 1 .. shown[s] : tx[s][j].token.line.seq = n}}

\* End to end: the oldest message that waits in the socket of a registered
\* publisher is printed, with all wanted topics, by its registered subscriber,
\* unless the subscriber or the broker ends (lines 127-177, sub_client.c 55-62).
HeadIsPrinted ==
  \A p \in Publishers, s \in Subscribers, n \in 1 .. MaxMsgs :
    Follows(s, p) /\ rx[p] # <<>> /\ rx[p][1] = DataLine(p, n)
      ~> Printed(s, n) \/ cpc[s] = "gone" \/ broker # "up"

\* No client outlives a dead broker: a publisher runs into SIGPIPE within two
\* writes, a subscriber sees the end of file (Rio_writen, Rio_readlineb).
ClientsFollow ==
  broker # "up" ~> \A c \in Clients : cpc[c] \in {"idle", "gone"}

=============================================================================
