--------------------------- MODULE ForwarderProofs --------------------------
(***************************************************************************)
(* What the threads and the sockets hold as long as the broker has         *)
(* accepted at most two clients: one thread forwards at a time and nobody  *)
(* registers meanwhile, so neither strtok's static pointer nor the lists   *)
(* are shared.  For any topics, subscriptions, names and bounds.           *)
(***************************************************************************)
EXTENDS MQTTProofs, SequenceTheorems

\* Accept has been called at most twice.
Few ==
  \A c, d, e \in Clients :
    pc[c] # "none" /\ pc[d] # "none" /\ pc[e] # "none" => c = d \/ d = e \/ c = e

Live == broker = "up" /\ Few

-----------------------------------------------------------------------------
(* One thread at a time.                                                   *)

\* A registration that has hit sem_control never comes to its end.
BadInv ==
  broker = "up" /\ control = BAD =>
    \E u \in Clients : pc[u] \in Registering \ {"unlock"}

\* While a thread forwards, the other one is done with its registration and
\* does not forward.
Solo ==
  \A t \in Clients : pc[t] \in Forwarding =>
    /\ fd_idx = 2 /\ control # BAD
    /\ \A u \in Clients \ {t} : pc[u] \in {"none", "unlock", "wait"}

\* A move that does not leave the registration before its end.
LEMMA MoveBad ==
  ASSUME TypeOK, BadInv, NEW t \in Clients, NEW from, NEW to, Goes(t, from, to),
         control' = control,
         from \in Registering \ {"unlock"} => to \in Registering \ {"unlock"}
  PROVE  BadInv'
BY DEF BadInv, Goes, TypeOK

\* Every step of a thread keeps it.
LEMMA ThreadBad ==
  ASSUME TypeOK, BadInv, NEW t \in Clients, Thread(t)
  PROVE  BadInv'
<1> USE DEF shared, locals, net, Registering
<1>1. CASE Lock(t)
  BY <1>1 DEF Lock, Goes, TypeOK, BadInv
<1>2. CASE ReadName(t) \/ ReadSus(t)
  BY <1>2, MoveBad DEF ReadName, ReadSus
<1>3. CASE StoreNone(t) \/ SplitSus(t) \/ StoreSus(t)
  BY <1>3, MoveBad DEF StoreNone, SplitSus, StoreSus, StrtokFirst, StrtokEnd
<1>4. CASE UpdateSus(t) \/ CopyTopic(t) \/ OverrunStore(t) \/ OverrunDone(t)
  BY <1>4, MoveBad DEF UpdateSus, AfterUpdate, CopyTopic, OverrunStore, OverrunDone
<1>5. CASE Finish(t)
  BY <1>5 DEF Finish, Goes, TypeOK, BadInv, BAD
<1>6. CASE Unlock(t)
  BY <1>6, MoveBad DEF Unlock
<1>7. CASE StrtokLoad(t) \/ StrtokStore(t)
  BY <1>7, MoveBad DEF StrtokLoad, StrtokStore
<1>8. CASE WaitControl(t)
  BY <1>8 DEF WaitControl, Goes, TypeOK, BadInv, BAD
<1>9. CASE ScanPast(t) \/ ScanRow(t) \/ Lookup(t) \/ Read(t) \/ ReadNothing(t)
  BY <1>9, MoveBad DEF ScanPast, ScanRow, Lookup, Read, ReadNothing, NextRow
<1>10. CASE SplitMsg(t) \/ SplitEnd(t) \/ WriteTopic(t) \/ WriteDone(t)
  BY <1>10, MoveBad DEF SplitMsg, SplitEnd, WriteTopic, WriteDone, NextRow, StrtokFirst, StrtokEnd
<1>11. CASE \/ HandshakeEOF(t) \/ UpdateSusFault(t) \/ ControlFault(t) \/ LookupFault(t)
            \/ ReadError(t) \/ WriteFault(t)
  BY <1>11 DEF HandshakeEOF, UpdateSusFault, ControlFault, LookupFault, ReadError,
     WriteFault, Dies, BadInv
<1> QED BY <1>1, <1>2, <1>3, <1>4, <1>5, <1>6, <1>7, <1>8, <1>9, <1>10, <1>11
        DEF Thread, Register, Strtok, Forward

\* The steps of the clients leave the broker alone.
LEMMA ClientFrame ==
  ASSUME NEW c \in Clients, Client(c) \/ Exit(c)
  PROVE  UNCHANGED <<broker, closed, shared, pc, locals>>
BY DEF Client, Connect, SendName, SendSus, HandshakeBroken, Publish, PublishLost,
   PublishBroken, Show, SubEOF, Exit, ClientGoes

\* All that is known of the system for any number of clients.
Base == Inv /\ RowInv /\ ControlBalance /\ BadInv

\* It is known in every state.
LEMMA BaseHolds == Spec => []Base
<1>1. Init => BadInv
  BY DEF Init, BrokerInit, BadInv, BAD
<1>2. TypeOK /\ BadInv /\ [Next]_vars => BadInv'
  <2> SUFFICES ASSUME TypeOK, BadInv, [Next]_vars
               PROVE  BadInv'
    OBVIOUS
  <2>1. CASE SigClose \/ SigExit
    BY <2>1 DEF SigClose, SigExit, shared, BadInv
  <2>2. ASSUME NEW t \in Clients, Accept(t) PROVE BadInv'
    BY <2>2, MoveBad DEF Accept, Registering
  <2>3. ASSUME NEW t \in Clients, Thread(t) PROVE BadInv'
    BY <2>3, ThreadBad
  <2>4. ASSUME NEW c \in Clients, Client(c) \/ Exit(c) PROVE BadInv'
    BY <2>4, ClientFrame DEF shared, BadInv
  <2>5. CASE UNCHANGED vars
    BY <2>5 DEF vars, brokerVars, shared, BadInv
  <2> QED BY <2>1, <2>2, <2>3, <2>4, <2>5 DEF Next, BrokerNext
<1>3. Spec => []BadInv
  BY <1>1, <1>2, TypeCorrect, PTL DEF Spec
<1> QED BY <1>3, InvHolds, RowsHold, OneThreadStaysOut, PTL DEF Base

\* A thread that is started stays.
LEMMA LiveBefore ==
  ASSUME Inv, [Next]_vars
  PROVE  /\ broker' = "up" => broker = "up"
         /\ Few' => Few
<1>1. broker' = "up" => broker = "up"
  <2>1. CASE SigClose \/ SigExit
    BY <2>1 DEF SigClose, SigExit
  <2>2. ASSUME NEW t \in Clients, Accept(t) PROVE broker = "up"
    BY <2>2 DEF Accept, Goes
  <2>3. ASSUME NEW t \in Clients, Thread(t) PROVE broker = "up"
    BY <2>3 DEF Thread, Register, Strtok, Forward, Goes, Dies, Lock, ReadName, ReadSus,
       HandshakeEOF, StoreNone, SplitSus, StoreSus, UpdateSus, UpdateSusFault, CopyTopic,
       OverrunStore, OverrunDone, Finish, Unlock, ControlFault, StrtokLoad, StrtokStore,
       WaitControl, ScanPast, ScanRow, Lookup, LookupFault, Read, ReadNothing, ReadError,
       SplitMsg, SplitEnd, WriteTopic,
       WriteFault, WriteDone
  <2>4. ASSUME NEW c \in Clients, Client(c) \/ Exit(c) PROVE UNCHANGED broker
    BY <2>4, ClientFrame
  <2>5. CASE UNCHANGED vars
    BY <2>5 DEF vars, brokerVars
  <2> QED BY <2>1, <2>2, <2>3, <2>4, <2>5 DEF Next, BrokerNext
<1>2. \A c \in Clients : pc[c] # "none" => pc'[c] # "none"
  <2>1. CASE SigClose \/ SigExit
    BY <2>1 DEF SigClose, SigExit
  <2>2. ASSUME NEW t \in Clients, Accept(t) PROVE <1>2
    BY <2>2 DEF Accept, Goes, Inv, TypeOK
  <2>3. ASSUME NEW t \in Clients, Thread(t)
        PROVE  \/ UNCHANGED pc
               \/ \E to \in (Registering \cup Forwarding \cup {"wait"}) :
                    pc' = [pc EXCEPT ![t] = to]
    <3> USE DEF Registering, Forwarding, Goes
    <3>1. CASE Register(t)
      <4>1. CASE UpdateSus(t)
        BY <4>1 DEF UpdateSus, AfterUpdate
      <4>2. CASE CopyTopic(t)
        BY <4>2 DEF CopyTopic
      <4> QED BY <3>1, <4>1, <4>2 DEF Register, Lock, ReadName, ReadSus, HandshakeEOF, StoreNone,
         SplitSus, StoreSus, UpdateSusFault, OverrunStore, OverrunDone, Finish, Unlock,
         ControlFault, Dies
    <3>2. CASE Strtok(t) \/ Forward(t)
      BY <3>2 DEF Strtok, Forward, StrtokLoad, StrtokStore, WaitControl, ScanPast, ScanRow,
         Lookup, LookupFault, Read, ReadNothing, ReadError, SplitMsg, SplitEnd, WriteTopic,
         WriteFault, WriteDone, Dies
    <3> QED BY <2>3, <3>1, <3>2 DEF Thread
  <2>4. ASSUME NEW c \in Clients, Client(c) \/ Exit(c) PROVE UNCHANGED pc
    BY <2>4, ClientFrame
  <2>5. CASE UNCHANGED vars
    BY <2>5 DEF vars, brokerVars
  <2> QED BY <2>1, <2>2, <2>3, <2>4, <2>5 DEF Next, BrokerNext, Inv, TypeOK, Registering,
  Forwarding
<1>3. Few' => Few
  BY <1>2 DEF Few
<1> QED BY <1>1, <1>3

\* Two members make a cardinality of two.
LEMMA TwoMembers ==
  ASSUME NEW S, IsFiniteSet(S), NEW t \in S, NEW u \in S, t # u
  PROVE  Cardinality(S) \in Nat /\ Cardinality(S) >= 2
<1>1. IsFiniteSet({t}) /\ Cardinality({t}) = 1
  BY FS_Singleton
<1>2. u \notin {t} /\ {t} \cup {u} \in SUBSET S
  OBVIOUS
<1>3. Cardinality({t} \cup {u}) = 1 + 1
  BY <1>1, <1>2, FS_AddElement
<1>4. Cardinality({t} \cup {u}) <= Cardinality(S)
  BY <1>2, FS_Subset
<1>5. Cardinality(S) \in Nat
  BY FS_CardinalityType
<1> QED BY <1>3, <1>4, <1>5

\* With two clients, a forwarder is alone.
LEMMA Alone ==
  ASSUME Base, Live
  PROVE  Solo
<1> SUFFICES ASSUME NEW t \in Clients, pc[t] \in Forwarding
             PROVE  Solo!(t)!2
  BY DEF Solo
<1> USE ConstantTypes DEF Base, Inv, TypeOK, Live
<1>1. RowParts
  BY DEF RowInv
<1>2. fd_idx \in Nat /\ fd_idx >= 2 /\ fd_idx \in Slots
  BY <1>1 DEF RowParts, TwoClients
<1>3. \A i \in 0 .. fd_idx - 1 : i \in Slots /\ i < fd_idx
  BY <1>2 DEF Slots
<1>4. \A i \in 0 .. fd_idx - 1 :
        /\ client_fd_list[i] \in Clients /\ pc[client_fd_list[i]] \in Past
        /\ pc[client_fd_list[i]] # "none"
        /\ \A k \in 0 .. i - 1 : client_fd_list[k] # client_fd_list[i]
  BY <1>1, <1>3 DEF RowParts, CountedRows, Past, Forwarding
<1> DEFINE a == client_fd_list[0]
           b == client_fd_list[1]
<1>5. a \in Clients /\ b \in Clients /\ a # b /\ pc[a] \in Past /\ pc[b] \in Past
      /\ pc[a] # "none" /\ pc[b] # "none"
  <2>1. 0 \in 0 .. fd_idx - 1 /\ 1 \in 0 .. fd_idx - 1 /\ 0 \in 0 .. 1 - 1
    BY <1>2
  <2> QED BY <1>4, <2>1
<1>6. fd_idx = 2
  <2> SUFFICES ASSUME fd_idx > 2 PROVE FALSE
    BY <1>2
  <2>1. /\ client_fd_list[2] \in Clients /\ pc[client_fd_list[2]] # "none"
        /\ client_fd_list[2] # a /\ client_fd_list[2] # b
    BY <1>2, <1>4
  <2> QED BY <1>5, <2>1 DEF Few
<1>7. \A u \in Clients : pc[u] # "none" => u = a \/ u = b
  BY <1>5 DEF Few
<1>8. \A u \in Clients : pc[u] # "none" => pc[u] \in Past
  BY <1>5, <1>7
<1>9. control # BAD
  BY <1>8 DEF BadInv, Registering, Past, Forwarding
<1>10. \A u \in Clients \ {t} : pc[u] \notin Forwarding
  <2> SUFFICES ASSUME NEW u \in Clients \ {t}, pc[u] \in Forwarding PROVE FALSE
    OBVIOUS
  <2>1. control + Cardinality(Forwarders) = 1 /\ control \in Nat
    BY <1>6, <1>9 DEF ControlBalance, Forwarders
  <2>2. t \in Forwarders /\ u \in Forwarders /\ t # u
    BY DEF Forwarders
  <2>3. Cardinality(Forwarders) \in Nat /\ Cardinality(Forwarders) >= 2
    BY <2>2, ForwardersFinite, TwoMembers
  <2>4. \A m, n \in Nat : m >= 2 => n + m # 1
    OBVIOUS
  <2> QED BY <2>1, <2>3, <2>4
<1>11. \A u \in Clients \ {t} : pc[u] \in {"none", "unlock", "wait"}
  BY <1>8, <1>10 DEF Past
<1> QED BY <1>6, <1>9, <1>11

-----------------------------------------------------------------------------
(* What the threads know.                                                  *)

\* The first n tokens of a line.
Fields(line, n) == [k \in 1 .. n |-> [line |-> line, field |-> k]]

\* split() cuts the line of its own thread.
SplitOf(t) ==
  /\ pc[t] \in {"regLoad", "fwdLoad"} => olds = [line |-> buf[t], k |-> Len(argv[t])]
  /\ pc[t] \in {"regStore", "fwdStore"} => cur[t] = [line |-> buf[t], k |-> Len(argv[t])]
  /\ pc[t] \notin {"regStore", "fwdStore"} => cur[t] = NULL
  /\ pc[t] \in Splitting =>
       /\ Len(argv[t]) \in 1 .. TokensIn(buf[t])
       /\ argv[t] = Fields(buf[t], Len(argv[t]))
       /\ \A x \in nuls : x.line = buf[t] => x.k <= Len(argv[t])
  /\ pc[t] \in {"update", "write"} => argv[t] = Fields(buf[t], TokensIn(buf[t]))

SplitInv == \A t \in Clients : SplitOf(t)

\* The row of topics of a registered subscriber is what it wants.
TopicInv ==
  /\ \A i \in Slots : i < fd_idx /\ Sus[client_fd_list[i]] # NONE =>
       topic_list[i] = Wanted[client_fd_list[i]]
  /\ \A i \in Slots :
       i > fd_idx \/ (i = fd_idx /\ \A t \in Clients : pc[t] \notin {"copy", "finish"}) =>
         topic_list[i] = Topics
  /\ \A t \in Clients : pc[t] = "copy" =>
       want[t] = Wanted[t] /\ want[t] \subseteq topic_list[fd_idx]
  /\ \A t \in Clients : pc[t] = "finish" /\ Sus[t] # NONE => topic_list[fd_idx] = Wanted[t]

\* Where a thread has stored the name of its client in the open row.
Named == Registering \ {"name", "sus", "unlock"}

\* Behind the counted rows there is no name, but that of the open row.
NameInv ==
  control # BAD =>
    \A i \in Slots :
      i > fd_idx \/ (i = fd_idx /\ \A t \in Clients : pc[t] \notin Named) =>
        \/ client_name_list[i] = NULL
        \/ (i = LIMIT_CONN_CLIENTS /\ client_name_list[i] = THREAD_ID)

Serving == {"read", "split", "fwdLoad", "fwdStore", "write"}

\* The client of the row a forwarder is at.
RowClient(t) == client_fd_list[row[t]]

\* A forwarder works for the subscriber of its row.
ServeOf(t) ==
  /\ pc[t] \in Serving \cup {"lookup"} => row[t] < fd_idx /\ Sus[RowClient(t)] # NONE
  /\ pc[t] \in (Serving \ {"write"}) \cup {"lookup"} => want[t] = Wanted[RowClient(t)]
  /\ pc[t] = "write" => want[t] \subseteq Wanted[RowClient(t)]
  /\ pc[t] \in Serving =>
       /\ fd_pub[t] # STDIN => Name[fd_pub[t]] = Sus[RowClient(t)] /\ pc[fd_pub[t]] \in Past
       /\ fd_sus[t] # STDIN => Name[fd_sus[t]] = Name[RowClient(t)] /\ pc[fd_sus[t]] \in Past

ServeInv == \A t \in Clients : ServeOf(t)

ThreadParts == SplitInv /\ TopicInv /\ NameInv /\ ServeInv

-----------------------------------------------------------------------------
(* What a step of a thread leaves alone.                                   *)

\* A thread moves alone, works on its own locals and never goes back to its
\* registration.
LEMMA ThreadFrame ==
  ASSUME TypeOK, NEW t \in Clients, Thread(t), broker' = "up"
  PROVE  /\ \A u \in Clients \ {t} :
              /\ pc'[u] = pc[u] /\ rio'[u] = rio[u] /\ row'[u] = row[u]
              /\ want'[u] = want[u] /\ fd_pub'[u] = fd_pub[u] /\ fd_sus'[u] = fd_sus[u]
              /\ buf'[u] = buf[u] /\ argv'[u] = argv[u] /\ cur'[u] = cur[u]
         /\ pc[t] # "none" /\ (pc[t] \in Past => pc'[t] \in Past)
         /\ pc[t] \in Past => UNCHANGED <<fd_idx, client_fd_list, client_name_list,
                                         client_sus_list, topic_list>>
<1> USE DEF TypeOK, Goes, Past, Forwarding, shared, locals
<1>1. CASE Register(t)
  <2>1. CASE Lock(t) \/ ReadName(t)
    BY <2>1 DEF Lock, ReadName
  <2>a. CASE ReadSus(t)
    BY <2>a DEF ReadSus
  <2>b. CASE StoreNone(t)
    BY <2>b DEF StoreNone
  <2>2. CASE SplitSus(t) \/ StoreSus(t)
    BY <2>2 DEF SplitSus, StoreSus, StrtokFirst, StrtokEnd
  <2>3. CASE UpdateSus(t) \/ CopyTopic(t) \/ OverrunStore(t) \/ OverrunDone(t)
    BY <2>3 DEF UpdateSus, CopyTopic, OverrunStore, OverrunDone
  <2>4. CASE Finish(t) \/ Unlock(t)
    BY <2>4 DEF Finish, Unlock
  <2> QED BY <1>1, <2>1, <2>a, <2>b, <2>2, <2>3, <2>4
          DEF Register, HandshakeEOF, UpdateSusFault, ControlFault, Dies
<1>2. CASE Strtok(t)
  BY <1>2 DEF Strtok, StrtokLoad, StrtokStore
<1>3. CASE Forward(t)
  <2>1. CASE WaitControl(t) \/ ScanPast(t) \/ ScanRow(t) \/ Lookup(t)
    BY <2>1 DEF WaitControl, ScanPast, ScanRow, Lookup
  <2>2. CASE Read(t) \/ ReadNothing(t) \/ WriteDone(t)
    BY <2>2 DEF Read, ReadNothing, WriteDone, NextRow
  <2>3. CASE SplitMsg(t) \/ SplitEnd(t)
    BY <2>3 DEF SplitMsg, SplitEnd, StrtokFirst, StrtokEnd
  <2>4. CASE WriteTopic(t)
    BY <2>4 DEF WriteTopic
  <2> QED BY <1>3, <2>1, <2>2, <2>3, <2>4
          DEF Forward, LookupFault, ReadError, WriteFault, Dies
<1> QED BY <1>1, <1>2, <1>3 DEF Thread

\* strtok is called by one thread at a time.
LEMMA OneSplitter ==
  ASSUME Inv, Solo, NEW t \in Clients, NEW u \in Clients,
         pc[t] \in Splitting \cup {"reg", "split"}, pc[u] \in Splitting \cup {"reg", "split"}
  PROVE  t = u
BY DEF Inv, MutexInv, MutualExclusion, Solo, Splitting, Registering, Forwarding

-----------------------------------------------------------------------------
(* split() without company.                                                *)

\* Cutting off one more token.
LEMMA FieldsGrow ==
  ASSUME NEW line \in Line, NEW n \in Nat
  PROVE  /\ Len(Fields(line, n)) = n
         /\ Append(Fields(line, n), [line |-> line, field |-> n + 1]) = Fields(line, n + 1)
         /\ <<[line |-> line, field |-> 1]>> = Fields(line, 1)
<1>1. Fields(line, n) \in Seq(Token) /\ Len(Fields(line, n)) = n
  BY DEF Fields, Token
<1>2. [line |-> line, field |-> n + 1] \in Token
  BY DEF Token
<1>3. Append(Fields(line, n), [line |-> line, field |-> n + 1]) = Fields(line, n + 1)
  <2> DEFINE a == Append(Fields(line, n), [line |-> line, field |-> n + 1])
             b == Fields(line, n + 1)
  <2>1. a \in Seq(Token) /\ Len(a) = n + 1
    BY <1>1, <1>2
  <2>2. b \in Seq(Token) /\ Len(b) = n + 1
    BY DEF Fields, Token
  <2>3. \A k \in 1 .. n + 1 : a[k] = b[k]
    BY <1>1, <1>2 DEF Fields
  <2> QED BY <2>1, <2>2, <2>3, SeqEqual
<1>4. <<[line |-> line, field |-> 1]>> = Fields(line, 1)
  BY DEF Fields
<1> QED BY <1>1, <1>3, <1>4

\* A line has a token, and no more than argv keeps.
LEMMA TokensInRange ==
  ASSUME NEW t \in Clients, buf[t] \in Line
  PROVE  TokensIn(buf[t]) \in Nat /\ TokensIn(buf[t]) \in 1 .. ArgvRead(t)
BY LimitAssumption DEF TokensIn, ArgvRead, Line

\* The calls of strtok.
LEMMA SplitCalls ==
  ASSUME Inv, Solo, SplitInv, NEW t \in Clients,
         SplitSus(t) \/ SplitMsg(t) \/ Strtok(t) \/ StoreSus(t) \/ SplitEnd(t)
  PROVE  SplitOf(t)'
<1> USE DEF Goes
<1>2. /\ \A to : pc' = [pc EXCEPT ![t] = to] => pc'[t] = to
      /\ \A v : argv' = [argv EXCEPT ![t] = v] => argv'[t] = v
      /\ \A v : cur' = [cur EXCEPT ![t] = v] => cur'[t] = v
      /\ argv[t] \in Seq(Token)
  BY DEF Inv, TypeOK
<1>3. buf' = buf /\ buf[t] \in Line /\ SplitOf(t)
  BY DEF Inv, Shape, SplitInv, SplitSus, SplitMsg, Strtok, StrtokLoad, StrtokStore, StoreSus,
     SplitEnd, StrtokFirst, StrtokEnd
<1>4. TokensIn(buf[t]) \in Nat /\ TokensIn(buf[t]) \in 1 .. ArgvRead(t)
      /\ ArgvRead(t) \in Nat
  BY <1>3, TokensInRange, LimitAssumption DEF ArgvRead
<1>5. CASE SplitSus(t) \/ SplitMsg(t)
  <2>1. /\ olds' = [line |-> buf[t], k |-> 1] /\ argv'[t] = Fields(buf[t], 1)
        /\ pc'[t] \in {"regLoad", "fwdLoad"}
    BY <1>2, <1>3, <1>5, FieldsGrow DEF SplitSus, SplitMsg, StrtokFirst
  <2>2. Len(argv'[t]) = 1
    BY <1>3, <2>1, FieldsGrow
  <2>3. 1 \in 1 .. TokensIn(buf[t])
    BY <1>4
  <2>4. \A u \in Clients : cur[u] = NULL
    <3>1. pc[t] \in {"reg", "split"}
      BY <1>5 DEF SplitSus, SplitMsg
    <3>2. \A u \in Clients : pc[u] \notin {"regStore", "fwdStore"}
      BY <3>1, OneSplitter DEF Splitting
    <3> QED BY <3>2 DEF SplitInv, SplitOf
  <2>5. nuls' = {[line |-> buf[t], k |-> 1]} /\ cur' = cur
    BY <1>5, <2>4 DEF SplitSus, SplitMsg, StrtokFirst
  <2>6. cur'[t] = NULL /\ pc'[t] \notin {"regStore", "fwdStore", "update", "write"}
    BY <2>1, <2>4, <2>5
  <2>7. \A x \in nuls' : x.k <= 1
    BY <2>5
  <2> HIDE DEF Goes
  <2> QED BY <1>3, <2>1, <2>2, <2>3, <2>6, <2>7 DEF SplitOf, Splitting
<1>6. CASE StrtokLoad(t)
  <2>1. /\ argv' = argv /\ cur'[t] = olds /\ nuls' = nuls
        /\ pc[t] \in {"regLoad", "fwdLoad"} /\ pc'[t] \in {"regStore", "fwdStore"}
    BY <1>2, <1>6 DEF StrtokLoad, shared
  <2> QED BY <1>3, <2>1 DEF SplitOf, Splitting
<1>7. ASSUME pc[t] \in {"regStore", "fwdStore"}
      PROVE  /\ cur[t].line = buf[t] /\ cur[t].k = Len(argv[t])
             /\ Len(argv[t]) \in 1 .. TokensIn(buf[t])
             /\ argv[t] = Fields(buf[t], Len(argv[t]))
             /\ \A x \in nuls : x.line = buf[t] => x.k <= Len(argv[t])
  BY <1>3, <1>7 DEF SplitOf, Splitting
<1>8. CASE StrtokStore(t)
  <2> DEFINE n == Len(argv[t])
  <2>1. /\ pc[t] \in {"regStore", "fwdStore"} /\ pc'[t] \in {"regLoad", "fwdLoad"}
        /\ ~AtEnd(t)
    BY <1>2, <1>8 DEF StrtokStore
  <2>2. n \in Nat /\ n < TokensIn(buf[t]) /\ n < ArgvRead(t)
    BY <1>2, <1>4, <1>7, <2>1 DEF AtEnd
  <2>a. SameKind(t) /\ ~EndsAtNul(t)
    <3>1. [line |-> buf[t], k |-> n + 1] \notin nuls
      BY <1>7, <2>1, <2>2
    <3> QED BY <1>7, <2>1, <3>1 DEF SameKind, EndsAtNul
  <2>3. NextK(t) = n + 1 /\ NextField(t) = n + 1
    BY <1>7, <2>1, <2>a DEF NextK, NextField
  <2>8. nuls' = nuls \cup {[line |-> buf[t], k |-> n + 1]} /\ cur'[t] = NULL
    BY <1>2, <1>7, <1>8, <2>1, <2>a DEF StrtokStore
  <2>9. \A x \in nuls' : x.line = buf[t] => x.k <= n + 1
    <3>1. nuls \subseteq Cursor
      BY DEF Inv, TypeOK
    <3> QED BY <1>7, <2>1, <2>2, <2>8, <3>1 DEF Cursor
  <2>4. olds' = [line |-> buf[t], k |-> n + 1]
    BY <1>7, <1>8, <2>1, <2>3 DEF StrtokStore
  <2>5. argv'[t] = Append(argv[t], [line |-> buf[t], field |-> n + 1])
    BY <1>2, <1>7, <1>8, <2>1, <2>2, <2>3 DEF StrtokStore
  <2>6. argv'[t] = Fields(buf[t], n + 1) /\ Len(argv'[t]) = n + 1
    <3>1. argv[t] = Fields(buf[t], n)
      BY <1>7, <2>1
    <3>2. /\ Append(Fields(buf[t], n), [line |-> buf[t], field |-> n + 1])
               = Fields(buf[t], n + 1)
          /\ Len(Fields(buf[t], n + 1)) = n + 1
      <4> HIDE DEF n
      <4> QED BY <1>3, <2>2, FieldsGrow
    <3> QED BY <2>5, <3>1, <3>2
  <2>7. n + 1 \in 1 .. TokensIn(buf[t])
    BY <1>4, <2>2
  <2> QED BY <1>3, <2>1, <2>4, <2>6, <2>7, <2>8, <2>9 DEF SplitOf, Splitting
<1>9. CASE StoreSus(t) \/ SplitEnd(t)
  <2>1. /\ argv' = argv /\ AtEnd(t)
        /\ pc[t] \in {"regStore", "fwdStore"} /\ pc'[t] \in {"update", "write"}
        /\ cur'[t] = NULL
    BY <1>2, <1>9 DEF StoreSus, SplitEnd, StrtokEnd
  <2>2. Len(argv[t]) = TokensIn(buf[t])
    BY <1>4, <1>7, <2>1 DEF AtEnd
  <2> QED BY <1>3, <1>7, <2>1, <2>2 DEF SplitOf, Splitting
<1> QED BY <1>5, <1>6, <1>8, <1>9 DEF Strtok

\* Every step of a thread keeps the lines apart.
LEMMA ThreadSplit ==
  ASSUME Inv, Solo, SplitInv, NEW t \in Clients, Thread(t), broker' = "up"
  PROVE  SplitInv'
<1>1. TypeOK
  BY DEF Inv
<1>2. (olds' = olds /\ nuls' = nuls) \/ pc[t] \in {"reg", "split", "regStore", "fwdStore"}
  <2> USE DEF shared, Goes
  <2>1. CASE Register(t)
    BY <2>1 DEF Register, Lock, ReadName, ReadSus, HandshakeEOF, StoreNone, SplitSus,
       StoreSus, UpdateSus, UpdateSusFault, CopyTopic, OverrunStore, OverrunDone, Finish,
       Unlock, ControlFault, Dies
  <2>2. CASE Strtok(t)
    BY <2>2 DEF Strtok, StrtokLoad, StrtokStore
  <2>3. CASE Forward(t)
    BY <2>3 DEF Forward, WaitControl, ScanPast, ScanRow, Lookup, LookupFault, Read,
       ReadNothing, ReadError, SplitMsg, SplitEnd, WriteTopic, WriteFault, WriteDone,
       NextRow, Dies
  <2> QED BY <2>1, <2>2, <2>3 DEF Thread
<1>3. \A u \in Clients \ {t} : SplitOf(u)'
  <2> SUFFICES ASSUME NEW u \in Clients \ {t} PROVE SplitOf(u)'
    OBVIOUS
  <2>1. pc'[u] = pc[u] /\ buf'[u] = buf[u] /\ argv'[u] = argv[u] /\ cur'[u] = cur[u]
    BY <1>1, ThreadFrame
  <2>2. pc[u] \in Splitting => olds' = olds /\ nuls' = nuls
    BY <1>2, OneSplitter DEF Splitting
  <2>3. SplitOf(u)
    BY DEF SplitInv
  <2> QED BY <2>1, <2>2, <2>3 DEF SplitOf, Splitting
<1>4. SplitOf(t)'
  <2>1. CASE SplitSus(t) \/ SplitMsg(t) \/ Strtok(t) \/ StoreSus(t) \/ SplitEnd(t)
    BY <2>1, SplitCalls
  <2>2. CASE WriteTopic(t)
    <3>1. pc' = pc /\ buf' = buf /\ argv' = argv /\ cur' = cur /\ olds' = olds /\ nuls' = nuls
      BY <1>1, <2>2 DEF WriteTopic, Goes, TypeOK, shared
    <3>2. SplitOf(t)
      BY DEF SplitInv
    <3> QED BY <3>1, <3>2 DEF SplitOf
  <2>3. CASE \/ Lock(t) \/ ReadName(t) \/ ReadSus(t) \/ StoreNone(t) \/ UpdateSus(t)
             \/ CopyTopic(t) \/ OverrunStore(t) \/ OverrunDone(t) \/ Finish(t) \/ Unlock(t)
             \/ WaitControl(t) \/ ScanPast(t) \/ ScanRow(t) \/ Lookup(t) \/ Read(t)
             \/ ReadNothing(t) \/ WriteDone(t)
    <3>1. pc'[t] \notin Splitting \cup {"update", "write"}
      <4> USE DEF Goes, Splitting, TypeOK
      <4>1. CASE \/ Lock(t) \/ ReadName(t) \/ ReadSus(t) \/ StoreNone(t) \/ Finish(t)
                 \/ Unlock(t) \/ WaitControl(t)
        BY <1>1, <4>1 DEF Lock, ReadName, ReadSus, StoreNone, Finish, Unlock, WaitControl
      <4>2. CASE UpdateSus(t) \/ CopyTopic(t) \/ OverrunStore(t) \/ OverrunDone(t)
        BY <1>1, <4>2 DEF UpdateSus, AfterUpdate, CopyTopic, OverrunStore, OverrunDone
      <4>3. CASE \/ ScanPast(t) \/ ScanRow(t) \/ Lookup(t) \/ Read(t) \/ ReadNothing(t)
                 \/ WriteDone(t)
        BY <1>1, <4>3 DEF ScanPast, ScanRow, Lookup, Read, ReadNothing, WriteDone
      <4> QED BY <2>3, <4>1, <4>2, <4>3
    <3>2. pc[t] \notin {"regStore", "fwdStore"} /\ cur'[t] = cur[t]
      <4> USE DEF Goes, locals
      <4>1. CASE \/ Lock(t) \/ ReadName(t) \/ ReadSus(t) \/ StoreNone(t) \/ Finish(t)
                 \/ Unlock(t) \/ WaitControl(t)
        BY <4>1 DEF Lock, ReadName, ReadSus, StoreNone, Finish, Unlock, WaitControl
      <4>2. CASE UpdateSus(t) \/ CopyTopic(t) \/ OverrunStore(t) \/ OverrunDone(t)
        BY <4>2 DEF UpdateSus, CopyTopic, OverrunStore, OverrunDone
      <4>3. CASE \/ ScanPast(t) \/ ScanRow(t) \/ Lookup(t) \/ Read(t) \/ ReadNothing(t)
                 \/ WriteDone(t)
        BY <4>3 DEF ScanPast, ScanRow, Lookup, Read, ReadNothing, WriteDone, NextRow
      <4> QED BY <2>3, <4>1, <4>2, <4>3
    <3>3. cur[t] = NULL
      BY <3>2 DEF SplitInv, SplitOf
    <3> QED BY <3>1, <3>2, <3>3 DEF SplitOf, Splitting
  <2>4. CASE \/ HandshakeEOF(t) \/ UpdateSusFault(t) \/ ControlFault(t) \/ LookupFault(t)
             \/ ReadError(t) \/ WriteFault(t)
    BY <2>4 DEF HandshakeEOF, UpdateSusFault, ControlFault, LookupFault, ReadError,
       WriteFault, Dies
  <2> QED BY <2>1, <2>2, <2>3, <2>4 DEF Thread, Register, Strtok, Forward
<1> QED BY <1>3, <1>4 DEF SplitInv

-----------------------------------------------------------------------------
(* The open row.                                                           *)

\* A move that has nothing to do with the row of topics.
LEMMA MoveTopic ==
  ASSUME TypeOK, TopicInv, NEW t \in Clients, NEW from, NEW to, Goes(t, from, to),
         UNCHANGED <<fd_idx, topic_list>>,
         \A i \in Slots : i < fd_idx => client_fd_list'[i] = client_fd_list[i],
         \A u \in Clients \ {t} : want'[u] = want[u],
         from \notin {"copy", "finish"}, to \notin {"copy", "finish"}
  PROVE  TopicInv'
<1>1. \A u \in Clients : pc'[u] \in {"copy", "finish"} => u # t /\ pc'[u] = pc[u]
  BY DEF Goes, TypeOK
<1>2. \A u \in Clients : pc[u] \in {"copy", "finish"} => pc'[u] = pc[u]
  BY DEF Goes, TypeOK
<1> QED BY <1>1, <1>2 DEF TopicInv

\* The subscription of the client, lines 216-238.
LEMMA StoreTopic ==
  ASSUME Inv, SplitInv, TopicInv, NEW t \in Clients,
         StoreNone(t) \/ UpdateSus(t) \/ CopyTopic(t) \/ OverrunStore(t) \/ OverrunDone(t)
  PROVE  TopicInv'
<1> USE DEF Inv, TypeOK, Goes
<1>1. UNCHANGED <<fd_idx, client_fd_list>> /\ pc[t] \in {"reg", "update", "copy"}
  BY DEF StoreNone, UpdateSus, CopyTopic, OverrunStore, OverrunDone, shared
<1>2. \A u \in Clients \ {t} : pc[u] \notin {"copy", "finish"} /\ pc'[u] = pc[u]
  BY <1>1 DEF MutexInv, MutualExclusion, Registering, StoreNone, UpdateSus, CopyTopic,
     OverrunStore, OverrunDone
<1>3. pc[t] # "copy" => topic_list[fd_idx] = Topics
  BY <1>1, <1>2 DEF TopicInv
<1>4. CASE StoreNone(t)
  BY <1>2, <1>4 DEF StoreNone, TopicInv
<1>5. CASE UpdateSus(t)
  <2>1. argv[t] = OwnTokens(t)
    BY <1>5 DEF UpdateSus, OwnTokens, SplitInv, SplitOf, Fields
  <2>2. pc'[t] = AfterUpdate(Wanted[t]) /\ want'[t] = Wanted[t] /\ topic_list' = topic_list
    BY <1>5, <2>1 DEF UpdateSus, shared
  <2>3. Wanted[t] \in SUBSET Topics /\ pc[t] = "update"
    BY <1>5, ConstantTypes DEF UpdateSus
  <2>4. CASE pc'[t] = "finish"
    <3>1. Wanted[t] = Topics
      BY <2>2, <2>4 DEF AfterUpdate
    <3> QED BY <1>1, <1>2, <1>3, <2>2, <2>3, <2>4, <3>1 DEF TopicInv
  <2>5. CASE pc'[t] = "copy"
    BY <1>1, <1>2, <1>3, <2>2, <2>3, <2>5 DEF TopicInv
  <2> QED BY <2>2, <2>4, <2>5 DEF AfterUpdate
<1>6. CASE CopyTopic(t) \/ OverrunStore(t) \/ OverrunDone(t)
  <2>1. PICK lost \in SUBSET (Topics \ want[t]) :
          /\ topic_list' = [topic_list EXCEPT ![fd_idx] = @ \ lost]
          /\ pc'[t] \in {"copy", "finish"}
          /\ pc'[t] = "finish" => topic_list[fd_idx] \ lost \subseteq want[t]
    <3>1. CASE CopyTopic(t)
      <4>1. PICK k \in topic_list[fd_idx] \ want[t] :
              /\ topic_list' = [topic_list EXCEPT ![fd_idx] = @ \ {k}]
              /\ pc'[t] = IF topic_list[fd_idx] \ {k} \subseteq want[t] THEN "finish" ELSE "copy"
        BY <3>1 DEF CopyTopic
      <4>2. {k} \in SUBSET (Topics \ want[t])
        OBVIOUS
      <4> QED BY <4>1, <4>2
    <3>2. CASE OverrunStore(t)
      <4>1. PICK k \in Topics : topic_list' = [topic_list EXCEPT ![fd_idx] = @ \ ({k} \ want[t])]
        BY <3>2 DEF OverrunStore
      <4>2. {k} \ want[t] \in SUBSET (Topics \ want[t]) /\ pc'[t] = "copy"
        BY <3>2 DEF OverrunStore
      <4> QED BY <4>1, <4>2
    <3>3. CASE OverrunDone(t)
      <4>1. /\ topic_list' = topic_list /\ pc'[t] = "finish"
            /\ topic_list[fd_idx] \subseteq want[t]
        BY <3>3 DEF OverrunDone, shared
      <4>2. topic_list' = [topic_list EXCEPT ![fd_idx] = @ \ {}]
        BY <4>1
      <4> QED BY <4>1, <4>2
    <3> QED BY <1>6, <3>1, <3>2, <3>3
  <2>2. /\ topic_list'[fd_idx] = topic_list[fd_idx] \ lost
        /\ \A i \in Slots : i # fd_idx => topic_list'[i] = topic_list[i]
        /\ want' = want /\ pc[t] = "copy"
    BY <1>6, <2>1 DEF CopyTopic, OverrunStore, OverrunDone, locals
  <2>3. want[t] = Wanted[t] /\ want[t] \subseteq topic_list[fd_idx] \ lost
    BY <2>1, <2>2 DEF TopicInv
  <2>4. pc'[t] = "finish" => topic_list[fd_idx] \ lost = Wanted[t]
    BY <2>1, <2>3
  <2>5. pc'[t] \in {"copy", "finish"}
    BY <2>1
  <2>6. \A i \in Slots : i < fd_idx \/ i > fd_idx => i # fd_idx
    BY DEF Slots
  <2>7. \A i \in Slots : i < fd_idx /\ Sus[client_fd_list'[i]] # NONE =>
          topic_list'[i] = Wanted[client_fd_list'[i]]
    BY <1>1, <2>2, <2>6 DEF TopicInv
  <2>8. \A i \in Slots : i > fd_idx => topic_list'[i] = Topics
    BY <2>2, <2>6 DEF TopicInv
  <2>9. /\ \A u \in Clients : pc'[u] = "copy" =>
             want'[u] = Wanted[u] /\ want'[u] \subseteq topic_list'[fd_idx]
        /\ \A u \in Clients : pc'[u] = "finish" => topic_list'[fd_idx] = Wanted[u]
        /\ ~\A u \in Clients : pc'[u] \notin {"copy", "finish"}
    BY <1>2, <2>2, <2>3, <2>4, <2>5
  <2> QED BY <1>1, <2>7, <2>8, <2>9 DEF TopicInv
<1> QED BY <1>4, <1>5, <1>6

\* Line 242 makes the row of topics one of a registered client.
LEMMA FinishTopic ==
  ASSUME Inv, RowInv, TopicInv, NEW t \in Clients, Finish(t)
  PROVE  TopicInv'
<1> USE ConstantTypes DEF Inv, TypeOK, Goes, Finish
<1>1. /\ fd_idx \in Nat /\ fd_idx' = fd_idx + 1 /\ topic_list' = topic_list
      /\ client_fd_list' = client_fd_list
  OBVIOUS
<1>2. \A u \in Clients : pc'[u] \notin {"copy", "finish"}
  BY DEF MutexInv, MutualExclusion, Registering
<1>3. client_fd_list[fd_idx] = t
  BY DEF RowInv, RowParts, OpenRow, Registering
<1>4. ASSUME NEW i \in Slots, i < fd_idx + 1, Sus[client_fd_list[i]] # NONE
      PROVE  topic_list[i] = Wanted[client_fd_list[i]]
  <2>1. i < fd_idx \/ i = fd_idx
    BY <1>1, <1>4 DEF Slots
  <2> QED BY <1>3, <1>4, <2>1 DEF TopicInv
<1>5. \A i \in Slots : i >= fd_idx + 1 => i > fd_idx
  BY <1>1 DEF Slots
<1>6. \A i \in Slots : i >= fd_idx + 1 => topic_list[i] = Topics
  BY <1>5 DEF TopicInv
<1>7. \A i \in Slots : i > fd_idx + 1 \/ i = fd_idx + 1 => i >= fd_idx + 1
  BY <1>1 DEF Slots
<1> QED BY <1>1, <1>2, <1>4, <1>6, <1>7 DEF TopicInv

\* A move that does not name a row.
LEMMA MoveName ==
  ASSUME TypeOK, NameInv, NEW t \in Clients, NEW from, NEW to, Goes(t, from, to),
         UNCHANGED <<fd_idx, client_name_list>>, from \in Named => to \in Named,
         control' # BAD => control # BAD
  PROVE  NameInv'
<1>1. \A u \in Clients : pc[u] \in Named => pc'[u] \in Named
  BY DEF Goes, TypeOK
<1> QED BY <1>1 DEF NameInv

\* Lines 207 and 242.
LEMMA StoreName ==
  ASSUME Inv, NameInv, NEW t \in Clients, ReadSus(t) \/ Finish(t)
  PROVE  NameInv'
<1> USE ConstantTypes DEF Inv, TypeOK, Goes
<1>1. fd_idx \in Nat /\ (control' # BAD => control # BAD)
  BY DEF ReadSus, Finish
<1>2. CASE ReadSus(t)
  <2>1. /\ fd_idx' = fd_idx /\ pc'[t] = "reg"
        /\ \A i \in Slots : i # fd_idx => client_name_list'[i] = client_name_list[i]
    BY <1>2 DEF ReadSus
  <2>2. \A i \in Slots : i > fd_idx => i # fd_idx
    BY <1>1 DEF Slots
  <2>3. pc'[t] \in Named
    BY <2>1 DEF Named, Registering
  <2> QED BY <1>1, <2>1, <2>2, <2>3 DEF NameInv
<1>3. CASE Finish(t)
  <2>1. fd_idx' = fd_idx + 1 /\ client_name_list' = client_name_list
    BY <1>3 DEF Finish
  <2>2. \A i \in Slots : i > fd_idx + 1 \/ i = fd_idx + 1 => i > fd_idx
    BY <1>1 DEF Slots
  <2> QED BY <1>1, <2>1, <2>2 DEF NameInv
<1> QED BY <1>2, <1>3

\* Every step of a thread keeps the open row and what is behind it.
LEMMA ThreadOpen ==
  ASSUME Inv, RowInv, SplitInv, TopicInv, NameInv, NEW t \in Clients, Thread(t), broker' = "up"
  PROVE  TopicInv' /\ NameInv'
<1> USE DEF shared, locals
<1>0. TypeOK /\ \A u \in Clients \ {t} : want'[u] = want[u]
  BY ThreadFrame DEF Inv
<1>1. NameInv'
  <2> USE DEF Named, Registering
  <2>1. CASE Lock(t) \/ ReadName(t) \/ StoreNone(t) \/ CopyTopic(t) \/ Unlock(t)
    BY <1>0, <2>1, MoveName DEF Lock, ReadName, StoreNone, CopyTopic, Unlock
  <2>5. CASE OverrunDone(t)
    BY <1>0, <2>5, MoveName DEF OverrunDone
  <2>6. CASE OverrunStore(t)
    <3>1. control' = BAD
      BY <2>6, LimitAssumption DEF OverrunStore, Goes, Inv, BoundInv
    <3> QED BY <3>1 DEF NameInv
  <2>2. CASE SplitSus(t) \/ StoreSus(t) \/ UpdateSus(t) \/ Strtok(t)
    BY <1>0, <2>2, MoveName DEF SplitSus, StoreSus, StrtokFirst, StrtokEnd, UpdateSus,
       AfterUpdate, Strtok, StrtokLoad, StrtokStore
  <2>3. CASE ReadSus(t) \/ Finish(t)
    BY <2>3, StoreName
  <2>7. CASE WaitControl(t)
    <3>1. control > 0 /\ control # BAD
      BY <1>0, <2>7 DEF WaitControl, TypeOK, BAD
    <3> QED BY <1>0, <2>7, <3>1, MoveName DEF WaitControl
  <2>4. CASE Forward(t) /\ ~WaitControl(t)
    BY <1>0, <2>4, MoveName DEF Forward, ScanPast, ScanRow, Lookup, LookupFault,
       Read, ReadNothing, ReadError, SplitMsg, SplitEnd, StrtokFirst, StrtokEnd, WriteTopic,
       WriteFault, WriteDone, NextRow, Dies
  <2> QED BY <2>1, <2>2, <2>3, <2>4, <2>5, <2>6, <2>7
          DEF Thread, Register, HandshakeEOF, UpdateSusFault, ControlFault, Dies
<1>2. TopicInv'
  <2>1. CASE Lock(t)
    <3>1. \A i \in Slots : i < fd_idx => client_fd_list'[i] = client_fd_list[i]
      <4>1. fd_idx \in Nat /\ \A i \in Slots : i < fd_idx => i # fd_idx
        BY <1>0, ConstantTypes DEF TypeOK, Slots
      <4>2. \A i \in Slots : i # fd_idx => client_fd_list'[i] = client_fd_list[i]
        BY <1>0, <2>1 DEF Lock, TypeOK
      <4> QED BY <4>1, <4>2
    <3> QED BY <1>0, <2>1, <3>1, MoveTopic DEF Lock
  <2>2. CASE ReadName(t) \/ ReadSus(t) \/ Unlock(t)
    BY <1>0, <2>2, MoveTopic DEF ReadName, ReadSus, Unlock
  <2>3. CASE SplitSus(t) \/ StoreSus(t) \/ Strtok(t)
    BY <1>0, <2>3, MoveTopic DEF SplitSus, StoreSus, StrtokFirst, StrtokEnd, Strtok,
       StrtokLoad, StrtokStore
  <2>4. CASE \/ StoreNone(t) \/ UpdateSus(t) \/ CopyTopic(t)
             \/ OverrunStore(t) \/ OverrunDone(t)
    BY <2>4, StoreTopic
  <2>5. CASE Finish(t)
    BY <2>5, FinishTopic
  <2>6. CASE Forward(t)
    <3>1. CASE WaitControl(t) \/ ScanPast(t) \/ ScanRow(t) \/ Lookup(t) \/ Read(t)
      BY <1>0, <3>1, MoveTopic DEF WaitControl, ScanPast, ScanRow, Lookup, Read
    <3>2. CASE SplitMsg(t) \/ SplitEnd(t) \/ WriteTopic(t)
      BY <1>0, <3>2, MoveTopic DEF SplitMsg, SplitEnd, StrtokFirst, StrtokEnd, WriteTopic
    <3>3. CASE ReadNothing(t) \/ WriteDone(t)
      BY <1>0, <3>3, MoveTopic DEF ReadNothing, WriteDone, NextRow
    <3> QED BY <2>6, <3>1, <3>2, <3>3
            DEF Forward, LookupFault, ReadError, WriteFault, Dies
  <2> QED BY <2>1, <2>2, <2>3, <2>4, <2>5, <2>6
          DEF Thread, Register, HandshakeEOF, UpdateSusFault, ControlFault, Dies
<1> QED BY <1>1, <1>2

-----------------------------------------------------------------------------
(* The row a forwarder serves.                                             *)

\* A forwarder that stays at its row.
LEMMA ServeMove ==
  ASSUME NEW t \in Clients, ServeOf(t),
         UNCHANGED <<fd_idx, client_fd_list>>,
         row'[t] = row[t], want'[t] = want[t], fd_pub'[t] = fd_pub[t], fd_sus'[t] = fd_sus[t],
         fd_pub[t] \in Clients \cup {STDIN}, fd_sus[t] \in Clients \cup {STDIN},
         \A c \in Clients : pc[c] \in Past => pc'[c] \in Past,
         pc'[t] = pc[t] \/ (pc[t] \in Serving \ {"write"} /\ pc'[t] \in Serving)
  PROVE  ServeOf(t)'
BY DEF ServeOf, RowClient, Serving

\* Nobody registers while a thread forwards.
LEMMA ListsRest ==
  ASSUME Solo, NEW t \in Clients, pc[t] \in Forwarding
  PROVE  \A u \in Clients : pc[u] \notin Storing \cup Named
BY DEF Solo, Storing, Named, Registering, Forwarding

\* Lines 307-314: the row of a subscriber.
LEMMA ScanServe ==
  ASSUME Inv, RowInv, Solo, TopicInv, NEW t \in Clients, ScanRow(t)
  PROVE  ServeOf(t)'
<1>1. /\ broker = "up" /\ pc[t] = "scan" /\ pc'[t] = "lookup" /\ row' = row
      /\ UNCHANGED <<fd_idx, client_fd_list>>
      /\ want'[t] = topic_list[row[t]] /\ SusAt(row[t]) \notin {NULL, NONE}
  BY DEF ScanRow, Goes, shared, Inv, TypeOK
<1>2. row[t] \in Slots /\ client_sus_list[row[t]] \notin {NULL, NONE}
  BY <1>1 DEF SusAt
<1>3. row[t] < fd_idx
  <2>1. \A u \in Clients : pc[u] \notin Storing
    BY <1>1, ListsRest DEF Forwarding
  <2>2. ~(row[t] >= fd_idx)
    BY <1>1, <1>2, <2>1 DEF RowInv, RowParts, NothingBehind
  <2> QED BY <1>2, <2>2, ConstantTypes DEF Inv, TypeOK, Slots
<1>4. client_sus_list[row[t]] = Sus[RowClient(t)]
  BY <1>1, <1>2, <1>3 DEF RowInv, RowParts, CountedRows, RowClient
<1>5. topic_list[row[t]] = Wanted[RowClient(t)]
  BY <1>2, <1>3, <1>4 DEF TopicInv, RowClient
<1> QED BY <1>1, <1>2, <1>3, <1>4, <1>5 DEF ServeOf, RowClient, Serving

\* find_index_by_client_name finds a registered client of that name, or none.
LEMMA FoundClient ==
  ASSUME Inv, RowInv, broker = "up", control # BAD, NameInv,
         NEW name, name \notin {NULL, THREAD_ID, TORN},
         \A u \in Clients : pc[u] \notin Named,
         NEW fd \in FdsOf(name), fd # STDIN
  PROVE  fd \in Clients /\ Name[fd] = name /\ pc[fd] \in Past
<1>1. PICK i \in Slots : FoundAt(name, i) /\ fd = client_fd_list[i]
  BY DEF FdsOf, FdAt
<1>2. client_name_list[i] # NULL /\ (client_name_list[i] = name \/ client_name_list[i] = TORN)
  BY <1>1 DEF FoundAt
<1>3. ~(i > fd_idx \/ i = fd_idx)
  BY <1>1, <1>2, SentinelsAssumption DEF NameInv
<1>4. i < fd_idx
  BY <1>1, <1>3, ConstantTypes DEF Inv, TypeOK, Slots
<1>5. /\ fd \in Clients /\ client_name_list[i] = Name[fd] /\ pc[fd] \in Past
  BY <1>1, <1>4 DEF RowInv, RowParts, CountedRows
<1>6. Name[fd] # TORN
  BY <1>5, NamesAssumption, SentinelsAssumption DEF Names
<1> QED BY <1>2, <1>5, <1>6

\* Lines 316-317: the descriptors of the row.
LEMMA LookupServe ==
  ASSUME Inv, RowInv, Solo, NameInv, NEW t \in Clients, ServeOf(t), Lookup(t)
  PROVE  ServeOf(t)'
<1>1. /\ broker = "up" /\ pc[t] = "lookup" /\ pc'[t] = "read" /\ row' = row /\ want' = want
      /\ UNCHANGED <<fd_idx, client_fd_list>>
      /\ \A u \in Clients : pc[u] \in Past => pc'[u] \in Past
  BY DEF Lookup, Goes, shared, Inv, TypeOK, Past, Forwarding
<1>2. control # BAD /\ \A u \in Clients : pc[u] \notin Named
  BY <1>1, ListsRest DEF Solo, Forwarding
<1>3. row[t] < fd_idx /\ Sus[RowClient(t)] # NONE /\ want[t] = Wanted[RowClient(t)]
  BY <1>1 DEF ServeOf, Serving
<1>4. row[t] \in Slots
  BY <1>3, ConstantTypes DEF Inv, TypeOK, Slots
<1>5. /\ RowClient(t) \in Clients
      /\ Publisher(t) = Sus[RowClient(t)]
      /\ Suscribers(t) = {Name[RowClient(t)]}
  BY <1>1, <1>2, <1>3, <1>4 DEF RowInv, RowParts, CountedRows, RowClient, Publisher, Suscribers
<1>6. /\ Sus[RowClient(t)] \notin {NULL, THREAD_ID, TORN}
      /\ Name[RowClient(t)] \notin {NULL, THREAD_ID, TORN}
  BY <1>5, NamesAssumption, SentinelsAssumption DEF Names
<1>7. fd_pub'[t] \in FdsOf(Sus[RowClient(t)]) /\ fd_sus'[t] \in FdsOf(Name[RowClient(t)])
  BY <1>5 DEF Lookup, Inv, TypeOK
<1>8. fd_pub'[t] # STDIN => /\ fd_pub'[t] \in Clients /\ pc[fd_pub'[t]] \in Past
                           /\ Name[fd_pub'[t]] = Sus[RowClient(t)]
  BY <1>1, <1>2, <1>6, <1>7, FoundClient
<1>9. fd_sus'[t] # STDIN => /\ fd_sus'[t] \in Clients /\ pc[fd_sus'[t]] \in Past
                           /\ Name[fd_sus'[t]] = Name[RowClient(t)]
  BY <1>1, <1>2, <1>6, <1>7, FoundClient
<1> QED BY <1>1, <1>3, <1>8, <1>9 DEF ServeOf, RowClient, Serving

\* Every step of a thread keeps the rows the forwarders serve.
LEMMA ThreadServe ==
  ASSUME Inv, RowInv, Solo, TopicInv, NameInv, ServeInv, NEW t \in Clients, Thread(t),
         broker' = "up"
  PROVE  ServeInv'
<1>1. TypeOK /\ ServeOf(t)
  BY DEF Inv, ServeInv
<1>2. \A u \in Clients : pc[u] \in Past => pc'[u] \in Past
  BY <1>1, ThreadFrame
<1>3. \A u \in Clients : fd_pub[u] \in Clients \cup {STDIN} /\ fd_sus[u] \in Clients \cup {STDIN}
  BY <1>1 DEF TypeOK
<1>4. ASSUME NEW u \in Clients \ {t} PROVE ServeOf(u)'
  <2>1. /\ pc'[u] = pc[u] /\ row'[u] = row[u] /\ want'[u] = want[u]
        /\ fd_pub'[u] = fd_pub[u] /\ fd_sus'[u] = fd_sus[u]
    BY <1>1, ThreadFrame
  <2>2. CASE pc[u] \in Serving \cup {"lookup"}
    <3>1. pc[t] \in Past
      BY <1>1, <2>2, ThreadFrame DEF Solo, Past, Serving, Forwarding
    <3>2. UNCHANGED <<fd_idx, client_fd_list>>
      BY <1>1, <3>1, ThreadFrame
    <3>3. ServeOf(u)
      BY DEF ServeInv
    <3> QED BY <1>2, <1>3, <2>1, <3>2, <3>3, ServeMove
  <2>3. CASE pc[u] \notin Serving \cup {"lookup"}
    BY <2>1, <2>3 DEF ServeOf, Serving
  <2> QED BY <2>2, <2>3
<1>5. ServeOf(t)'
  <2>1. CASE ScanRow(t) \/ Lookup(t)
    BY <1>1, <2>1, ScanServe, LookupServe
  <2>2. CASE Read(t) \/ SplitMsg(t) \/ SplitEnd(t)
    <3>1. /\ UNCHANGED <<fd_idx, client_fd_list, row, want, fd_pub, fd_sus>>
          /\ pc[t] \in Serving \ {"write"} /\ pc'[t] \in Serving
      BY <1>1, <2>2 DEF Read, SplitMsg, SplitEnd, StrtokFirst, StrtokEnd, Goes, shared,
         TypeOK, Serving
    <3> QED BY <1>1, <1>2, <1>3, <3>1, ServeMove
  <2>3. CASE Strtok(t) /\ pc[t] \in {"fwdLoad", "fwdStore"}
    <3>1. /\ UNCHANGED <<fd_idx, client_fd_list, row, want, fd_pub, fd_sus>>
          /\ pc[t] \in Serving \ {"write"} /\ pc'[t] \in Serving
      BY <1>1, <2>3 DEF Strtok, StrtokLoad, StrtokStore, Goes, shared, TypeOK, Serving
    <3> QED BY <1>1, <1>2, <1>3, <3>1, ServeMove
  <2>4. CASE WriteTopic(t)
    <3>1. /\ UNCHANGED <<fd_idx, client_fd_list, row, fd_pub, fd_sus, pc>> /\ pc[t] = "write"
          /\ want'[t] \subseteq want[t]
      BY <1>1, <2>4 DEF WriteTopic, Goes, shared, TypeOK
    <3> QED BY <1>1, <3>1 DEF ServeOf, RowClient, Serving
  <2>5. CASE Strtok(t) /\ pc[t] \notin {"fwdLoad", "fwdStore"}
    BY <1>1, <2>5 DEF Strtok, StrtokLoad, StrtokStore, Goes, TypeOK, Serving, ServeOf
  <2>6. CASE Register(t)
    <3>1. pc'[t] \notin Serving \cup {"lookup"}
      <4> USE DEF Goes, TypeOK, Serving
      <4>1. CASE UpdateSus(t) \/ CopyTopic(t) \/ OverrunStore(t) \/ OverrunDone(t)
        BY <1>1, <4>1 DEF UpdateSus, AfterUpdate, CopyTopic, OverrunStore, OverrunDone
      <4>2. CASE Lock(t) \/ ReadName(t) \/ ReadSus(t) \/ StoreNone(t) \/ Finish(t) \/ Unlock(t)
        BY <1>1, <4>2 DEF Lock, ReadName, ReadSus, StoreNone, Finish, Unlock
      <4>3. CASE SplitSus(t) \/ StoreSus(t)
        BY <1>1, <4>3 DEF SplitSus, StoreSus
      <4> QED BY <2>6, <4>1, <4>2, <4>3
              DEF Register, HandshakeEOF, UpdateSusFault, ControlFault, Dies
    <3> QED BY <3>1 DEF ServeOf, Serving
  <2>7. CASE WaitControl(t) \/ ScanPast(t) \/ ReadNothing(t) \/ WriteDone(t)
    BY <1>1, <2>7 DEF WaitControl, ScanPast, ReadNothing, WriteDone, Goes, TypeOK, Serving,
       ServeOf
  <2> QED BY <2>1, <2>2, <2>3, <2>4, <2>5, <2>6, <2>7
          DEF Thread, Forward, LookupFault, ReadError, WriteFault, Dies
<1> QED BY <1>4, <1>5 DEF ServeInv

-----------------------------------------------------------------------------
\* What the threads know, in every state.
LEMMA ThreadPartsHold == Spec => [](Live => ThreadParts)
<1>1. Init => ThreadParts
  <2>1. Init => SplitInv
    BY DEF Init, BrokerInit, SplitInv, SplitOf, Splitting
  <2>2. Init => TopicInv /\ NameInv
    BY ConstantTypes DEF Init, BrokerInit, TopicInv, NameInv, Slots
  <2>3. Init => ServeInv
    BY DEF Init, BrokerInit, ServeInv, ServeOf, Serving
  <2> QED BY <2>1, <2>2, <2>3 DEF ThreadParts
<1>2. Base /\ (Live => ThreadParts) /\ [Next]_vars => (Live => ThreadParts)'
  <2> SUFFICES ASSUME Base, Live => ThreadParts, [Next]_vars, Live'
               PROVE  ThreadParts'
    OBVIOUS
  <2>1. Live /\ ThreadParts /\ Solo /\ Inv /\ RowInv /\ TypeOK /\ broker' = "up"
    <3>1. Live
      BY LiveBefore DEF Base, Live
    <3> QED BY <3>1, Alone DEF Base, Inv, Live
  <2>2. CASE SigClose \/ SigExit
    <3>1. UNCHANGED <<shared, pc, locals>>
      BY <2>1, <2>2 DEF SigClose, SigExit
    <3> QED BY <2>1, <3>1 DEF shared, locals, ThreadParts, SplitInv, SplitOf, TopicInv, NameInv,
       ServeInv, ServeOf, RowClient
  <2>3. ASSUME NEW t \in Clients, Accept(t) PROVE ThreadParts'
    <3>1. /\ pc[t] = "none" /\ pc' = [pc EXCEPT ![t] = "start"] /\ broker = "up"
          /\ UNCHANGED <<control, fd_idx, client_fd_list, topic_list, olds, nuls, locals>>
          /\ client_name_list' = [client_name_list EXCEPT ![LIMIT_CONN_CLIENTS] = THREAD_ID]
      BY <2>3 DEF Accept, Goes
    <3>2. \A u \in Clients \ {t} : pc'[u] = pc[u]
      BY <2>1, <3>1 DEF TypeOK
    <3>3. pc'[t] = "start"
      BY <2>1, <3>1 DEF TypeOK
    <3>4. SplitInv'
      <4>1. UNCHANGED <<olds, nuls, buf, argv, cur>>
        BY <3>1 DEF locals
      <4> SUFFICES ASSUME NEW u \in Clients PROVE SplitOf(u)'
        BY DEF SplitInv
      <4>2. SplitOf(u)
        BY <2>1 DEF ThreadParts, SplitInv
      <4>3. CASE u = t
        BY <3>1, <3>3, <4>1, <4>2, <4>3 DEF SplitOf, Splitting
      <4>4. CASE u # t
        <5>1. pc'[u] = pc[u]
          BY <3>2, <4>4
        <5> QED BY <4>1, <4>2, <5>1 DEF SplitOf
      <4> QED BY <4>3, <4>4
    <3>5. TopicInv'
      <4>1. Goes(t, "none", "start") /\ UNCHANGED <<fd_idx, client_fd_list, topic_list, want>>
        BY <2>3, <3>1 DEF Accept, locals
      <4> QED BY <2>1, <4>1, MoveTopic DEF ThreadParts
    <3>6. NameInv'
      <4>1. \A i \in Slots : \/ client_name_list'[i] = client_name_list[i]
                             \/ (i = LIMIT_CONN_CLIENTS /\ client_name_list'[i] = THREAD_ID)
        BY <2>1, <3>1 DEF TypeOK
      <4>2. NameInv /\ \A u \in Clients : pc[u] \in Named => pc'[u] = pc[u]
        BY <2>1, <3>1, <3>2 DEF ThreadParts, Named, Registering
      <4>3. control' = control /\ fd_idx' = fd_idx
        BY <3>1
      <4> SUFFICES ASSUME control # BAD, NEW i \in Slots,
                          i > fd_idx \/ (i = fd_idx /\ \A u \in Clients : pc'[u] \notin Named)
                   PROVE  NameInv!2!(i)!2'
        BY <4>3 DEF NameInv
      <4>4. i > fd_idx \/ (i = fd_idx /\ \A u \in Clients : pc[u] \notin Named)
        BY <4>2
      <4>5. NameInv!2!(i)!2
        BY <4>2, <4>4 DEF NameInv
      <4> QED BY <4>1, <4>5
    <3>7. ServeInv'
      <4> SUFFICES ASSUME NEW u \in Clients PROVE ServeOf(u)'
        BY DEF ServeInv
      <4>1. \A c \in Clients : pc[c] \in Past => pc'[c] \in Past
        BY <3>1, <3>2 DEF Past, Forwarding
      <4>2. CASE u = t
        BY <3>3, <4>2 DEF ServeOf, Serving
      <4>3. CASE u # t
        <5>1. ServeOf(u) /\ pc'[u] = pc[u]
          BY <2>1, <3>2, <4>3 DEF ThreadParts, ServeInv
        <5>2. UNCHANGED <<fd_idx, client_fd_list, row, want, fd_pub, fd_sus>>
          BY <3>1 DEF locals
        <5>3. fd_pub[u] \in Clients \cup {STDIN} /\ fd_sus[u] \in Clients \cup {STDIN}
          BY <2>1 DEF TypeOK
        <5> QED BY <4>1, <5>1, <5>2, <5>3, ServeMove
      <4> QED BY <4>2, <4>3
    <3> QED BY <3>4, <3>5, <3>6, <3>7 DEF ThreadParts
  <2>4. ASSUME NEW t \in Clients, Thread(t) PROVE ThreadParts'
    BY <2>1, <2>4, ThreadSplit, ThreadOpen, ThreadServe DEF ThreadParts
  <2>5. CASE UNCHANGED <<broker, closed, shared, pc, locals>>
    BY <2>1, <2>5 DEF shared, locals, ThreadParts, SplitInv, SplitOf, TopicInv, NameInv,
       ServeInv, ServeOf, RowClient
  <2>6. ASSUME NEW c \in Clients, Client(c) \/ Exit(c) PROVE ThreadParts'
    BY <2>5, <2>6, ClientFrame
  <2> QED BY <2>2, <2>3, <2>4, <2>5, <2>6 DEF Next, BrokerNext, vars, brokerVars
<1> QED BY <1>1, <1>2, BaseHolds, PTL DEF Spec

-----------------------------------------------------------------------------
(* The clients and their connections.                                      *)

\* A client that has not connected has no thread.
PeerInv ==
  \A c \in Clients :
    /\ cpc[c] = "idle" => peer[c] = "none"
    /\ peer[c] = "none" => pc[c] = "none"

-----------------------------------------------------------------------------
(* What the sockets hold.                                                  *)

\* How many lines of c have been taken out of rx[c] before its data lines.
Off(c) ==
  IF pc[c] \in {"none", "start", "name"} THEN 0
  ELSE IF pc[c] = "sus" THEN 1 + Len(rio[c]) ELSE 2

\* The j-th line of c, if no data line is lost.
IsLine(c, j, line) ==
  /\ j = 1 => line = NameLine(c)
  /\ j = 2 => line = SusLine(c)
  /\ j > 2 => /\ c \in Publishers
              /\ line.kind = "data" /\ line.from = c /\ line.seq \in 1 .. sent[c]

Splits == {"reg", "regLoad", "regStore", "update"}

StreamOf(c) ==
  /\ \A i \in 1 .. Len(rx[c]) : IsLine(c, Off(c) + i, rx[c][i])
  /\ pc[c] = "sus" => \A i \in 1 .. Len(rio[c]) : IsLine(c, 1 + i, rio[c][i])
  /\ cpc[c] \in {"idle", "connected"} => Off(c) + Len(rx[c]) = 0
  /\ cpc[c] = "named" => Off(c) + Len(rx[c]) = 1
  /\ cpc[c] = "running" => Off(c) + Len(rx[c]) >= 2
  /\ pc[c] \in Splits => buf[c] = SusLine(c)

StreamInv == \A c \in Clients : StreamOf(c)

\* The message a forwarder has read is the publisher's, and older than what
\* waits in its socket.
BufOf(t) ==
  pc[t] \in Serving \ {"read"} =>
    /\ fd_pub[t] \in Publishers
    /\ buf[t].kind = "data" /\ buf[t].from = fd_pub[t]
    /\ buf[t].seq \in 1 .. sent[fd_pub[t]]
    /\ \A i \in 1 .. Len(rx[fd_pub[t]]) : buf[t].seq < rx[fd_pub[t]][i].seq

BufInv == \A t \in Clients : BufOf(t)

SocketParts == StreamInv /\ BufInv

-----------------------------------------------------------------------------
\* What a step of a thread does to the sockets.
LEMMA NetFrame ==
  ASSUME NEW t \in Clients, Thread(t), broker' = "up"
  PROVE  /\ rx' = rx \/ ReadName(t) \/ ReadSus(t) \/ Read(t)
         /\ UNCHANGED <<tx, peer>> \/ WriteTopic(t)
<1> USE DEF net
<1>1. CASE Register(t)
  BY <1>1 DEF Register, Lock, ReadName, ReadSus, HandshakeEOF, StoreNone, SplitSus, StoreSus,
     StrtokFirst, StrtokEnd, UpdateSus, UpdateSusFault, CopyTopic, OverrunStore, OverrunDone,
     Finish, Unlock,
     ControlFault, Dies
<1>2. CASE Strtok(t)
  BY <1>2 DEF Strtok, StrtokLoad, StrtokStore
<1>3. CASE Forward(t)
  BY <1>3 DEF Forward, WaitControl, ScanPast, ScanRow, Lookup, LookupFault, Read,
     ReadNothing, ReadError, SplitMsg, SplitEnd, StrtokFirst, StrtokEnd, WriteTopic,
     WriteFault, WriteDone, NextRow, Dies
<1> QED BY <1>1, <1>2, <1>3 DEF Thread

\* Only a client with a connection has a thread.
LEMMA PeersHold == Spec => []PeerInv
<1>1. Init => PeerInv
  BY DEF Init, BrokerInit, PeerInv
<1>2. TypeOK /\ PeerInv /\ [Next]_vars => PeerInv'
  <2> SUFFICES ASSUME TypeOK, PeerInv, [Next]_vars
               PROVE  PeerInv'
    OBVIOUS
  <2>1. CASE (SigClose \/ SigExit) /\ UNCHANGED clientVars
    BY <2>1 DEF SigClose, SigExit, PeerInv, net, clientVars
  <2>2. ASSUME NEW t \in Clients, Accept(t), UNCHANGED clientVars PROVE PeerInv'
    BY <2>2 DEF Accept, Goes, PeerInv, TypeOK, net, clientVars
  <2>3. ASSUME NEW t \in Clients, Thread(t), UNCHANGED clientVars PROVE PeerInv'
    <3>1. CASE broker' = "up"
      <4>1. /\ pc[t] # "none" /\ \A u \in Clients \ {t} : pc'[u] = pc[u]
        BY <2>3, <3>1, ThreadFrame
      <4>2. \A c \in Clients : peer'[c] = "none" <=> peer[c] = "none"
        BY <2>3, <3>1, NetFrame DEF WriteTopic
      <4> QED BY <2>3, <4>1, <4>2 DEF PeerInv, clientVars
    <3>2. CASE broker' # "up"
      <4>1. UNCHANGED <<pc, net>>
        BY <2>3, <3>2 DEF Thread, Register, Strtok, Forward, Goes, Dies, Lock, ReadName, ReadSus,
           HandshakeEOF, StoreNone, SplitSus, StoreSus, UpdateSus, UpdateSusFault, CopyTopic,
           OverrunStore, OverrunDone, Finish, Unlock, ControlFault, StrtokLoad, StrtokStore,
           WaitControl, ScanPast, ScanRow,
           Lookup, LookupFault, Read, ReadNothing, ReadError, SplitMsg, SplitEnd, WriteTopic,
           WriteFault, WriteDone
      <4> QED BY <2>3, <4>1 DEF PeerInv, net, clientVars
    <3> QED BY <3>1, <3>2
  <2>4. ASSUME NEW c \in Clients, Client(c) PROVE PeerInv'
    <3> USE DEF ClientGoes, PeerInv, TypeOK, net
    <3>1. CASE Connect(c)
      BY <3>1 DEF Connect
    <3>2. CASE SendName(c) \/ SendSus(c) \/ HandshakeBroken(c)
      BY <3>2 DEF SendName, SendSus, HandshakeBroken
    <3>3. CASE Publish(c) \/ PublishLost(c) \/ PublishBroken(c) \/ Show(c) \/ SubEOF(c)
      BY <3>3 DEF Publish, PublishLost, PublishBroken, Show, SubEOF
    <3> QED BY <2>4, <3>1, <3>2, <3>3 DEF Client
  <2>5. ASSUME NEW c \in Clients, Exit(c) PROVE PeerInv'
    <3>1. PICK end \in {"closed", "reset"} : peer' = [peer EXCEPT ![c] = end]
      BY <2>5 DEF Exit
    <3>2. cpc' = [cpc EXCEPT ![c] = "gone"] /\ pc' = pc /\ cpc[c] # "idle"
      BY <2>5 DEF Exit, ClientGoes
    <3> QED BY <3>1, <3>2 DEF PeerInv, TypeOK
  <2>6. CASE UNCHANGED vars
    BY <2>6 DEF vars, brokerVars, net, clientVars, PeerInv
  <2> QED BY <2>1, <2>2, <2>3, <2>4, <2>5, <2>6 DEF Next, BrokerNext
<1> QED BY <1>1, <1>2, TypeCorrect, PTL DEF Spec

\* A client whose lines nobody touches.
LEMMA StreamKept ==
  ASSUME NEW c \in Clients, StreamOf(c), rx'[c] = rx[c], cpc'[c] = cpc[c], sent'[c] = sent[c],
         Off(c)' = Off(c), pc'[c] = "sus" => pc[c] = "sus" /\ rio'[c] = rio[c],
         pc'[c] \in Splits => pc[c] \in Splits /\ buf'[c] = buf[c]
  PROVE  StreamOf(c)'
<1>1. \A j, line : IsLine(c, j, line)' <=> IsLine(c, j, line)
  BY DEF IsLine
<1> QED BY <1>1 DEF StreamOf

\* Line 202: what is read ahead stays in its order.
LEMMA ReadNameStream ==
  ASSUME TypeOK, NEW t \in Clients, StreamOf(t), ReadName(t), UNCHANGED clientVars
  PROVE  StreamOf(t)'
<1>1. /\ pc[t] = "name" /\ pc'[t] = "sus" /\ rx[t] # <<>>
      /\ rio'[t] = Tail(rx[t]) /\ rx'[t] = <<>>
      /\ cpc' = cpc /\ sent' = sent
  BY DEF ReadName, RioLeft, Goes, TypeOK, clientVars
<1>2. rx[t] \in Seq(Line)
  BY DEF TypeOK
<1>3. /\ Len(rx[t]) \in Nat /\ Len(rio'[t]) = Len(rx[t]) - 1 /\ Len(rx'[t]) = 0
      /\ \A i \in 1 .. Len(rx[t]) - 1 : rio'[t][i] = rx[t][i + 1]
  BY <1>1, <1>2
<1>4. Off(t) = 0 /\ Off(t)' = Len(rx[t])
  BY <1>1, <1>3 DEF Off
<1>5. \A j, line : IsLine(t, j, line)' <=> IsLine(t, j, line)
  BY <1>1 DEF IsLine
<1>6. \A i \in 1 .. Len(rx[t]) : IsLine(t, i, rx[t][i])
  BY <1>3, <1>4 DEF StreamOf
<1>7. \A i \in 1 .. Len(rio'[t]) : IsLine(t, 1 + i, rio'[t][i])
  BY <1>3, <1>6
<1>8. Off(t)' + Len(rx'[t]) = Off(t) + Len(rx[t])
  BY <1>3, <1>4
<1> QED BY <1>1, <1>3, <1>5, <1>7, <1>8 DEF StreamOf, Splits

\* Lines 203-212: the second line is the subscription.
LEMMA ReadSusStream ==
  ASSUME TypeOK, NEW t \in Clients, StreamOf(t), ReadSus(t), UNCHANGED clientVars
  PROVE  StreamOf(t)'
<1>1. /\ pc[t] = "sus" /\ pc'[t] = "reg" /\ cpc' = cpc /\ sent' = sent
      /\ rio[t] # <<>> \/ rx[t] # <<>>
  BY DEF ReadSus, Goes, TypeOK, clientVars
<1>2. rx[t] \in Seq(Line) /\ rio[t] \in Seq(Line)
  BY DEF TypeOK
<1>3. Len(rx[t]) \in Nat /\ Len(rio[t]) \in Nat
  BY <1>2
<1>4. Off(t) = 1 + Len(rio[t]) /\ Off(t)' = 2
  BY <1>1 DEF Off
<1>5. \A j, line : IsLine(t, j, line)' <=> IsLine(t, j, line)
  BY <1>1 DEF IsLine
<1>6. CASE rio[t] # <<>>
  <2>1. rx'[t] = rx[t] /\ buf'[t] = rio[t][1] /\ Len(rio[t]) >= 1
    BY <1>2, <1>6 DEF ReadSus, TypeOK
  <2>2. buf'[t] = SusLine(t)
    <3>1. IsLine(t, 1 + 1, rio[t][1])
      BY <1>1, <1>3, <2>1 DEF StreamOf
    <3> QED BY <2>1, <3>1 DEF IsLine
  <2>3. \A i \in 1 .. Len(rx[t]) : IsLine(t, 2 + i, rx[t][i])
    <3> SUFFICES ASSUME NEW i \in 1 .. Len(rx[t]) PROVE IsLine(t, 2 + i, rx[t][i])
      OBVIOUS
    <3>1. IsLine(t, 1 + Len(rio[t]) + i, rx[t][i])
      BY <1>4 DEF StreamOf
    <3>2. 1 + Len(rio[t]) + i > 2 /\ 2 + i > 2 /\ 2 + i # 1 /\ 2 + i # 2
      BY <1>3, <2>1
    <3> QED BY <3>1, <3>2 DEF IsLine
  <2>4. cpc[t] \notin {"idle", "connected", "named"}
    <3>1. \A a, b \in Nat : a >= 1 => (1 + a) + b # 0 /\ (1 + a) + b # 1
      OBVIOUS
    <3>2. Off(t) + Len(rx[t]) # 0 /\ Off(t) + Len(rx[t]) # 1
      BY <1>3, <1>4, <2>1, <3>1
    <3> QED BY <3>2 DEF StreamOf
  <2>5. 2 + Len(rx[t]) >= 2
    BY <1>3
  <2> QED BY <1>1, <1>4, <1>5, <2>1, <2>2, <2>3, <2>4, <2>5 DEF StreamOf
<1>7. CASE rio[t] = <<>>
  <2>1. /\ rx'[t] = <<>> /\ Len(rx'[t]) = 0 /\ buf'[t] = rx[t][1]
        /\ Len(rio[t]) = 0 /\ Len(rx[t]) >= 1
    BY <1>1, <1>2, <1>7 DEF ReadSus, RioLine, RioLeft, TypeOK
  <2>2. buf'[t] = SusLine(t)
    <3>1. IsLine(t, 1 + 0 + 1, rx[t][1])
      BY <1>3, <1>4, <2>1 DEF StreamOf
    <3> QED BY <2>1, <3>1 DEF IsLine
  <2>4. cpc[t] \notin {"idle", "connected", "named"}
    BY <1>3, <1>4, <2>1 DEF StreamOf
  <2> QED BY <1>1, <1>4, <1>5, <2>1, <2>2, <2>4 DEF StreamOf
<1> QED BY <1>6, <1>7

\* Every step of a thread keeps the streams.
LEMMA ThreadStream ==
  ASSUME Inv, ServeInv, StreamInv, NEW t \in Clients, Thread(t), broker' = "up",
         UNCHANGED clientVars
  PROVE  StreamInv'
<1>1. TypeOK /\ cpc' = cpc /\ sent' = sent
  BY DEF Inv, clientVars
<1>2. \A u \in Clients \ {t} : pc'[u] = pc[u] /\ rio'[u] = rio[u] /\ buf'[u] = buf[u]
  BY <1>1, ThreadFrame
<1>3. \A u \in Clients \ {t} : Off(u)' = Off(u)
  BY <1>2 DEF Off
<1>4. CASE ReadName(t) \/ ReadSus(t)
  <2>1. \A u \in Clients \ {t} : rx'[u] = rx[u]
    BY <1>1, <1>4 DEF ReadName, ReadSus, TypeOK
  <2>2. \A u \in Clients \ {t} : StreamOf(u)'
    BY <1>1, <1>2, <1>3, <2>1, StreamKept DEF StreamInv
  <2>3. StreamOf(t)'
    BY <1>1, <1>4, ReadNameStream, ReadSusStream DEF StreamInv
  <2> QED BY <2>2, <2>3 DEF StreamInv
<1>5. ASSUME ~(ReadName(t) \/ ReadSus(t))
      PROVE  /\ Off(t)' = Off(t)
             /\ pc'[t] = "sus" => pc[t] = "sus" /\ rio'[t] = rio[t]
             /\ pc'[t] \in Splits => pc[t] \in Splits /\ buf'[t] = buf[t]
  <2> USE DEF Goes, Off, Splits, locals
  <2>1. CASE Lock(t) \/ StoreNone(t) \/ SplitSus(t) \/ StoreSus(t) \/ UpdateSus(t)
    BY <1>1, <2>1 DEF Lock, StoreNone, SplitSus, StrtokFirst, StoreSus, StrtokEnd, UpdateSus,
       AfterUpdate, TypeOK
  <2>2. CASE \/ CopyTopic(t) \/ OverrunStore(t) \/ OverrunDone(t) \/ Finish(t) \/ Unlock(t)
             \/ Strtok(t)
    BY <1>1, <2>2 DEF CopyTopic, OverrunStore, OverrunDone, Finish, Unlock, Strtok,
       StrtokLoad, StrtokStore, TypeOK
  <2>3. CASE \/ WaitControl(t) \/ ScanPast(t) \/ ScanRow(t) \/ Lookup(t) \/ Read(t)
             \/ ReadNothing(t) \/ SplitMsg(t) \/ SplitEnd(t) \/ WriteTopic(t) \/ WriteDone(t)
    BY <1>1, <2>3 DEF WaitControl, ScanPast, ScanRow, Lookup, Read, ReadNothing, SplitMsg,
       SplitEnd, WriteTopic, WriteDone, TypeOK
  <2> QED BY <1>5, <2>1, <2>2, <2>3 DEF Thread, Register, Forward, HandshakeEOF,
          UpdateSusFault, ControlFault, LookupFault, ReadError, WriteFault, Dies
<1>6. CASE rx' = rx /\ ~(ReadName(t) \/ ReadSus(t))
  BY <1>1, <1>2, <1>3, <1>5, <1>6, StreamKept DEF StreamInv
<1>7. CASE Read(t)
  <2>1. /\ fd_pub[t] \in Clients /\ rx'[fd_pub[t]] = <<>> /\ pc[t] = "read"
        /\ pc'[t] = "split"
        /\ \A u \in Clients : u # fd_pub[t] => rx'[u] = rx[u]
    BY <1>1, <1>7 DEF Read, RioLeft, Goes, TypeOK
  <2>2. ~(ReadName(t) \/ ReadSus(t))
    BY <2>1 DEF ReadName, ReadSus, Goes
  <2>3. \A u \in Clients : u # fd_pub[t] => StreamOf(u)'
    BY <1>1, <1>2, <1>3, <1>5, <2>1, <2>2, StreamKept DEF StreamInv
  <2>p. PICK p \in Clients : p = fd_pub[t]
    BY <2>1
  <2>4. pc[p] \in Past
    BY <2>1, <2>p, ClientsAssumption DEF ServeInv, ServeOf, Serving
  <2>5. StreamOf(p)'
    <3>1. Off(p) = 2 /\ pc[p] \notin Splits \cup {"sus"}
      BY <2>4 DEF Off, Past, Forwarding, Splits
    <3>2. Off(p)' = 2 /\ pc'[p] \notin Splits \cup {"sus"}
      BY <1>2, <1>3, <1>5, <2>1, <2>2, <3>1 DEF Splits
    <3>3. cpc[p] \notin {"idle", "connected", "named"}
      <4>1. StreamOf(p) /\ Len(rx[p]) \in Nat
        BY <1>1, <2>1 DEF StreamInv, TypeOK
      <4> QED BY <3>1, <4>1 DEF StreamOf
    <3>4. Len(rx'[p]) = 0
      BY <2>1, <2>p
    <3> QED BY <1>1, <3>2, <3>3, <3>4 DEF StreamOf
  <2> QED BY <2>3, <2>5, <2>p DEF StreamInv
<1> QED BY <1>4, <1>6, <1>7, NetFrame

\* What a step of a client does to its own connection.
LEMMA ClientEffect ==
  ASSUME TypeOK, broker = "up", NEW c \in Clients, Client(c) \/ Exit(c)
  PROVE  /\ UNCHANGED <<broker, closed, shared, pc, locals, tx>>
         /\ \A d \in Clients \ {c} : /\ cpc'[d] = cpc[d] /\ rx'[d] = rx[d]
                                     /\ sent'[d] = sent[d] /\ peer'[d] = peer[d]
         /\ \/ SendName(c) \/ SendSus(c) \/ Publish(c)
            \/ /\ UNCHANGED <<rx, sent>>
               /\ \/ cpc'[c] \in {cpc[c], "reset", "gone"}
                  \/ (cpc[c] = "idle" /\ cpc'[c] = "connected")
<1>1. UNCHANGED <<broker, closed, shared, pc, locals>>
  BY ClientFrame
<1> USE DEF ClientGoes, Writes, net, TypeOK
<1>2. CASE Connect(c)
  BY <1>1, <1>2 DEF Connect
<1>3. CASE SendName(c) \/ SendSus(c)
  BY <1>1, <1>3 DEF SendName, SendSus
<1>4. CASE Publish(c)
  BY <1>1, <1>4 DEF Publish
<1>5. CASE PublishBroken(c) \/ Show(c)
  BY <1>1, <1>5 DEF PublishBroken, Show
<1>6. CASE HandshakeBroken(c) \/ PublishLost(c) \/ SubEOF(c)
  BY <1>1, <1>6 DEF HandshakeBroken, PublishLost, SubEOF
<1>7. CASE Exit(c)
  <2>1. PICK end \in {"closed", "reset"} : peer' = [peer EXCEPT ![c] = end]
    BY <1>7 DEF Exit
  <2> QED BY <1>1, <1>7, <2>1 DEF Exit
<1> QED BY <1>2, <1>3, <1>4, <1>5, <1>6, <1>7 DEF Client

\* A line appended to a stream.
LEMMA StreamGrows ==
  ASSUME NEW c \in Clients, StreamOf(c), rx[c] \in Seq(Line), NEW line \in Line,
         UNCHANGED <<pc, rio, buf>>, rx'[c] = Append(rx[c], line), sent[c] \in Nat,
         Off(c) \in Nat, sent'[c] \in {sent[c], sent[c] + 1},
         NEW k \in Nat, k = Off(c) + Len(rx[c]), IsLine(c, k + 1, line)',
         (k = 0 /\ cpc'[c] = "named") \/ (k >= 1 /\ cpc'[c] = "running")
  PROVE  StreamOf(c)'
<1>1. PICK o \in Nat : o = Off(c) /\ o = Off(c)'
  BY DEF Off
<1>2. \A j, l : IsLine(c, j, l) => IsLine(c, j, l)'
  <2>1. \A n \in 1 .. sent[c] : n \in 1 .. sent'[c]
    OBVIOUS
  <2> QED BY <2>1 DEF IsLine
<1>3. /\ Len(rx[c]) \in Nat /\ Len(rx'[c]) = Len(rx[c]) + 1
      /\ \A i \in 1 .. Len(rx[c]) : rx'[c][i] = rx[c][i]
      /\ rx'[c][Len(rx[c]) + 1] = line
  OBVIOUS
<1>4. \A i \in 1 .. Len(rx'[c]) : IsLine(c, Off(c) + i, rx[c][i])'
  <2> SUFFICES ASSUME NEW i \in 1 .. Len(rx[c]) + 1 PROVE IsLine(c, o + i, rx[c][i])'
    BY <1>1, <1>3
  <2>1. CASE i \in 1 .. Len(rx[c])
    <3>1. IsLine(c, o + i, rx[c][i])
      BY <1>1, <2>1 DEF StreamOf
    <3>2. PICK l : l = rx[c][i] /\ l = rx'[c][i]
      BY <1>3, <2>1
    <3>3. IsLine(c, o + i, l)'
      BY <1>2, <3>1, <3>2
    <3> QED BY <3>2, <3>3
  <2>2. CASE i = Len(rx[c]) + 1
    <3>1. o + i = k + 1
      BY <1>1, <1>3, <2>2
    <3>2. rx'[c][i] = line
      BY <1>3, <2>2
    <3> QED BY <3>1, <3>2
  <2> QED BY <1>3, <2>1, <2>2
<1>5. pc[c] = "sus" => \A i \in 1 .. Len(rio[c]) : IsLine(c, 1 + i, rio[c][i])'
  <2> SUFFICES ASSUME pc[c] = "sus", NEW i \in 1 .. Len(rio[c]) PROVE IsLine(c, 1 + i, rio[c][i])'
    OBVIOUS
  <2>1. PICK l : l = rio[c][i] /\ l = rio'[c][i]
    OBVIOUS
  <2>2. IsLine(c, 1 + i, l)'
    BY <1>2, <2>1 DEF StreamOf
  <2> QED BY <2>1, <2>2
<1>6. Off(c)' + Len(rx'[c]) = k + 1
  BY <1>1, <1>3
<1>7. pc[c] \in Splits => buf[c] = SusLine(c)
  BY DEF StreamOf
<1>8. k + 1 >= 1 /\ (k = 0 => k + 1 = 1) /\ (k >= 1 => k + 1 >= 2)
  OBVIOUS
<1> QED BY <1>4, <1>5, <1>6, <1>7, <1>8 DEF StreamOf

\* Every step of a client keeps the streams.
LEMMA ClientStream ==
  ASSUME TypeOK, broker = "up", StreamInv, NEW c \in Clients, Client(c) \/ Exit(c)
  PROVE  StreamInv'
<1>1. UNCHANGED <<pc, rio, buf>>
  BY ClientEffect DEF locals
<1>2. \A d \in Clients : Off(d)' = Off(d)
  BY <1>1 DEF Off
<1>3. \A d \in Clients \ {c} : StreamOf(d)'
  <2> SUFFICES ASSUME NEW d \in Clients \ {c} PROVE StreamOf(d)'
    OBVIOUS
  <2>1. rx'[d] = rx[d] /\ cpc'[d] = cpc[d] /\ sent'[d] = sent[d]
    BY ClientEffect
  <2>2. StreamOf(d)
    BY DEF StreamInv
  <2> QED BY <1>1, <1>2, <2>1, <2>2, StreamKept
<1>4. StreamOf(c) /\ rx[c] \in Seq(Line) /\ sent[c] \in Nat /\ rio[c] \in Seq(Line)
  BY DEF StreamInv, TypeOK
<1>5. Off(c) \in Nat /\ Len(rx[c]) \in Nat /\ Off(c) + Len(rx[c]) \in Nat
  <2>1. Len(rio[c]) \in Nat /\ Len(rx[c]) \in Nat
    BY <1>4
  <2>2. Off(c) \in Nat
    BY <2>1 DEF Off
  <2> QED BY <2>1, <2>2
<1>6. PICK k \in Nat : k = Off(c) + Len(rx[c])
  BY <1>5
<1>7. StreamOf(c)'
  <2>1. CASE SendName(c)
    <3>1. /\ cpc[c] = "connected" /\ cpc'[c] = "named" /\ sent'[c] = sent[c]
          /\ rx'[c] = Append(rx[c], NameLine(c))
      BY <2>1 DEF SendName, ClientGoes, Writes, TypeOK
    <3>2. k = 0
      BY <1>4, <1>6, <3>1 DEF StreamOf
    <3>3. IsLine(c, k + 1, NameLine(c))'
      BY <3>2 DEF IsLine, NameLine
    <3>9. /\ sent'[c] \in {sent[c], sent[c] + 1}
          /\ (k = 0 /\ cpc'[c] = "named") \/ (k >= 1 /\ cpc'[c] = "running")
      BY <3>1, <3>2
    <3>10. PICK line \in Line : line = NameLine(c) /\ IsLine(c, k + 1, line)'
      BY <3>3, LineTypes
    <3>11. rx'[c] = Append(rx[c], line)
      BY <3>1, <3>10
    <3> QED BY <1>1, <1>4, <1>5, <1>6, <3>9, <3>10, <3>11, StreamGrows
  <2>2. CASE SendSus(c)
    <3>1. /\ cpc[c] = "named" /\ cpc'[c] = "running" /\ sent'[c] = sent[c]
          /\ rx'[c] = Append(rx[c], SusLine(c))
      BY <2>2 DEF SendSus, ClientGoes, Writes, TypeOK
    <3>2. k = 1
      BY <1>4, <1>6, <3>1 DEF StreamOf
    <3>3. IsLine(c, k + 1, SusLine(c))'
      BY <3>2 DEF IsLine, SusLine
    <3>9. /\ sent'[c] \in {sent[c], sent[c] + 1}
          /\ (k = 0 /\ cpc'[c] = "named") \/ (k >= 1 /\ cpc'[c] = "running")
      BY <3>1, <3>2
    <3>10. PICK line \in Line : line = SusLine(c) /\ IsLine(c, k + 1, line)'
      BY <3>3, LineTypes
    <3>11. rx'[c] = Append(rx[c], line)
      BY <3>1, <3>10
    <3> QED BY <1>1, <1>4, <1>5, <1>6, <3>9, <3>10, <3>11, StreamGrows
  <2>3. CASE Publish(c)
    <3>1. /\ c \in Publishers /\ cpc[c] = "running" /\ cpc'[c] = "running"
          /\ sent'[c] = sent[c] + 1
          /\ rx'[c] = Append(rx[c], DataLine(c, sent[c] + 1))
      BY <2>3 DEF Publish, ClientGoes, Writes, TypeOK
    <3>2. k >= 2 /\ k + 1 > 2 /\ k + 1 # 1 /\ k + 1 # 2
      BY <1>4, <1>6, <3>1 DEF StreamOf
    <3>3. sent[c] + 1 \in 1 .. sent'[c] /\ sent[c] + 1 \in Nat
      BY <1>4, <3>1
    <3>4. DataLine(c, sent[c] + 1) \in Line
      BY <3>3, LineTypes
    <3>5. PICK line \in Line : line = DataLine(c, sent[c] + 1)
      BY <3>4
    <3>6. IsLine(c, k + 1, line)'
      BY <3>1, <3>2, <3>3, <3>5 DEF IsLine, DataLine
    <3>9. /\ sent'[c] \in {sent[c], sent[c] + 1}
          /\ (k = 0 /\ cpc'[c] = "named") \/ (k >= 1 /\ cpc'[c] = "running")
      BY <3>1, <3>2
    <3>11. rx'[c] = Append(rx[c], line)
      BY <3>1, <3>5
    <3> QED BY <1>1, <1>4, <1>5, <1>6, <3>6, <3>9, <3>11, StreamGrows
  <2>4. CASE /\ UNCHANGED <<rx, sent>>
             /\ \/ cpc'[c] \in {cpc[c], "reset", "gone"}
                \/ (cpc[c] = "idle" /\ cpc'[c] = "connected")
    <3>1. \A j, line : IsLine(c, j, line)' <=> IsLine(c, j, line)
      BY <2>4 DEF IsLine
    <3>2. /\ rx'[c] = rx[c] /\ rio'[c] = rio[c] /\ buf'[c] = buf[c]
          /\ pc'[c] = pc[c] /\ Off(c)' = Off(c)
      BY <1>1, <1>2, <2>4
    <3>3. cpc'[c] \in {"idle", "connected", "named", "running"} =>
            cpc'[c] = cpc[c] \/ (cpc[c] = "idle" /\ cpc'[c] = "connected")
      BY <2>4
    <3> QED BY <1>4, <3>1, <3>2, <3>3 DEF StreamOf
  <2> QED BY <2>1, <2>2, <2>3, <2>4, ClientEffect
<1> QED BY <1>3, <1>7 DEF StreamInv

-----------------------------------------------------------------------------
\* A forwarder that keeps its message.
LEMMA BufKept ==
  ASSUME NEW t \in Clients, BufOf(t), UNCHANGED sent,
         \A c \in Clients : rx'[c] \in {rx[c], <<>>},
         pc'[t] \in Serving \ {"read"} =>
           pc[t] \in Serving \ {"read"} /\ buf'[t] = buf[t] /\ fd_pub'[t] = fd_pub[t]
  PROVE  BufOf(t)'
<1> SUFFICES ASSUME pc'[t] \in Serving \ {"read"} PROVE BufOf(t)!2'
  BY DEF BufOf
<1>1. /\ pc[t] \in Serving \ {"read"} /\ buf'[t] = buf[t] /\ fd_pub'[t] = fd_pub[t]
      /\ BufOf(t)!2
  BY DEF BufOf
<1>2. PICK p \in Clients : p = fd_pub[t] /\ p = fd_pub'[t]
  BY <1>1 DEF Publishers
<1>3. CASE rx'[p] = <<>>
  <2>1. Len(rx'[p]) = 0
    BY <1>3
  <2> QED BY <1>1, <1>2, <2>1
<1>4. CASE rx'[p] = rx[p]
  BY <1>1, <1>2, <1>4
<1> QED BY <1>3, <1>4

\* Every step of a thread keeps the messages in hand.
LEMMA ThreadBuf ==
  ASSUME Inv, ServeInv, StreamInv, BufInv, NEW t \in Clients, Thread(t), broker' = "up",
         UNCHANGED clientVars
  PROVE  BufInv'
<1>1. TypeOK /\ sent' = sent
  BY DEF Inv, clientVars
<1>2. \A c \in Clients : rx'[c] \in {rx[c], <<>>}
  BY <1>1, NetFrame DEF ReadName, ReadSus, Read, RioLeft, TypeOK
<1>3. \A u \in Clients \ {t} : BufOf(u)'
  <2> SUFFICES ASSUME NEW u \in Clients \ {t} PROVE BufOf(u)'
    OBVIOUS
  <2>1. pc'[u] = pc[u] /\ buf'[u] = buf[u] /\ fd_pub'[u] = fd_pub[u]
    BY <1>1, ThreadFrame
  <2>2. BufOf(u)
    BY DEF BufInv
  <2> QED BY <1>1, <1>2, <2>1, <2>2, BufKept
<1>4. ASSUME ~Read(t), pc'[t] \in Serving \ {"read"}
      PROVE  pc[t] \in Serving \ {"read"} /\ buf'[t] = buf[t] /\ fd_pub'[t] = fd_pub[t]
  <2> USE DEF Goes, Serving, locals, TypeOK
  <2>1. CASE Strtok(t) \/ SplitMsg(t) \/ SplitEnd(t) \/ WriteTopic(t)
    BY <1>1, <1>4, <2>1 DEF Strtok, StrtokLoad, StrtokStore, SplitMsg, SplitEnd, StrtokFirst,
       StrtokEnd, WriteTopic
  <2>2. CASE \/ WaitControl(t) \/ ScanPast(t) \/ ScanRow(t) \/ Lookup(t) \/ ReadNothing(t)
             \/ WriteDone(t)
    BY <1>1, <1>4, <2>2 DEF WaitControl, ScanPast, ScanRow, Lookup, ReadNothing, WriteDone
  <2>3. CASE UpdateSus(t) \/ CopyTopic(t) \/ OverrunStore(t) \/ OverrunDone(t)
    BY <1>1, <1>4, <2>3 DEF UpdateSus, AfterUpdate, CopyTopic, OverrunStore, OverrunDone
  <2>4. CASE \/ Lock(t) \/ ReadName(t) \/ ReadSus(t) \/ StoreNone(t) \/ SplitSus(t)
             \/ StoreSus(t) \/ Finish(t) \/ Unlock(t)
    BY <1>1, <1>4, <2>4 DEF Lock, ReadName, ReadSus, StoreNone, SplitSus, StoreSus, Finish,
       Unlock
  <2> QED BY <1>4, <2>1, <2>2, <2>3, <2>4 DEF Thread, Register, Forward, HandshakeEOF,
          UpdateSusFault, ControlFault, LookupFault, ReadError, WriteFault, Dies
<1>5. BufOf(t)'
  <2>1. CASE Read(t)
    <3>1. /\ fd_pub[t] \in Clients /\ fd_pub' = fd_pub /\ rx[fd_pub[t]] # <<>>
          /\ rx'[fd_pub[t]] = <<>> /\ pc[t] = "read"
          /\ buf'[t] = rx[fd_pub[t]][1]
      BY <1>1, <2>1 DEF Read, RioLine, RioLeft, Goes, TypeOK
    <3>2. PICK p \in Clients : p = fd_pub[t] /\ p = fd_pub'[t]
      BY <3>1
    <3>3. Off(p) = 2
      BY <3>1, <3>2, ClientsAssumption DEF ServeInv, ServeOf, Serving, Off, Past, Forwarding
    <3>4. rx[p] \in Seq(Line) /\ Len(rx[p]) \in Nat /\ Len(rx[p]) >= 1
      BY <1>1, <3>1, <3>2 DEF TypeOK
    <3>5. IsLine(p, 2 + 1, rx[p][1])
      BY <3>3, <3>4 DEF StreamInv, StreamOf
    <3>6. /\ p \in Publishers /\ buf'[t].kind = "data" /\ buf'[t].from = p
          /\ buf'[t].seq \in 1 .. sent[p]
      BY <3>1, <3>2, <3>5 DEF IsLine
    <3>7. Len(rx'[p]) = 0
      BY <3>1, <3>2
    <3>8. /\ fd_pub'[t] \in Publishers /\ buf'[t].kind = "data" /\ buf'[t].from = fd_pub'[t]
          /\ buf'[t].seq \in 1 .. sent'[fd_pub'[t]] /\ Len(rx'[fd_pub'[t]]) = 0
      BY <1>1, <3>2, <3>6, <3>7
    <3> QED BY <3>8 DEF BufOf
  <2>2. CASE ~Read(t)
    <3>1. BufOf(t)
      BY DEF BufInv
    <3>2. pc'[t] \in Serving \ {"read"} =>
            pc[t] \in Serving \ {"read"} /\ buf'[t] = buf[t] /\ fd_pub'[t] = fd_pub[t]
      BY <1>4, <2>2
    <3> QED BY <1>1, <1>2, <3>1, <3>2, BufKept
  <2> QED BY <2>1, <2>2
<1> QED BY <1>3, <1>5 DEF BufInv

\* A step of a client keeps the messages in hand: a publisher writes a newer
\* one, and a client that still registers is not the one that is read from.
LEMMA ClientBuf ==
  ASSUME TypeOK, broker = "up", ServeInv, StreamInv, BufInv,
         NEW c \in Clients, Client(c) \/ Exit(c)
  PROVE  BufInv'
<1> SUFFICES ASSUME NEW t \in Clients, pc[t] \in Serving \ {"read"} PROVE BufOf(t)!2'
  BY ClientFrame DEF BufInv, BufOf
<1>1. UNCHANGED <<pc, buf, fd_pub>>
  BY ClientFrame DEF locals
<1>2. PICK p \in Publishers : p = fd_pub[t] /\ p = fd_pub'[t]
  BY <1>1 DEF BufInv, BufOf
<1>3. BufOf(t)!2 /\ p \in Clients
  BY <1>2 DEF BufInv, BufOf, Publishers
<1>4. /\ sent[p] \in Nat /\ rx[p] \in Seq(Line) /\ Len(rx[p]) \in Nat
  BY <1>3 DEF TypeOK
<1>5. CASE p # c
  BY <1>1, <1>2, <1>3, <1>5, ClientEffect
<1>6. CASE p = c /\ UNCHANGED <<rx, sent>>
  BY <1>1, <1>2, <1>3, <1>6
<1>7. CASE p = c /\ Publish(c)
  <2>1. sent'[p] = sent[p] + 1 /\ rx'[p] = Append(rx[p], DataLine(p, sent[p] + 1))
    BY <1>7 DEF Publish, Writes, TypeOK
  <2>2. DataLine(p, sent[p] + 1).seq = sent[p] + 1
    BY DEF DataLine
  <2>3. \A i \in 1 .. Len(rx'[p]) : i \in 1 .. Len(rx[p]) \/ rx'[p][i] = DataLine(p, sent[p] + 1)
    BY <1>4, <2>1, <1>3, LineTypes
  <2>4. \A i \in 1 .. Len(rx[p]) : rx'[p][i] = rx[p][i]
    BY <1>4, <2>1, LineTypes
  <2>5. buf[t].seq \in 1 .. sent'[p] /\ buf[t].seq < sent[p] + 1
    BY <1>2, <1>3, <1>4, <2>1
  <2>6. \A i \in 1 .. Len(rx'[p]) : buf[t].seq < rx'[p][i].seq
    BY <1>2, <1>3, <2>2, <2>3, <2>4, <2>5
  <2> QED BY <1>1, <1>2, <1>3, <2>5, <2>6
<1>8. CASE p = c /\ (SendName(c) \/ SendSus(c))
  <2>1. pc[p] \in Past
    BY <1>2, <1>3, ClientsAssumption DEF ServeInv, ServeOf, Serving
  <2>2. Off(p) = 2
    BY <2>1 DEF Off, Past, Forwarding
  <2>3. cpc[p] \in {"connected", "named"}
    BY <1>8 DEF SendName, SendSus, ClientGoes
  <2> QED BY <1>3, <1>4, <2>2, <2>3 DEF StreamInv, StreamOf
<1> QED BY <1>5, <1>6, <1>7, <1>8, ClientEffect

-----------------------------------------------------------------------------
\* What the sockets hold, in every state.
LEMMA SocketPartsHold == Spec => [](Live => SocketParts)
<1>1. Init => SocketParts
  BY DEF Init, BrokerInit, SocketParts, StreamInv, StreamOf, Off, Splits, BufInv, BufOf, Serving
<1>2. Base /\ (Live => ThreadParts) /\ (Live => SocketParts) /\ [Next]_vars
        => (Live => SocketParts)'
  <2> SUFFICES ASSUME Base, Live => ThreadParts, Live => SocketParts, [Next]_vars, Live'
               PROVE  SocketParts'
    OBVIOUS
  <2>1. /\ broker = "up" /\ broker' = "up" /\ Inv /\ TypeOK
        /\ ServeInv /\ StreamInv /\ BufInv
    <3>1. Live
      BY LiveBefore DEF Base, Live
    <3> QED BY <3>1 DEF Base, Inv, Live, ThreadParts, SocketParts
  <2>2. CASE (SigClose \/ SigExit) /\ UNCHANGED clientVars
    <3>1. UNCHANGED <<pc, rio, buf, fd_pub, rx, cpc, sent>>
      BY <2>1, <2>2 DEF SigClose, SigExit, locals, net, clientVars
    <3>2. \A u \in Clients : Off(u)' = Off(u)
      BY <3>1 DEF Off
    <3>3. StreamInv'
      BY <2>1, <3>1, <3>2, StreamKept DEF StreamInv
    <3>4. BufInv'
      BY <2>1, <3>1 DEF BufInv, BufOf
    <3> QED BY <3>3, <3>4 DEF SocketParts
  <2>3. ASSUME NEW t \in Clients, Accept(t), UNCHANGED clientVars PROVE SocketParts'
    <3>1. /\ pc[t] = "none" /\ pc' = [pc EXCEPT ![t] = "start"]
          /\ UNCHANGED <<rio, buf, fd_pub, rx, cpc, sent>>
      BY <2>3 DEF Accept, Goes, locals, net, clientVars
    <3>2. \A u \in Clients : pc'[u] = pc[u] \/ (u = t /\ pc'[u] = "start")
      BY <2>1, <3>1 DEF TypeOK
    <3>3. \A u \in Clients : Off(u)' = Off(u)
      BY <3>1, <3>2 DEF Off
    <3>4. ASSUME NEW u \in Clients PROVE StreamOf(u)'
      <4>1. StreamOf(u)
        BY <2>1 DEF StreamInv
      <4>2. pc'[u] = "sus" => pc[u] = "sus"
        BY <3>2
      <4>3. pc'[u] \in Splits => pc[u] \in Splits
        BY <3>2 DEF Splits
      <4> QED BY <3>1, <3>3, <4>1, <4>2, <4>3, StreamKept
    <3>5. ASSUME NEW u \in Clients PROVE BufOf(u)'
      <4>1. BufOf(u)
        BY <2>1 DEF BufInv
      <4>2. pc'[u] \in Serving \ {"read"} => pc[u] \in Serving \ {"read"}
        BY <3>2 DEF Serving
      <4> QED BY <3>1, <4>1, <4>2, BufKept
    <3> QED BY <3>4, <3>5 DEF SocketParts, StreamInv, BufInv
  <2>4. ASSUME NEW t \in Clients, Thread(t), UNCHANGED clientVars PROVE SocketParts'
    BY <2>1, <2>4, ThreadStream, ThreadBuf DEF SocketParts
  <2>5. ASSUME NEW c \in Clients, Client(c) \/ Exit(c) PROVE SocketParts'
    BY <2>1, <2>5, ClientStream, ClientBuf DEF SocketParts
  <2>6. CASE UNCHANGED vars
    <3>1. UNCHANGED <<pc, rio, buf, fd_pub, rx, cpc, sent>>
      BY <2>6 DEF vars, brokerVars, locals, net, clientVars
    <3>2. \A u \in Clients : Off(u)' = Off(u)
      BY <3>1 DEF Off
    <3>3. StreamInv'
      BY <2>1, <3>1, <3>2, StreamKept DEF StreamInv
    <3>4. BufInv'
      BY <2>1, <3>1 DEF BufInv, BufOf
    <3> QED BY <3>3, <3>4 DEF SocketParts
  <2> QED BY <2>2, <2>3, <2>4, <2>5, <2>6 DEF Next, BrokerNext
<1> QED BY <1>1, <1>2, BaseHolds, ThreadPartsHold, PTL DEF Spec

=============================================================================
