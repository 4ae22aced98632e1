----------------------------- MODULE MQTTProofs -----------------------------
(***************************************************************************)
(* Safety of the broker for any number of clients, any subscriptions and   *)
(* any bounds.                                                             *)
(***************************************************************************)
EXTENDS MQTT, FiniteSetTheorems, TLAPS

\* Where a thread has a line to work on, and where strtok has a place in one.
Shape ==
  \A t \in Clients :
    /\ pc[t] \in {"reg", "regLoad", "regStore", "update", "split", "fwdLoad",
                  "fwdStore", "write"} => buf[t] \in Line
    /\ pc[t] \in Splitting => olds \in Cursor
    /\ pc[t] \in {"regStore", "fwdStore"} => cur[t] \in Cursor

\* sem_mutex is a lock: free exactly when no thread registers.
MutexInv ==
  /\ mutex = 1 => \A t \in Clients : pc[t] \notin Registering
  /\ MutualExclusion

\* A registration that has not hit sem_control has a slot inside the lists.
BoundInv ==
  \A t \in Clients :
    pc[t] \in Registering \ {"unlock"} /\ control # BAD => fd_idx < LIMIT_CONN_CLIENTS

Inv == TypeOK /\ Shape /\ MutexInv /\ BoundInv

-----------------------------------------------------------------------------
\* Types of the constants and of the operators that compute values.
LEMMA ConstantTypes ==
  /\ LIMIT_CONN_CLIENTS \in Nat \ {0}
  /\ Wanted \in [Clients -> SUBSET Topics]
  /\ \A c \in Clients : Name[c] \in Names
  /\ Slots \subseteq Nat /\ 0 \in Slots /\ LIMIT_CONN_CLIENTS \in Slots
BY LimitAssumption, WantedAssumption DEF Names, Slots

\* The lines clients send are lines.
LEMMA LineTypes ==
  /\ \A c \in Clients : NameLine(c) \in Line /\ SusLine(c) \in Line
  /\ \A c \in Clients, n \in Nat : DataLine(c, n) \in Line
BY DEF NameLine, SusLine, DataLine, Line

\* A line has a number of tokens.
LEMMA TokensInType == \A line \in Line : TokensIn(line) \in Nat
BY LimitAssumption DEF TokensIn, Line

-----------------------------------------------------------------------------
\* The strtok calls store well-formed tokens and cursors.
LEMMA TokenTypes ==
  ASSUME NEW line \in Line
  PROVE  /\ [line |-> line, k |-> 1] \in Cursor
         /\ \A f \in Nat : [line |-> line, field |-> f] \in Token
         /\ \A k \in Nat : [line |-> line, k |-> k] \in Cursor
BY DEF Cursor, Token

\* What the next call of strtok returns and leaves behind.
LEMMA NextTypes ==
  ASSUME NEW t \in Clients, cur[t] \in Cursor
  PROVE  /\ cur[t].line \in Line /\ cur[t].k + 1 \in Nat
         /\ NextField(t) \in Nat /\ NextK(t) \in Nat
BY TokensInType DEF NextField, NextK, Cursor

\* Reading from and appending to a sequence keeps its type.
LEMMA SeqTypes ==
  ASSUME NEW S, NEW s \in Seq(S)
  PROVE  /\ s # <<>> => Head(s) \in S /\ Tail(s) \in Seq(S)
         /\ \A e \in S : Append(s, e) \in Seq(S)
         /\ \A e \in S : <<e>> \in Seq(S)
         /\ <<>> \in Seq(S)
         /\ \A k \in Nat \ {0} : k <= Len(s) => s[k] \in S
OBVIOUS

-----------------------------------------------------------------------------
\* The initial state satisfies the invariant.
LEMMA InitInv == Init => Inv
BY ConstantTypes DEF Init, BrokerInit, Inv, TypeOK, Shape, MutexInv, MutualExclusion,
   BoundInv, Slots, Topics, Names, Registering, Forwarding, Splitting, BAD

\* A move that does not enter the critical section keeps it exclusive, and one
\* that does not enter it before "unlock" keeps its slot inside the lists.
LEMMA MoveInv ==
  ASSUME Inv, NEW t \in Clients, NEW from, NEW to, Goes(t, from, to),
         UNCHANGED <<mutex, control, fd_idx>>,
         to \in Registering => from \in Registering,
         to \in Registering \ {"unlock"} => from \in Registering \ {"unlock"}
  PROVE  MutexInv' /\ BoundInv'
<1> USE DEF Inv, TypeOK, Goes
<1>1. \A u \in Clients : /\ pc'[u] \in Registering => pc[u] \in Registering
                         /\ pc'[u] \in Registering \ {"unlock"}
                              => pc[u] \in Registering \ {"unlock"}
  OBVIOUS
<1>2. MutexInv'
  BY <1>1 DEF MutexInv, MutualExclusion
<1>3. BoundInv'
  BY <1>1 DEF BoundInv
<1> QED BY <1>2, <1>3

\* A thread moves to a place of its program.
LEMMA GoesType ==
  ASSUME TypeOK, NEW t \in Clients, NEW from, NEW to, Goes(t, from, to),
         to \in Registering \cup Forwarding \cup {"none", "start", "wait"}
  PROVE  /\ pc' \in [Clients -> Registering \cup Forwarding \cup {"none", "start", "wait"}]
         /\ broker' = broker /\ closed' = closed
BY DEF Goes, TypeOK

\* A crash changes nothing but `broker'.
LEMMA DiesInv ==
  ASSUME Inv, NEW t \in Clients, NEW at, Dies(t, at), UNCHANGED clientVars
  PROVE  Inv'
BY DEF Dies, shared, locals, net, clientVars, Inv, TypeOK, Shape, MutexInv,
   MutualExclusion, BoundInv

\* The registration of a client.
LEMMA RegisterInv ==
  ASSUME Inv, NEW t \in Clients, Register(t), UNCHANGED clientVars
  PROVE  Inv'
<1> USE ConstantTypes DEF Inv, shared, locals, net, clientVars
<1>1. CASE Lock(t)
  <2>a. mutex' \in {0, 1} /\ control' \in Nat \cup {BAD}
    BY <1>1 DEF Lock, MutexFree, TypeOK
  <2>b. client_fd_list' \in [Slots -> Clients \cup {STDIN}]
    BY <1>1 DEF Lock, TypeOK
  <2>1. TypeOK'
    BY <1>1, <2>a, <2>b, GoesType DEF Lock, TypeOK, Registering
  <2>2. Shape'
    BY <1>1 DEF Lock, Goes, TypeOK, Shape, Splitting, MutexFree, BAD
  <2>3. MutexInv'
    BY <1>1 DEF Lock, Goes, TypeOK, MutexInv, MutualExclusion, Registering, MutexFree, BAD
  <2>4. BoundInv'
    <3>1. \A u \in Clients : pc[u] \notin Registering
      BY <1>1 DEF Lock, MutexFree, TypeOK, MutexInv
    <3>2. fd_idx \in Slots /\ fd_idx' = fd_idx
      BY <1>1 DEF Lock, TypeOK
    <3>3. control' # BAD => fd_idx # LIMIT_CONN_CLIENTS
      BY <1>1 DEF Lock
    <3> QED BY <3>2, <3>3 DEF BoundInv, Slots
  <2> QED BY <2>1, <2>2, <2>3, <2>4
<1>2. CASE ReadName(t)
  <2>1. TypeOK'
    BY <1>2 DEF ReadName, Goes, TypeOK, Registering, Forwarding, RioLeft
  <2>2. Shape'
    BY <1>2 DEF ReadName, Goes, TypeOK, Shape, Splitting, RioLeft
  <2>3. MutexInv' /\ BoundInv'
    BY <1>2, MoveInv DEF ReadName, Registering
  <2> QED BY <2>1, <2>2, <2>3
<1>3. CASE ReadSus(t)
  <2> DEFINE line == IF rio[t] # <<>> THEN Head(rio[t]) ELSE Head(rx[t])
  <2>a. line \in Line
    BY <1>3, SeqTypes DEF ReadSus, Goes, TypeOK
  <2>b. buf' = [buf EXCEPT ![t] = line]
    BY <1>3 DEF ReadSus, RioLine
  <2>c. rx' \in [Clients -> Seq(Line)]
    <3>1. <<>> \in Seq(Line) OBVIOUS
    <3>2. rx' = rx \/ rx' = [rx EXCEPT ![t] = <<>>]
      BY <1>3 DEF ReadSus, RioLeft
    <3> QED BY <3>1, <3>2 DEF TypeOK
  <2>d. rio' \in [Clients -> Seq(Line)]
    <3>1. <<>> \in Seq(Line) OBVIOUS
    <3> QED BY <3>1, <1>3 DEF ReadSus, TypeOK
  <2>e. buf' \in [Clients -> Line \cup {NULL}] /\ buf'[t] \in Line
    BY <2>a, <2>b DEF TypeOK
  <2> HIDE DEF line
  <2>1. TypeOK'
    BY <1>3, <2>c, <2>d, <2>e DEF ReadSus, Goes, TypeOK, Registering, Forwarding
  <2>2. Shape'
    BY <1>3, <2>c, <2>d, <2>e DEF ReadSus, Goes, TypeOK, Shape, Splitting
  <2>3. MutexInv' /\ BoundInv'
    BY <1>3, MoveInv DEF ReadSus, Registering
  <2> QED BY <2>1, <2>2, <2>3
<1>4. CASE HandshakeEOF(t)
  BY <1>4, DiesInv DEF HandshakeEOF
<1>5. CASE StoreNone(t)
  <2>1. TypeOK'
    BY <1>5 DEF StoreNone, Goes, TypeOK, Registering, Forwarding
  <2>2. Shape'
    BY <1>5 DEF StoreNone, Goes, TypeOK, Shape, Splitting
  <2>3. MutexInv' /\ BoundInv'
    BY <1>5, MoveInv DEF StoreNone, Registering
  <2> QED BY <2>1, <2>2, <2>3
<1>6. CASE SplitSus(t)
  <2>a. buf[t] \in Line
    BY <1>6 DEF SplitSus, Goes, Shape
  <2>1. TypeOK'
    BY <1>6, <2>a, TokenTypes, SeqTypes DEF SplitSus, Goes, TypeOK, Registering, Forwarding,
       StrtokFirst
  <2>2. Shape'
    BY <1>6, <2>a, TokenTypes, SeqTypes DEF SplitSus, Goes, TypeOK, Shape, Splitting, StrtokFirst
  <2>3. MutexInv' /\ BoundInv'
    BY <1>6, MoveInv DEF SplitSus, Registering, StrtokFirst
  <2> QED BY <2>1, <2>2, <2>3
<1>7. CASE StoreSus(t)
  <2>1. TypeOK'
    BY <1>7 DEF StoreSus, Goes, TypeOK, Registering, Forwarding, StrtokEnd, Shape
  <2>2. Shape'
    BY <1>7 DEF StoreSus, Goes, TypeOK, Shape, Splitting, StrtokEnd, Shape
  <2>3. MutexInv' /\ BoundInv'
    BY <1>7, MoveInv DEF StoreSus, Registering, StrtokEnd
  <2> QED BY <2>1, <2>2, <2>3
<1>8. CASE UpdateSus(t)
  <2>a. PICK S \in SUBSET Topics : /\ Goes(t, "update", AfterUpdate(S))
                                   /\ want' = [want EXCEPT ![t] = S]
    BY <1>8 DEF UpdateSus, WrongRows, Topics
  <2>b. AfterUpdate(S) \in {"copy", "finish"}
    BY DEF AfterUpdate
  <2>1. TypeOK'
    <3>1. want' \in [Clients -> SUBSET Topics]
      BY <2>a DEF TypeOK
    <3>2. buf' \in [Clients -> Line \cup {NULL}] /\ argv' \in [Clients -> Seq(Token)]
      BY <1>8, SeqTypes DEF UpdateSus, TypeOK
    <3> QED BY <1>8, <2>a, <2>b, <3>1, <3>2, GoesType DEF UpdateSus, TypeOK, Registering
  <2>2. Shape'
    BY <1>8, <2>a, <2>b DEF UpdateSus, Goes, TypeOK, Shape, Splitting
  <2>3. MutexInv' /\ BoundInv'
    BY <1>8, MoveInv DEF UpdateSus, Registering
  <2> QED BY <2>1, <2>2, <2>3
<1>9. CASE UpdateSusFault(t)
  BY <1>9, DiesInv DEF UpdateSusFault
<1>10. CASE CopyTopic(t)
  <2>1. TypeOK'
    BY <1>10 DEF CopyTopic, Goes, TypeOK, Registering, Forwarding
  <2>2. Shape'
    BY <1>10 DEF CopyTopic, Goes, TypeOK, Shape, Splitting
  <2>3. MutexInv' /\ BoundInv'
    BY <1>10, MoveInv DEF CopyTopic, Registering
  <2> QED BY <2>1, <2>2, <2>3
<1>11. CASE Finish(t)
  <2>1. TypeOK'
    <3>1. fd_idx' \in Slots
      <4>1. fd_idx < LIMIT_CONN_CLIENTS /\ fd_idx' = fd_idx + 1
        BY <1>11 DEF Finish, Goes, BoundInv, Registering
      <4>2. fd_idx \in Slots
        BY DEF TypeOK
      <4> QED BY <4>1, <4>2 DEF Slots
    <3>2. control' \in Nat \cup {BAD}
      BY <1>11 DEF Finish, TypeOK
    <3>3. want' \in [Clients -> SUBSET Topics]
      BY <1>11 DEF Finish, TypeOK
    <3> QED BY <1>11, <3>1, <3>2, <3>3, GoesType DEF Finish, TypeOK, Registering
  <2>2. Shape'
    BY <1>11 DEF Finish, Goes, TypeOK, Shape, Splitting, EnoughClients, BAD, BoundInv, Slots
  <2>3. MutexInv'
    BY <1>11 DEF Finish, Goes, TypeOK, MutexInv, MutualExclusion, Registering, EnoughClients,
       BAD, BoundInv, Slots
  <2>4. BoundInv'
    BY <1>11 DEF Finish, Goes, TypeOK, BoundInv, MutexInv, MutualExclusion, Registering, Slots,
       EnoughClients, BAD, BoundInv, Slots
  <2> QED BY <2>1, <2>2, <2>3, <2>4
<1>12. CASE Unlock(t)
  <2>1. TypeOK'
    BY <1>12 DEF Unlock, Goes, TypeOK, Registering, Forwarding, MutexInv
  <2>2. Shape'
    BY <1>12 DEF Unlock, Goes, TypeOK, Shape, Splitting, MutexInv
  <2>3. MutexInv'
    BY <1>12 DEF Unlock, Goes, TypeOK, MutexInv, MutualExclusion, Registering, MutexInv
  <2>4. BoundInv'
    BY <1>12 DEF Unlock, Goes, TypeOK, BoundInv, MutexInv, MutualExclusion, Registering, Slots,
       MutexInv
  <2> QED BY <2>1, <2>2, <2>3, <2>4
<1>13. CASE ControlFault(t)
  BY <1>13, DiesInv DEF ControlFault
<1>14. CASE OverrunStore(t)
  <2>a. PICK i \in Overlapped, torn \in {TORN, NULL} :
          client_name_list' = [client_name_list EXCEPT ![i] = torn]
    BY <1>14 DEF OverrunStore
  <2>b. client_name_list' \in [Slots -> Names \cup {NULL, THREAD_ID, TORN}]
    BY <2>a DEF TypeOK, Overlapped
  <2>c. topic_list' \in [Slots -> SUBSET Topics]
    <3>1. PICK k \in Topics :
            topic_list' = [topic_list EXCEPT ![fd_idx] = @ \ ({k} \ want[t])]
      BY <1>14 DEF OverrunStore
    <3> QED BY <3>1 DEF TypeOK
  <2>1. TypeOK'
    BY <1>14, <2>b, <2>c DEF OverrunStore, Goes, TypeOK, Registering, Forwarding
  <2>2. Shape'
    BY <1>14 DEF OverrunStore, Goes, TypeOK, Shape, Splitting
  <2>3. MutexInv' /\ BoundInv'
    BY <1>14, MoveInv DEF OverrunStore, Registering
  <2> QED BY <2>1, <2>2, <2>3
<1>15. CASE OverrunDone(t)
  <2>1. TypeOK'
    BY <1>15 DEF OverrunDone, Goes, TypeOK, Registering, Forwarding
  <2>2. Shape'
    BY <1>15 DEF OverrunDone, Goes, TypeOK, Shape, Splitting
  <2>3. MutexInv' /\ BoundInv'
    BY <1>15, MoveInv DEF OverrunDone, Registering
  <2> QED BY <2>1, <2>2, <2>3
<1> QED BY <1>1, <1>2, <1>3, <1>4, <1>5, <1>6, <1>7, <1>8, <1>9, <1>10, <1>11, <1>12,
   <1>13, <1>14, <1>15 DEF Register

\* The static pointer of strtok.
LEMMA StrtokInv ==
  ASSUME Inv, NEW t \in Clients, Strtok(t), UNCHANGED clientVars
  PROVE  Inv'
<1> USE ConstantTypes DEF Inv, shared, locals, net, clientVars
<1>1. CASE StrtokLoad(t)
  <2>1. TypeOK'
    BY <1>1 DEF StrtokLoad, Goes, TypeOK, Registering, Forwarding
  <2>2. Shape'
    BY <1>1 DEF StrtokLoad, Goes, TypeOK, Shape, Splitting
  <2>3. MutexInv' /\ BoundInv'
    BY <1>1, MoveInv DEF StrtokLoad, Registering
  <2> QED BY <2>1, <2>2, <2>3
<1>2. CASE StrtokStore(t)
  <2>a. cur[t] \in Cursor
    BY <1>2 DEF StrtokStore, Goes, Shape
  <2>b. olds' \in Cursor
    BY <1>2, <2>a, NextTypes, TokenTypes DEF StrtokStore
  <2>d. nuls' \subseteq Cursor
    BY <1>2, <2>a, NextTypes, TokenTypes DEF StrtokStore, TypeOK
  <2>c. argv' \in [Clients -> Seq(Token)]
    BY <1>2, <2>a, NextTypes, TokenTypes, SeqTypes DEF StrtokStore, TypeOK
  <2>1. TypeOK'
    BY <1>2, <2>b, <2>c, <2>d DEF StrtokStore, Goes, TypeOK, Registering, Forwarding
  <2>2. Shape'
    BY <1>2, <2>b, <2>c DEF StrtokStore, Goes, TypeOK, Shape, Splitting
  <2>3. MutexInv' /\ BoundInv'
    BY <1>2, MoveInv DEF StrtokStore, Registering
  <2> QED BY <2>1, <2>2, <2>3
<1> QED BY <1>1, <1>2 DEF Strtok

\* The forwarding of messages.
LEMMA ForwardInv ==
  ASSUME Inv, NEW t \in Clients, Forward(t), UNCHANGED clientVars
  PROVE  Inv'
<1> USE ConstantTypes DEF Inv, shared, locals, net, clientVars
<1>1. CASE WaitControl(t)
  <2>1. TypeOK'
    BY <1>1 DEF WaitControl, Goes, TypeOK, Registering, Forwarding, BAD
  <2>2. Shape'
    BY <1>1 DEF WaitControl, Goes, TypeOK, Shape, Splitting, BAD
  <2>3. MutexInv'
    BY <1>1 DEF WaitControl, Goes, TypeOK, MutexInv, MutualExclusion, Registering, BAD
  <2>4. BoundInv'
    BY <1>1 DEF WaitControl, Goes, TypeOK, BoundInv, MutexInv, MutualExclusion, Registering,
       Slots, BAD
  <2> QED BY <2>1, <2>2, <2>3, <2>4
<1>2. CASE ScanPast(t)
  <2>1. TypeOK'
    BY <1>2 DEF ScanPast, Goes, TypeOK, Registering, Forwarding, SusAt
  <2>2. Shape'
    BY <1>2 DEF ScanPast, Goes, TypeOK, Shape, Splitting, SusAt
  <2>3. MutexInv' /\ BoundInv'
    BY <1>2, MoveInv DEF ScanPast, Registering
  <2> QED BY <2>1, <2>2, <2>3
<1>3. CASE ScanRow(t)
  <2>1. TypeOK'
    BY <1>3 DEF ScanRow, Goes, TypeOK, Registering, Forwarding, SusAt
  <2>2. Shape'
    BY <1>3 DEF ScanRow, Goes, TypeOK, Shape, Splitting, SusAt
  <2>3. MutexInv' /\ BoundInv'
    BY <1>3, MoveInv DEF ScanRow, Registering
  <2> QED BY <2>1, <2>2, <2>3
<1>4. CASE Lookup(t)
  <2>a. \A name : FdsOf(name) \subseteq Clients \cup {STDIN}
    BY DEF FdsOf, FdAt, TypeOK
  <2>1. TypeOK'
    BY <1>4, <2>a DEF Lookup, Goes, TypeOK, Registering, Forwarding
  <2>2. Shape'
    BY <1>4 DEF Lookup, Goes, TypeOK, Shape, Splitting
  <2>3. MutexInv' /\ BoundInv'
    BY <1>4, MoveInv DEF Lookup, Registering
  <2> QED BY <2>1, <2>2, <2>3
<1>5. CASE LookupFault(t)
  BY <1>5, DiesInv DEF LookupFault
<1>6. CASE Read(t)
  <2>a. Head(rx[fd_pub[t]]) \in Line
    BY <1>6, SeqTypes DEF Read, TypeOK
  <2>b. rx' \in [Clients -> Seq(Line)]
    <3>1. <<>> \in Seq(Line) OBVIOUS
    <3>2. rx' = [rx EXCEPT ![fd_pub[t]] = <<>>]
      BY <1>6 DEF Read, RioLeft
    <3> QED BY <3>1, <3>2 DEF TypeOK
  <2>1. TypeOK'
    BY <1>6, <2>a, <2>b DEF Read, Goes, TypeOK, Registering, Forwarding, RioLeft, RioLine
  <2>2. Shape'
    BY <1>6, <2>a, <2>b DEF Read, Goes, TypeOK, Shape, Splitting, RioLeft, RioLine
  <2>3. MutexInv' /\ BoundInv'
    BY <1>6, MoveInv DEF Read, Registering
  <2> QED BY <2>1, <2>2, <2>3
<1>7. CASE ReadNothing(t)
  <2>1. TypeOK'
    BY <1>7 DEF ReadNothing, Goes, TypeOK, Registering, Forwarding, NextRow
  <2>2. Shape'
    BY <1>7 DEF ReadNothing, Goes, TypeOK, Shape, Splitting, NextRow
  <2>3. MutexInv' /\ BoundInv'
    BY <1>7, MoveInv DEF ReadNothing, Registering, NextRow
  <2> QED BY <2>1, <2>2, <2>3
<1>8. CASE ReadError(t)
  BY <1>8, DiesInv DEF ReadError
<1>9. CASE SplitMsg(t)
  <2>a. buf[t] \in Line
    BY <1>9 DEF SplitMsg, Goes, Shape
  <2>1. TypeOK'
    BY <1>9, <2>a, TokenTypes, SeqTypes DEF SplitMsg, Goes, TypeOK, Registering, Forwarding,
       StrtokFirst
  <2>2. Shape'
    BY <1>9, <2>a, TokenTypes, SeqTypes DEF SplitMsg, Goes, TypeOK, Shape, Splitting, StrtokFirst
  <2>3. MutexInv' /\ BoundInv'
    BY <1>9, MoveInv DEF SplitMsg, Registering, StrtokFirst
  <2> QED BY <2>1, <2>2, <2>3
<1>10. CASE SplitEnd(t)
  <2>1. TypeOK'
    BY <1>10 DEF SplitEnd, Goes, TypeOK, Registering, Forwarding, StrtokEnd, Shape
  <2>2. Shape'
    BY <1>10 DEF SplitEnd, Goes, TypeOK, Shape, Splitting, StrtokEnd, Shape
  <2>3. MutexInv' /\ BoundInv'
    BY <1>10, MoveInv DEF SplitEnd, Registering, StrtokEnd
  <2> QED BY <2>1, <2>2, <2>3
<1>11. CASE WriteTopic(t)
  <2>a. PICK k \in Topics :
          tx' = [c \in Clients |->
                   IF c = fd_sus[t] /\ peer[c] = "open"
                     THEN Append(tx[c], [topic |-> k, token |-> FieldSent(t, k)])
                     ELSE tx[c]]
    BY <1>11 DEF WriteTopic
  <2>b. FieldSent(t, k) \in Token
    <3>1. buf[t] \in Line
      BY <1>11 DEF WriteTopic, Goes, Shape
    <3>2. CASE k <= Len(argv[t])
      <4>1. argv[t] \in Seq(Token) /\ k \in Nat \ {0}
        BY DEF TypeOK, Topics
      <4>2. argv[t][k] \in Token
        BY <3>2, <4>1, SeqTypes
      <4> QED BY <3>2, <4>2 DEF FieldSent
    <3>3. CASE ~(k <= Len(argv[t]))
      BY <3>1, <3>3, TokenTypes DEF FieldSent
    <3> QED BY <3>2, <3>3
  <2>c. [topic |-> k, token |-> FieldSent(t, k)] \in Sends
    BY <2>b DEF Sends
  <2>d. tx' \in [Clients -> Seq(Sends)]
    BY <2>a, <2>c, SeqTypes DEF TypeOK
  <2>e. peer' \in [Clients -> {"none", "open", "closed", "reset"}]
    BY <1>11 DEF WriteTopic, TypeOK
  <2>1. TypeOK'
    BY <1>11, <2>d, <2>e DEF WriteTopic, Goes, TypeOK, Registering, Forwarding
  <2>2. Shape'
    BY <1>11, <2>d, <2>e DEF WriteTopic, Goes, TypeOK, Shape, Splitting
  <2>3. MutexInv' /\ BoundInv'
    BY <1>11, MoveInv DEF WriteTopic, Registering
  <2> QED BY <2>1, <2>2, <2>3
<1>12. CASE WriteFault(t)
  BY <1>12, DiesInv DEF WriteFault
<1>13. CASE WriteDone(t)
  <2>1. TypeOK'
    <3>1. row' \in [Clients -> Nat]
      BY <1>13 DEF WriteDone, NextRow, TypeOK
    <3>2. want' \in [Clients -> SUBSET Topics] /\ buf' \in [Clients -> Line \cup {NULL}]
      BY <1>13 DEF WriteDone, NextRow, TypeOK
    <3>3. /\ fd_pub' \in [Clients -> Clients \cup {STDIN}]
          /\ fd_sus' \in [Clients -> Clients \cup {STDIN}]
      BY <1>13 DEF WriteDone, NextRow, TypeOK
    <3>4. argv' \in [Clients -> Seq(Token)]
      BY <1>13, SeqTypes DEF WriteDone, NextRow, TypeOK
    <3> QED BY <1>13, <3>1, <3>2, <3>3, <3>4, GoesType
            DEF WriteDone, NextRow, TypeOK, Forwarding
  <2>2. Shape'
    BY <1>13 DEF WriteDone, Goes, TypeOK, Shape, Splitting, NextRow
  <2>3. MutexInv' /\ BoundInv'
    BY <1>13, MoveInv DEF WriteDone, Registering, NextRow
  <2> QED BY <2>1, <2>2, <2>3
<1> QED BY <1>1, <1>2, <1>3, <1>4, <1>5, <1>6, <1>7, <1>8, <1>9, <1>10, <1>11, <1>12,
   <1>13 DEF Forward

\* Accepting a connection starts a thread outside the critical section.
LEMMA AcceptInv ==
  ASSUME Inv, NEW t \in Clients, Accept(t), UNCHANGED clientVars
  PROVE  Inv'
<1>1. TypeOK'
  BY ConstantTypes DEF Inv, Accept, Goes, locals, net, clientVars, TypeOK, Registering,
     Forwarding
<1>2. Shape'
  BY DEF Inv, Accept, Goes, locals, TypeOK, Shape, Splitting
<1>3. MutexInv' /\ BoundInv'
  BY MoveInv DEF Accept, Registering
<1> QED BY <1>1, <1>2, <1>3 DEF Inv

\* sig_handler empties the descriptor list and ends the process.
LEMMA SigInv ==
  ASSUME Inv, SigClose \/ SigExit, UNCHANGED clientVars
  PROVE  Inv'
<1> USE ConstantTypes DEF SigClose, SigExit, shared, locals, net, clientVars, Inv, TypeOK
<1>1. TypeOK'
  <2>1. closed' \in Slots /\ fd_idx' \in Slots
    BY DEF Slots
  <2>2. client_fd_list' \in [Slots -> Clients \cup {STDIN}]
    OBVIOUS
  <2> QED BY <2>1, <2>2
<1>2. Shape' /\ MutexInv'
  BY DEF Shape, MutexInv, MutualExclusion
<1>3. BoundInv'
  BY DEF BoundInv
<1> QED BY <1>1, <1>2, <1>3

\* The clients only touch the sockets and their own state.
LEMMA ClientInv ==
  ASSUME Inv, NEW c \in Clients, Client(c) \/ Exit(c)
  PROVE  Inv'
<1> USE DEF Inv, ClientGoes, shared, locals, net
<1>1. UNCHANGED <<broker, closed, shared, pc, locals>>
  BY DEF Client, Connect, SendName, SendSus, HandshakeBroken, Publish, PublishLost,
     PublishBroken, Show, SubEOF, Exit
<1>2. Shape' /\ MutexInv' /\ BoundInv'
  BY <1>1 DEF Shape, MutexInv, MutualExclusion, BoundInv
<1>3. TypeOK'
  <2>1. CASE Connect(c)
    BY <2>1 DEF Connect, TypeOK
  <2>2. CASE SendName(c)
    <3>1. rx' \in [Clients -> Seq(Line)]
      BY <2>2, LineTypes, SeqTypes DEF SendName, Writes, TypeOK
    <3> QED BY <2>2, <3>1 DEF SendName, TypeOK
  <2>3. CASE SendSus(c)
    <3>1. rx' \in [Clients -> Seq(Line)]
      BY <2>3, LineTypes, SeqTypes DEF SendSus, Writes, TypeOK
    <3> QED BY <2>3, <3>1 DEF SendSus, TypeOK
  <2>4. CASE HandshakeBroken(c)
    BY <2>4 DEF HandshakeBroken, TypeOK
  <2>5. CASE Publish(c)
    <3>1. DataLine(c, sent[c] + 1) \in Line
      BY LineTypes DEF TypeOK
    <3>2. rx' \in [Clients -> Seq(Line)]
      BY <2>5, <3>1, SeqTypes DEF Publish, Writes, TypeOK
    <3>3. sent' \in [Clients -> Nat] /\ cpc' = [cpc EXCEPT ![c] = "running"]
      BY <2>5 DEF Publish, TypeOK
    <3> QED BY <2>5, <3>2, <3>3 DEF Publish, TypeOK
  <2>6. CASE PublishLost(c) \/ PublishBroken(c)
    BY <2>6 DEF PublishLost, PublishBroken, TypeOK
  <2>7. CASE Show(c)
    BY <2>7 DEF Show, TypeOK
  <2>8. CASE SubEOF(c)
    BY <2>8 DEF SubEOF, TypeOK
  <2>9. CASE Exit(c)
    <3>1. PICK end \in {"closed", "reset"} : peer' = [peer EXCEPT ![c] = end]
      BY <2>9 DEF Exit
    <3>2. cpc' = [cpc EXCEPT ![c] = "gone"]
      BY <2>9 DEF Exit
    <3> QED BY <2>9, <3>1, <3>2 DEF Exit, TypeOK
  <2> QED BY <2>1, <2>2, <2>3, <2>4, <2>5, <2>6, <2>7, <2>8, <2>9 DEF Client
<1> QED BY <1>2, <1>3

\* Every step of the system preserves the invariant.
LEMMA NextInv ==
  ASSUME Inv, [Next]_vars
  PROVE  Inv'
<1>1. CASE BrokerNext /\ UNCHANGED clientVars
  <2>1. CASE SigClose \/ SigExit
    BY <1>1, <2>1, SigInv
  <2>2. ASSUME NEW t \in Clients, Accept(t) PROVE Inv'
    BY <1>1, <2>2, AcceptInv
  <2>3. ASSUME NEW t \in Clients, Thread(t) PROVE Inv'
    BY <1>1, <2>3, RegisterInv, StrtokInv, ForwardInv DEF Thread
  <2> QED BY <1>1, <2>1, <2>2, <2>3 DEF BrokerNext
<1>2. ASSUME NEW c \in Clients, Client(c) \/ Exit(c) PROVE Inv'
  BY <1>2, ClientInv
<1>3. CASE UNCHANGED vars
  BY <1>3 DEF vars, brokerVars, clientVars, shared, locals, net, Inv, TypeOK, Shape,
     MutexInv, MutualExclusion, BoundInv
<1> QED BY <1>1, <1>2, <1>3 DEF Next

\* Inv is an invariant of the system.
LEMMA InvHolds == Spec => []Inv
<1>1. Init => Inv
  BY InitInv
<1>2. Inv /\ [Next]_vars => Inv'
  BY NextInv
<1> QED BY <1>1, <1>2, PTL DEF Spec

\* Type correctness.  It includes that sem_mutex never exceeds 1 and that
\* fd_idx never passes the end of the lists: the client that would take it
\* there overwrites sem_control and the broker faults before line 242.
THEOREM TypeCorrect == Spec => []TypeOK
<1>1. Inv => TypeOK
  BY DEF Inv
<1> QED BY <1>1, InvHolds, PTL

\* No two threads are between lines 189 and 249 at the same time.
THEOREM RegistrationExclusive == Spec => []MutualExclusion
<1>1. Inv => MutualExclusion
  BY DEF Inv, MutexInv
<1> QED BY <1>1, InvHolds, PTL

-----------------------------------------------------------------------------
(* The rows of the parallel lists.                                         *)

Past == {"unlock", "wait"} \cup Forwarding
Storing == {"update", "copy", "finish"}

\* A counted row belongs to one client, whose registration is over.
CountedRows ==
  \A i \in Slots : i < fd_idx =>
    /\ client_fd_list[i] \in Clients
    /\ client_name_list[i] = Name[client_fd_list[i]] \/ control = BAD
    /\ client_sus_list[i] = Sus[client_fd_list[i]]
    /\ pc[client_fd_list[i]] \in Past
    /\ \A k \in 0 .. i - 1 : client_fd_list[k] # client_fd_list[i]

\* Row fd_idx belongs to the thread in the critical section, as far as it got.
OpenRow ==
  \A t \in Clients : pc[t] \in Registering \ {"unlock"} =>
    /\ client_fd_list[fd_idx] = t
    /\ pc[t] \notin {"name", "sus"} => client_name_list[fd_idx] = Name[t] \/ control = BAD
    /\ pc[t] \in Storing => client_sus_list[fd_idx] = Sus[t]

\* Nothing is visible behind the counted rows but the row being registered.
NothingBehind ==
  \A i \in Slots : i >= fd_idx /\ client_sus_list[i] # NULL =>
    i = fd_idx /\ \E t \in Clients : pc[t] \in Storing

\* sem_control is posted, and a thread let through, only with two clients.
TwoClients ==
  /\ control > 0 => fd_idx >= 2
  /\ \A t \in Clients : pc[t] \in Forwarding => fd_idx >= 2

RowParts == CountedRows /\ OpenRow /\ NothingBehind /\ TwoClients
RowInv == broker = "up" => RowParts

\* A move that touches neither the lists nor the counters keeps the rows, if
\* it stays in the part of the registration it was in.  Names may be torn once
\* the lists have overflown.
LEMMA MoveRows ==
  ASSUME Inv, RowInv, NEW t \in Clients, NEW from, NEW to, Goes(t, from, to),
         UNCHANGED <<control, fd_idx, client_fd_list, client_sus_list>>,
         \/ control = BAD
         \/ \A i \in Slots : i < LIMIT_CONN_CLIENTS => client_name_list'[i] = client_name_list[i],
         from \in Past => to \in Past,
         to \in Registering \ {"unlock"} => from \in Registering \ {"unlock"},
         from \in {"name", "sus"} => to \in {"name", "sus"},
         to \in Storing <=> from \in Storing,
         to \in Forwarding => from \in Forwarding
  PROVE  RowInv'
<1> USE DEF Inv, TypeOK, Goes
<1>0. RowParts
  BY DEF RowInv
<1>1. \A u \in Clients : /\ pc[u] \in Past => pc'[u] \in Past
                         /\ pc'[u] \in Registering \ {"unlock"}
                              => pc[u] \in Registering \ {"unlock"}
                         /\ pc[u] \in {"name", "sus"} => pc'[u] \in {"name", "sus"}
                         /\ pc'[u] \in Storing <=> pc[u] \in Storing
                         /\ pc'[u] \in Forwarding => pc[u] \in Forwarding
  OBVIOUS
<1>2. CountedRows'
  <2>1. \A i \in Slots : i < fd_idx => i < LIMIT_CONN_CLIENTS
    BY ConstantTypes DEF Slots
  <2> QED BY <1>0, <1>1, <2>1 DEF RowParts, CountedRows
<1>3. OpenRow'
  <2>1. \A u \in Clients : pc'[u] \in Registering \ {"unlock"} /\ control # BAD =>
          fd_idx \in Slots /\ fd_idx < LIMIT_CONN_CLIENTS
    BY <1>1 DEF BoundInv
  <2> QED BY <1>0, <1>1, <2>1 DEF RowParts, OpenRow
<1>4. NothingBehind'
  BY <1>0, <1>1 DEF RowParts, NothingBehind
<1>5. TwoClients'
  BY <1>0, <1>1 DEF RowParts, TwoClients
<1> QED BY <1>2, <1>3, <1>4, <1>5 DEF RowInv, RowParts

\* The memory below row fd_idx keeps the counted rows, while a thread that is
\* not in one of them moves.
LEMMA CountedKept ==
  ASSUME TypeOK, CountedRows, NEW t \in Clients, NEW to, pc[t] \notin Past,
         pc' = [pc EXCEPT ![t] = to], fd_idx' = fd_idx, control' \in {control, BAD},
         \A k \in Slots : k < fd_idx => /\ client_fd_list'[k] = client_fd_list[k]
                                       /\ client_name_list'[k] = client_name_list[k]
                                       /\ client_sus_list'[k] = client_sus_list[k]
  PROVE  CountedRows'
<1> SUFFICES ASSUME NEW i \in Slots, i < fd_idx
             PROVE  CountedRows!(i)!2'
  BY DEF CountedRows
<1>1. \A k \in 0 .. i - 1 : k \in Slots /\ k < fd_idx
  BY LimitAssumption DEF Slots, TypeOK
<1>4. control # BAD \/ control' = BAD
  OBVIOUS
<1>2. client_fd_list[i] # t
  BY DEF CountedRows
<1>3. \A k \in 0 .. i - 1 : client_fd_list'[k] # client_fd_list'[i]
  BY <1>1 DEF CountedRows
<1> QED BY <1>2, <1>3 DEF CountedRows, TypeOK

\* The steps that write the lists or the counters.
LEMMA LockRows ==
  ASSUME Inv, RowInv, NEW t \in Clients, Lock(t)
  PROVE  RowInv'
<1> USE ConstantTypes DEF Inv, Lock, MutexFree, Goes
<1>0. RowParts
  BY DEF RowInv
<1>1. \A u \in Clients : pc[u] \notin Registering
  BY DEF TypeOK, MutexInv
<1>2. CountedRows'
  <2>1. \A k \in Slots : k < fd_idx => client_fd_list'[k] = client_fd_list[k]
    BY DEF TypeOK
  <2>2. pc[t] \notin Past /\ pc' = [pc EXCEPT ![t] = "name"]
    BY DEF Past, Forwarding
  <2>3. CountedRows /\ TypeOK
    BY <1>0 DEF RowParts
  <2> QED BY <2>1, <2>2, <2>3, CountedKept
<1>3. OpenRow'
  BY <1>1 DEF TypeOK, OpenRow, Storing, Registering
<1>4. NothingBehind'
  BY <1>0, <1>1 DEF RowParts, NothingBehind, Storing, Registering
<1>5. TwoClients'
  BY <1>0 DEF RowParts, TwoClients, Forwarding, BAD
<1> QED BY <1>2, <1>3, <1>4, <1>5 DEF RowInv, RowParts

\* Line 207 names the row being registered.
LEMMA ReadSusRows ==
  ASSUME Inv, RowInv, NEW t \in Clients, ReadSus(t)
  PROVE  RowInv'
<1> USE ConstantTypes DEF Inv, ReadSus, Goes
<1>0. RowParts
  BY DEF RowInv
<1>2. CountedRows'
  <2>1. \A k \in Slots : k < fd_idx => client_name_list'[k] = client_name_list[k]
    BY DEF TypeOK
  <2>2. pc[t] \notin Past /\ pc' = [pc EXCEPT ![t] = "reg"]
    BY DEF Past, Forwarding
  <2>3. CountedRows /\ TypeOK
    BY <1>0 DEF RowParts
  <2> QED BY <2>1, <2>2, <2>3, CountedKept
<1>3. OpenRow'
  BY <1>0 DEF TypeOK, RowParts, OpenRow, Storing, Registering, MutexInv, MutualExclusion
<1>4. NothingBehind'
  BY <1>0 DEF RowParts, NothingBehind, Storing
<1>5. TwoClients'
  BY <1>0 DEF RowParts, TwoClients, Forwarding
<1> QED BY <1>2, <1>3, <1>4, <1>5 DEF RowInv, RowParts

\* Lines 220 and 227 make the row visible.
LEMMA StoreRows ==
  ASSUME Inv, RowInv, NEW t \in Clients, StoreNone(t) \/ StoreSus(t)
  PROVE  RowInv'
<1> USE ConstantTypes DEF Inv, Goes
<1>0. RowParts
  BY DEF RowInv, StoreNone, StoreSus
<1>1. /\ pc[t] \in {"reg", "regStore"}
      /\ pc' = [pc EXCEPT ![t] = "finish"] \/ pc' = [pc EXCEPT ![t] = "update"]
      /\ client_sus_list' = [client_sus_list EXCEPT ![fd_idx] = Sus[t]]
      /\ UNCHANGED <<control, fd_idx, client_fd_list, client_name_list>>
  BY DEF StoreNone, StoreSus, StrtokEnd
<1>2. CountedRows'
  <2>1. \A k \in Slots : k < fd_idx => client_sus_list'[k] = client_sus_list[k]
    BY <1>1 DEF TypeOK
  <2>2. pc[t] \notin Past
    BY <1>1 DEF Past, Forwarding
  <2>3. CountedRows /\ TypeOK
    BY <1>0 DEF RowParts
  <2> QED BY <1>1, <2>1, <2>2, <2>3, CountedKept
<1>3. OpenRow'
  <2>1. pc[t] \in Registering \ {"unlock"} /\ pc[t] \notin {"name", "sus"}
    BY <1>1 DEF Registering
  <2>2. \A u \in Clients : u # t => pc'[u] \notin Registering
    BY <1>1, <2>1 DEF TypeOK, MutexInv, MutualExclusion
  <2>3. client_fd_list[fd_idx] = t /\ (client_name_list[fd_idx] = Name[t] \/ control = BAD)
    BY <1>0, <2>1 DEF RowParts, OpenRow
  <2> QED BY <1>1, <2>2, <2>3 DEF TypeOK, OpenRow
<1>4. NothingBehind'
  BY <1>0, <1>1 DEF TypeOK, RowParts, NothingBehind, Storing
<1>5. TwoClients'
  BY <1>0, <1>1 DEF TypeOK, RowParts, TwoClients, Forwarding
<1> QED BY <1>2, <1>3, <1>4, <1>5 DEF RowInv, RowParts

\* Line 242 counts the row.
LEMMA FinishRows ==
  ASSUME Inv, RowInv, NEW t \in Clients, Finish(t)
  PROVE  RowInv'
<1> USE ConstantTypes DEF Inv, TypeOK, Finish, Goes
<1>0. RowParts
  BY DEF RowInv
<1>1. /\ fd_idx \in Nat /\ fd_idx < LIMIT_CONN_CLIENTS
      /\ \A u \in Clients : u # t => pc[u] \notin Registering
  BY DEF BoundInv, MutexInv, MutualExclusion, Registering, Slots
<1>2. CountedRows'
  <2> SUFFICES ASSUME NEW i \in Slots, i < fd_idx + 1
               PROVE  CountedRows!(i)!2'
    BY DEF CountedRows
  <2>1. CASE i < fd_idx
    BY <1>0, <1>1, <2>1 DEF RowParts, CountedRows, Past, Forwarding, Slots
  <2>2. CASE i = fd_idx
    <3>1. client_fd_list[i] = t /\ client_name_list[i] = Name[t] /\ client_sus_list[i] = Sus[t]
      BY <1>0, <2>2 DEF RowParts, OpenRow, Storing, Registering
    <3>2. \A k \in 0 .. i - 1 : client_fd_list[k] # t
      <4>1. \A k \in 0 .. i - 1 : k \in Slots /\ k < fd_idx
        BY <1>1, <2>2 DEF Slots
      <4> QED BY <1>0, <4>1 DEF RowParts, CountedRows, Past, Forwarding
    <3> QED BY <3>1, <3>2 DEF Past
  <2> QED BY <1>1, <2>1, <2>2 DEF Slots
<1>3. OpenRow'
  BY <1>1 DEF OpenRow, Registering
<1>4. NothingBehind'
  <2> SUFFICES ASSUME NEW i \in Slots, i >= fd_idx + 1, client_sus_list[i] # NULL
               PROVE  FALSE
    BY DEF NothingBehind
  <2>1. i >= fd_idx /\ i # fd_idx
    BY <1>1 DEF Slots
  <2> QED BY <1>0, <2>1 DEF RowParts, NothingBehind
<1>5. TwoClients'
  BY <1>0, <1>1 DEF RowParts, TwoClients, Forwarding, EnoughClients, BAD
<1> QED BY <1>2, <1>3, <1>4, <1>5 DEF RowInv, RowParts

\* Line 305 lets a thread forward.
LEMMA WaitControlRows ==
  ASSUME Inv, RowInv, NEW t \in Clients, WaitControl(t)
  PROVE  RowInv'
<1> USE DEF Inv, TypeOK, WaitControl, Goes
<1>0. RowParts
  BY DEF RowInv
<1>1. control # BAD
  BY DEF BAD
<1>2. CountedRows'
  BY <1>0, <1>1 DEF RowParts, CountedRows, Past, Forwarding
<1>3. OpenRow'
  BY <1>0, <1>1 DEF RowParts, OpenRow, Storing, Registering
<1>4. NothingBehind'
  BY <1>0 DEF RowParts, NothingBehind, Storing
<1>5. TwoClients'
  BY <1>0 DEF RowParts, TwoClients, BAD
<1> QED BY <1>2, <1>3, <1>4, <1>5 DEF RowInv, RowParts

\* Every step of a thread keeps the rows.
LEMMA ThreadRows ==
  ASSUME Inv, RowInv, NEW t \in Clients, Thread(t)
  PROVE  RowInv'
<1> USE DEF shared, locals, net, Past, Storing, Registering, Forwarding
<1>1. CASE ReadName(t)
  BY <1>1, MoveRows DEF ReadName
<1>2. CASE SplitSus(t)
  BY <1>2, MoveRows DEF SplitSus, StrtokFirst
<1>3. CASE UpdateSus(t)
  BY <1>3, MoveRows DEF UpdateSus, AfterUpdate
<1>4. CASE CopyTopic(t)
  BY <1>4, MoveRows DEF CopyTopic
<1>19. CASE OverrunStore(t)
  <2>1. control = BAD
    BY <1>19, LimitAssumption DEF OverrunStore, Goes, Inv, BoundInv
  <2> QED BY <1>19, <2>1, MoveRows DEF OverrunStore
<1>20. CASE OverrunDone(t)
  BY <1>20, MoveRows DEF OverrunDone
<1>5. CASE Unlock(t)
  BY <1>5, MoveRows DEF Unlock
<1>6. CASE StrtokLoad(t)
  BY <1>6, MoveRows DEF StrtokLoad
<1>7. CASE StrtokStore(t)
  BY <1>7, MoveRows DEF StrtokStore
<1>8. CASE ScanPast(t)
  BY <1>8, MoveRows DEF ScanPast
<1>9. CASE ScanRow(t)
  BY <1>9, MoveRows DEF ScanRow
<1>10. CASE Lookup(t)
  BY <1>10, MoveRows DEF Lookup
<1>11. CASE Read(t)
  BY <1>11, MoveRows DEF Read
<1>12. CASE ReadNothing(t)
  BY <1>12, MoveRows DEF ReadNothing, NextRow
<1>13. CASE SplitMsg(t)
  BY <1>13, MoveRows DEF SplitMsg, StrtokFirst
<1>14. CASE SplitEnd(t)
  BY <1>14, MoveRows DEF SplitEnd, StrtokEnd
<1>15. CASE WriteTopic(t)
  BY <1>15, MoveRows DEF WriteTopic
<1>16. CASE WriteDone(t)
  BY <1>16, MoveRows DEF WriteDone, NextRow
<1>17. CASE Lock(t) \/ ReadSus(t) \/ StoreNone(t) \/ StoreSus(t) \/ Finish(t) \/ WaitControl(t)
  BY <1>17, LockRows, ReadSusRows, StoreRows, FinishRows, WaitControlRows
<1>18. CASE \/ HandshakeEOF(t) \/ UpdateSusFault(t) \/ ControlFault(t) \/ LookupFault(t)
           \/ ReadError(t) \/ WriteFault(t)
  BY <1>18 DEF HandshakeEOF, UpdateSusFault, ControlFault, LookupFault, ReadError,
     WriteFault, Dies, RowInv
<1> QED BY <1>1, <1>2, <1>3, <1>4, <1>5, <1>6, <1>7, <1>8, <1>9, <1>10,
        <1>11, <1>12, <1>13, <1>14, <1>15, <1>16, <1>17, <1>18, <1>19, <1>20
     DEF Thread, Register, Strtok, Forward

\* The rows are consistent in every state of a live broker.
LEMMA RowsHold == Spec => []RowInv
<1>1. Init => RowInv
  BY ConstantTypes DEF Init, BrokerInit, RowInv, RowParts, CountedRows, OpenRow,
     NothingBehind, TwoClients, Slots, Registering, Forwarding
<1>2. Inv /\ RowInv /\ [Next]_vars => RowInv'
  <2> SUFFICES ASSUME Inv, RowInv, [Next]_vars
               PROVE  RowInv'
    OBVIOUS
  <2>1. CASE SigClose \/ SigExit
    BY <2>1 DEF SigClose, SigExit, shared, RowInv, RowParts, CountedRows, OpenRow, NothingBehind,
       TwoClients
  <2>2. ASSUME NEW t \in Clients, Accept(t) PROVE RowInv'
    <3>1. \A i \in Slots : i < LIMIT_CONN_CLIENTS => client_name_list'[i] = client_name_list[i]
      BY <2>2, LimitAssumption DEF Accept, Inv, TypeOK, Slots
    <3> QED BY <2>2, <3>1, MoveRows DEF Accept, Past, Storing, Registering, Forwarding
  <2>3. ASSUME NEW t \in Clients, Thread(t) PROVE RowInv'
    BY <2>3, ThreadRows
  <2>4. ASSUME NEW c \in Clients, Client(c) \/ Exit(c) PROVE RowInv'
    <3>1. UNCHANGED <<broker, closed, shared, pc, locals>>
      BY <2>4 DEF Client, Connect, SendName, SendSus, HandshakeBroken, Publish, PublishLost,
         PublishBroken, Show, SubEOF, Exit, ClientGoes
    <3> QED BY <3>1 DEF shared, RowInv, RowParts, CountedRows, OpenRow, NothingBehind, TwoClients
  <2>5. CASE UNCHANGED vars
    BY <2>5 DEF vars, brokerVars, shared, RowInv, RowParts, CountedRows, OpenRow,
       NothingBehind, TwoClients
  <2> QED BY <2>1, <2>2, <2>3, <2>4, <2>5 DEF Next, BrokerNext
<1> QED BY <1>1, <1>2, InvHolds, PTL DEF Spec

\* forward_messages(), which reads the lists without a lock, never sees a row
\* that mixes two clients or lacks its name or descriptor.
THEOREM LockFreeReads == Spec => []RowsComplete
<1>1. Inv /\ RowInv => RowsComplete
  <2> SUFFICES ASSUME Inv, RowParts, NEW i \in Slots, i < fd_idx \/ client_sus_list[i] # NULL
               PROVE  LET c == client_fd_list[i] IN
                        /\ c \in Clients
                        /\ client_name_list[i] = Name[c] \/ control = BAD
                        /\ client_sus_list[i] = Sus[c]
                        /\ \A k \in 0 .. i - 1 : client_fd_list[k] # c
    BY DEF RowInv, RowsComplete
  <2>1. CASE i < fd_idx
    BY <2>1 DEF RowParts, CountedRows
  <2>2. CASE ~(i < fd_idx)
    <3>1. i = fd_idx
      BY <2>2 DEF RowParts, NothingBehind, Inv, TypeOK, Slots
    <3>2. PICK t \in Clients : pc[t] \in Storing
      BY <2>2 DEF RowParts, NothingBehind, Inv, TypeOK, Slots
    <3>3. /\ client_fd_list[i] = t /\ client_sus_list[i] = Sus[t]
          /\ client_name_list[i] = Name[t] \/ control = BAD
      BY <3>1, <3>2 DEF RowParts, OpenRow, Storing, Registering
    <3>4. \A k \in 0 .. i - 1 : k \in Slots /\ k < fd_idx
      BY <3>1, LimitAssumption DEF Slots
    <3>5. \A k \in 0 .. i - 1 : client_fd_list[k] # t
      BY <3>2, <3>4 DEF RowParts, CountedRows, Storing, Past, Forwarding
    <3> QED BY <3>2, <3>3, <3>5
  <2> QED BY <2>1, <2>2
<1> QED BY <1>1, InvHolds, RowsHold, PTL

\* No thread forwards before two clients are registered, and the rows of the
\* first two are then visible, so the loop of line 307 has something to walk.
THEOREM ForwardingStartsLate == Spec => []ForwardAfterTwo
<1>1. Inv /\ RowInv => ForwardAfterTwo
  <2> SUFFICES ASSUME Inv, RowParts, NEW t \in Clients, pc[t] \in Forwarding
               PROVE  fd_idx >= 2 /\ client_sus_list[0] # NULL /\ client_sus_list[1] # NULL
    BY DEF RowInv, ForwardAfterTwo
  <2>1. fd_idx >= 2
    BY DEF RowParts, TwoClients
  <2>2. 0 \in Slots /\ 1 \in Slots /\ 0 < fd_idx /\ 1 < fd_idx
    BY <2>1, LimitAssumption DEF Slots, Inv, TypeOK
  <2>3. \A c \in Clients : Sus[c] # NULL
    BY NamesAssumption, SentinelsAssumption
  <2> QED BY <2>1, <2>2, <2>3 DEF RowParts, CountedRows
<1> QED BY <1>1, InvHolds, RowsHold, PTL

-----------------------------------------------------------------------------
(* The count of forwarding threads.                                        *)

Forwarders == {t \in Clients : pc[t] \in Forwarding}

\* There are finitely many threads to count.
LEMMA ForwardersFinite ==
  IsFiniteSet(Forwarders) /\ Cardinality(Forwarders) \in Nat
<1>1. IsFiniteSet(Forwarders)
  BY ClientsAssumption, FS_Subset DEF Forwarders
<1> QED BY <1>1, FS_CardinalityType

\* A move within or without forward_messages() keeps the balance.
LEMMA MoveBalance ==
  ASSUME TypeOK, ControlBalance, NEW t \in Clients, NEW from, NEW to, Goes(t, from, to),
         UNCHANGED fd_idx, control' \in {control, BAD},
         from \in Forwarding <=> to \in Forwarding
  PROVE  ControlBalance'
<1>1. Forwarders' = Forwarders
  BY DEF Forwarders, Goes, TypeOK
<1> QED BY <1>1 DEF Forwarders, Goes, ControlBalance

\* A registration after the first adds one to both sides.
LEMMA FinishBalance ==
  ASSUME TypeOK, ControlBalance, NEW t \in Clients, Finish(t)
  PROVE  ControlBalance'
<1>1. Forwarders' = Forwarders
  BY DEF Forwarders, Finish, Goes, TypeOK, Forwarding
<1>2. fd_idx \in Nat /\ control \in Nat
  BY ConstantTypes DEF TypeOK, Finish
<1>3. control + Cardinality(Forwarders) = IF fd_idx = 0 THEN 0 ELSE fd_idx - 1
  BY DEF Forwarders, Finish, Goes, ControlBalance
<1>4. control' + Cardinality(Forwarders) = IF fd_idx' = 0 THEN 0 ELSE fd_idx' - 1
  BY <1>2, <1>3, ForwardersFinite DEF Finish, EnoughClients
<1> QED BY <1>1, <1>4 DEF Forwarders, ControlBalance

\* A thread that is let through turns a unit of sem_control into a forwarder.
LEMMA WaitBalance ==
  ASSUME TypeOK, ControlBalance, NEW t \in Clients, WaitControl(t)
  PROVE  ControlBalance'
<1>1. Forwarders' = Forwarders \cup {t} /\ t \notin Forwarders
  BY DEF Forwarders, WaitControl, Goes, TypeOK, Forwarding
<1>2. Cardinality(Forwarders') = Cardinality(Forwarders) + 1
  BY <1>1, ForwardersFinite, FS_AddElement
<1>3. control + Cardinality(Forwarders) = IF fd_idx = 0 THEN 0 ELSE fd_idx - 1
  BY DEF Forwarders, WaitControl, Goes, ControlBalance, BAD
<1>4. control' + Cardinality(Forwarders') = IF fd_idx' = 0 THEN 0 ELSE fd_idx' - 1
  BY <1>2, <1>3, ForwardersFinite DEF WaitControl, TypeOK
<1> QED BY <1>4 DEF Forwarders, ControlBalance

\* Every step of a thread keeps the balance.
LEMMA ThreadBalance ==
  ASSUME TypeOK, ControlBalance, NEW t \in Clients, Thread(t)
  PROVE  ControlBalance'
<1> USE DEF shared, locals, net, Forwarding
<1>1. CASE Lock(t)
  BY <1>1, MoveBalance DEF Lock, BAD
<1>2. CASE ReadName(t)
  BY <1>2, MoveBalance DEF ReadName
<1>3. CASE ReadSus(t)
  BY <1>3, MoveBalance DEF ReadSus
<1>4. CASE StoreNone(t)
  BY <1>4, MoveBalance DEF StoreNone
<1>5. CASE SplitSus(t)
  BY <1>5, MoveBalance DEF SplitSus, StrtokFirst
<1>6. CASE StoreSus(t)
  BY <1>6, MoveBalance DEF StoreSus, StrtokEnd
<1>7. CASE UpdateSus(t)
  BY <1>7, MoveBalance DEF UpdateSus, AfterUpdate
<1>8. CASE CopyTopic(t) \/ OverrunStore(t) \/ OverrunDone(t)
  BY <1>8, MoveBalance DEF CopyTopic, OverrunStore, OverrunDone
<1>9. CASE Unlock(t)
  BY <1>9, MoveBalance DEF Unlock
<1>10. CASE StrtokLoad(t)
  BY <1>10, MoveBalance DEF StrtokLoad
<1>11. CASE StrtokStore(t)
  BY <1>11, MoveBalance DEF StrtokStore
<1>12. CASE ScanPast(t)
  BY <1>12, MoveBalance DEF ScanPast
<1>13. CASE ScanRow(t)
  BY <1>13, MoveBalance DEF ScanRow
<1>14. CASE Lookup(t)
  BY <1>14, MoveBalance DEF Lookup
<1>15. CASE Read(t)
  BY <1>15, MoveBalance DEF Read
<1>16. CASE ReadNothing(t)
  BY <1>16, MoveBalance DEF ReadNothing, NextRow
<1>17. CASE SplitMsg(t)
  BY <1>17, MoveBalance DEF SplitMsg, StrtokFirst
<1>18. CASE SplitEnd(t)
  BY <1>18, MoveBalance DEF SplitEnd, StrtokEnd
<1>19. CASE WriteTopic(t)
  BY <1>19, MoveBalance DEF WriteTopic
<1>20. CASE WriteDone(t)
  BY <1>20, MoveBalance DEF WriteDone, NextRow
<1>21. CASE Finish(t)
  BY <1>21, FinishBalance
<1>22. CASE WaitControl(t)
  BY <1>22, WaitBalance
<1>23. CASE \/ HandshakeEOF(t) \/ UpdateSusFault(t) \/ ControlFault(t) \/ LookupFault(t)
           \/ ReadError(t) \/ WriteFault(t)
  BY <1>23 DEF HandshakeEOF, UpdateSusFault, ControlFault, LookupFault, ReadError,
     WriteFault, Dies, ControlBalance
<1> QED BY <1>1, <1>2, <1>3, <1>4, <1>5, <1>6, <1>7, <1>8, <1>9, <1>10, <1>11,
        <1>12, <1>13, <1>14, <1>15, <1>16, <1>17, <1>18, <1>19, <1>20, <1>21, <1>22, <1>23
     DEF Thread, Register, Strtok, Forward

\* For any number of clients, exactly one registered thread fewer than there
\* are registrations gets, or can still get, into forward_messages().
THEOREM OneThreadStaysOut == Spec => []ControlBalance
<1>1. Init => ControlBalance
  <2> SUFFICES ASSUME Init PROVE ControlBalance
    OBVIOUS
  <2>1. Forwarders = {}
    BY DEF Init, BrokerInit, Forwarders, Forwarding
  <2>2. Cardinality(Forwarders) = 0
    BY <2>1, FS_EmptySet
  <2> QED BY <2>2 DEF Init, BrokerInit, Forwarders, ControlBalance
<1>2. TypeOK /\ ControlBalance /\ [Next]_vars => ControlBalance'
  <2> SUFFICES ASSUME TypeOK, ControlBalance, [Next]_vars
               PROVE  ControlBalance'
    OBVIOUS
  <2>1. CASE SigClose \/ SigExit
    BY <2>1 DEF SigClose, SigExit, shared, ControlBalance
  <2>2. ASSUME NEW t \in Clients, Accept(t) PROVE ControlBalance'
    BY <2>2, MoveBalance DEF Accept, Forwarding
  <2>3. ASSUME NEW t \in Clients, Thread(t) PROVE ControlBalance'
    BY <2>3, ThreadBalance
  <2>4. ASSUME NEW c \in Clients, Client(c) \/ Exit(c) PROVE ControlBalance'
    <3>1. UNCHANGED <<broker, closed, shared, pc, locals>>
      BY <2>4 DEF Client, Connect, SendName, SendSus, HandshakeBroken, Publish, PublishLost,
         PublishBroken, Show, SubEOF, Exit, ClientGoes
    <3> QED BY <3>1 DEF shared, ControlBalance
  <2>5. CASE UNCHANGED vars
    BY <2>5 DEF vars, brokerVars, shared, ControlBalance
  <2> QED BY <2>1, <2>2, <2>3, <2>4, <2>5 DEF Next, BrokerNext
<1> QED BY <1>1, <1>2, TypeCorrect, PTL DEF Spec

=============================================================================
