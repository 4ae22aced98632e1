---------------------------- MODULE CrashProofs -----------------------------
(***************************************************************************)
(* What brings the broker down, as long as it has accepted at most two     *)
(* clients.                                                                *)
(***************************************************************************)
EXTENDS ForwarderProofs

\* Clients as the README wants them: no two have the same name, a subscription
\* of two levels is one to all topics, and the lists have room for more.
WellFormed ==
  /\ \A c, d \in Clients : Name[c] = Name[d] => c = d
  /\ \A c \in Short : Wanted[c] = Topics
  /\ LIMIT_CONN_CLIENTS > 2

Departed(c) == cpc[c] = "gone" /\ (c \in Subscribers \/ ~Registered(c))

\* The pointer sem_control is overwritten when the lists are full, and a client
\* closes its end of a connection only when it ends.
EndInv ==
  /\ broker = "up" /\ control = BAD => fd_idx = LIMIT_CONN_CLIENTS
  /\ \A c \in Clients : peer[c] \in {"closed", "reset"} => cpc[c] = "gone"

\* Nothing is written to a publisher, so that its end is never reset.
QuietInv == \A p \in Publishers : tx[p] = <<>> /\ peer[p] # "reset"

-----------------------------------------------------------------------------
\* What a step of a thread does to sem_control and to the clients' ends.
LEMMA ThreadEnd ==
  ASSUME TypeOK, EndInv, NEW t \in Clients, Thread(t), UNCHANGED clientVars
  PROVE  EndInv'
<1>1. broker' = "up" /\ control' = BAD => fd_idx' = LIMIT_CONN_CLIENTS
  <2> SUFFICES ASSUME broker' = "up", control' = BAD PROVE fd_idx' = LIMIT_CONN_CLIENTS
    OBVIOUS
  <2> USE DEF shared, Goes
  <2>1. CASE Lock(t)
    BY <2>1 DEF Lock, EndInv
  <2>2. CASE Finish(t)
    BY <2>2 DEF Finish, TypeOK, BAD
  <2>3. CASE WaitControl(t)
    BY <2>3 DEF WaitControl, TypeOK, BAD
  <2>4. CASE Strtok(t)
    BY <2>4 DEF Strtok, StrtokLoad, StrtokStore, EndInv
  <2>5. CASE Register(t) /\ ~Lock(t) /\ ~Finish(t)
    BY <2>5 DEF Register, ReadName, ReadSus, HandshakeEOF, StoreNone, SplitSus, StoreSus,
       StrtokFirst, StrtokEnd, UpdateSus, UpdateSusFault, CopyTopic, OverrunStore, OverrunDone,
       Unlock, ControlFault, Dies,
       EndInv
  <2>6. CASE Forward(t) /\ ~WaitControl(t)
    BY <2>6 DEF Forward, ScanPast, ScanRow, Lookup, LookupFault, Read, ReadNothing, ReadError,
       SplitMsg, SplitEnd, StrtokFirst, StrtokEnd, WriteTopic, WriteFault, WriteDone, NextRow,
       Dies, EndInv
  <2> QED BY <2>1, <2>2, <2>3, <2>4, <2>5, <2>6 DEF Thread
<1>2. \A c \in Clients : peer'[c] \in {"closed", "reset"} => peer[c] \in {"closed", "reset"}
  <2>1. CASE broker' = "up"
    BY <2>1, NetFrame DEF WriteTopic
  <2>2. CASE broker' # "up"
    BY <2>2 DEF Thread, Register, Strtok, Forward, Goes, Dies, net, Lock, ReadName, ReadSus,
       HandshakeEOF, StoreNone, SplitSus, StoreSus, UpdateSus, UpdateSusFault, CopyTopic,
       OverrunStore, OverrunDone,
       Finish, Unlock, ControlFault, StrtokLoad, StrtokStore, WaitControl, ScanPast, ScanRow,
       Lookup, LookupFault, Read, ReadNothing, ReadError, SplitMsg, SplitEnd, WriteTopic,
       WriteFault, WriteDone
  <2> QED BY <2>1, <2>2
<1> QED BY <1>1, <1>2 DEF EndInv, clientVars

\* What a step of a client does to its end, and who has departed stays so.
LEMMA ClientEnd ==
  ASSUME TypeOK, NEW c \in Clients, Client(c) \/ Exit(c)
  PROVE  /\ EndInv => EndInv'
         /\ \A d \in Clients : Departed(d) => Departed(d)'
         /\ QuietInv => QuietInv'
<1>1. UNCHANGED <<broker, control, fd_idx, client_fd_list>>
  BY ClientFrame DEF shared
<1>2. /\ \A d \in Clients : cpc[d] = "gone" => cpc'[d] = "gone"
      /\ tx' = tx
      /\ \/ peer' = peer
         \/ cpc[c] # "gone" /\ \E e \in {"open", "closed", "reset"} :
              /\ peer' = [peer EXCEPT ![c] = e]
              /\ e # "open" => cpc'[c] = "gone"
              /\ e = "reset" => shown[c] < Len(tx[c])
  <2> USE DEF ClientGoes, TypeOK
  <2>1. CASE Connect(c)
    BY <2>1 DEF Connect
  <2>2. CASE SendName(c) \/ SendSus(c) \/ HandshakeBroken(c) \/ Publish(c)
    BY <2>2 DEF SendName, SendSus, HandshakeBroken, Publish, net
  <2>3. CASE PublishLost(c) \/ PublishBroken(c) \/ Show(c) \/ SubEOF(c)
    BY <2>3 DEF PublishLost, PublishBroken, Show, SubEOF, net
  <2>4. CASE Exit(c)
    <3>1. PICK e \in {"closed", "reset"} :
            peer' = [peer EXCEPT ![c] = e] /\ (e = "reset" => shown[c] < Len(tx[c]))
      BY <2>4 DEF Exit
    <3>2. cpc' = [cpc EXCEPT ![c] = "gone"] /\ cpc[c] # "gone" /\ tx' = tx
      BY <2>4 DEF Exit
    <3> QED BY <3>1, <3>2
  <2> QED BY <2>1, <2>2, <2>3, <2>4 DEF Client
<1>3. EndInv => EndInv'
  BY <1>1, <1>2 DEF EndInv, TypeOK
<1>4. \A d \in Clients : Departed(d) => Departed(d)'
  BY <1>1, <1>2 DEF Departed, Registered
<1>5. QuietInv => QuietInv'
  <2> SUFFICES ASSUME QuietInv, NEW p \in Publishers PROVE tx'[p] = <<>> /\ peer'[p] # "reset"
    BY DEF QuietInv
  <2>1. p \in Clients /\ tx[p] = <<>> /\ peer[p] # "reset" /\ shown[p] \in Nat /\ Len(tx[p]) = 0
    BY DEF QuietInv, Publishers, TypeOK
  <2>2. ~(shown[p] < Len(tx[p]))
    BY <2>1
  <2> QED BY <1>2, <2>1, <2>2 DEF TypeOK
<1> QED BY <1>3, <1>4, <1>5

\* They hold in every state.
LEMMA EndHolds == Spec => []EndInv
<1>1. Init => EndInv
  BY DEF Init, BrokerInit, EndInv, BAD
<1>2. TypeOK /\ EndInv /\ [Next]_vars => EndInv'
  <2> SUFFICES ASSUME TypeOK, EndInv, [Next]_vars
               PROVE  EndInv'
    OBVIOUS
  <2>1. CASE (SigClose \/ SigExit) /\ UNCHANGED clientVars
    BY <2>1 DEF SigClose, SigExit, EndInv, shared, net, clientVars
  <2>2. ASSUME NEW t \in Clients, Accept(t), UNCHANGED clientVars PROVE EndInv'
    BY <2>2 DEF Accept, Goes, EndInv, net, clientVars
  <2>3. ASSUME NEW t \in Clients, Thread(t), UNCHANGED clientVars PROVE EndInv'
    BY <2>3, ThreadEnd
  <2>4. ASSUME NEW c \in Clients, Client(c) \/ Exit(c) PROVE EndInv'
    BY <2>4, ClientEnd
  <2>5. CASE UNCHANGED vars
    BY <2>5 DEF vars, brokerVars, shared, net, clientVars, EndInv
  <2> QED BY <2>1, <2>2, <2>3, <2>4, <2>5 DEF Next, BrokerNext
<1> QED BY <1>1, <1>2, TypeCorrect, PTL DEF Spec

-----------------------------------------------------------------------------
\* With different names, a forwarder writes to the subscriber of its row.
LEMMA SubscriberServed ==
  ASSUME Inv, RowInv, broker = "up", WellFormed, NEW t \in Clients, ServeOf(t),
         pc[t] \in Serving, fd_sus[t] \in Clients
  PROVE  fd_sus[t] \in Subscribers
<1>1. fd_sus[t] # STDIN /\ TypeOK /\ CountedRows
  BY ClientsAssumption DEF Inv, RowInv, RowParts
<1>2. /\ Name[fd_sus[t]] = Name[RowClient(t)]
      /\ row[t] < fd_idx /\ Sus[RowClient(t)] # NONE
  BY <1>1 DEF ServeOf
<1>3. row[t] \in Slots
  BY <1>1, <1>2, ConstantTypes DEF TypeOK, Slots
<1>4. RowClient(t) \in Clients
  BY <1>1, <1>2, <1>3 DEF CountedRows, RowClient
<1> QED BY <1>2, <1>4 DEF WellFormed, Subscribers, Publishers

\* Nothing is written to a publisher, in every state.
LEMMA QuietHolds == Spec => [](WellFormed /\ Few => QuietInv)
<1>1. Init => QuietInv
  BY DEF Init, BrokerInit, QuietInv, Publishers
<1>2. /\ Base /\ (Live => ThreadParts) /\ (WellFormed /\ Few => QuietInv) /\ [Next]_vars
      => (WellFormed /\ Few => QuietInv)'
  <2> SUFFICES ASSUME Base, Live => ThreadParts, WellFormed /\ Few => QuietInv, [Next]_vars,
                      WellFormed', Few'
               PROVE  QuietInv'
    OBVIOUS
  <2>1. TypeOK /\ WellFormed /\ Few /\ QuietInv
    <3>1. WellFormed
      BY DEF WellFormed, Topics
    <3> QED BY <3>1, LiveBefore DEF Base, Inv
  <2>2. CASE SigClose \/ SigExit
    BY <2>1, <2>2 DEF SigClose, SigExit, net, QuietInv
  <2>3. ASSUME NEW t \in Clients, Accept(t) PROVE QuietInv'
    BY <2>1, <2>3 DEF Accept, net, QuietInv
  <2>4. ASSUME NEW t \in Clients, Thread(t) PROVE QuietInv'
    <3>1. CASE WriteTopic(t)
      <4>1. broker = "up" /\ pc[t] = "write"
        BY <3>1 DEF WriteTopic, Goes
      <4>2. fd_sus[t] \notin Publishers
        <5>1. ServeOf(t) /\ pc[t] \in Serving
          BY <2>1, <4>1 DEF Live, ThreadParts, ServeInv, Serving
        <5> QED BY <2>1, <4>1, <5>1, SubscriberServed DEF Base, Subscribers, Publishers
      <4>3. \A c \in Clients : c # fd_sus[t] => tx'[c] = tx[c] /\ peer'[c] = peer[c]
        BY <3>1 DEF WriteTopic
      <4> QED BY <2>1, <4>2, <4>3 DEF QuietInv, Publishers
    <3>2. CASE ~WriteTopic(t)
      <4>1. CASE broker' = "up"
        BY <2>1, <2>4, <3>2, <4>1, NetFrame DEF QuietInv
      <4>2. CASE broker' # "up"
        <5>1. UNCHANGED net
          BY <2>4, <4>2 DEF Thread, Register, Strtok, Forward, Goes, Dies, Lock, ReadName,
             ReadSus, HandshakeEOF, StoreNone, SplitSus, StoreSus, UpdateSus, UpdateSusFault,
             CopyTopic, OverrunStore, OverrunDone, Finish, Unlock, ControlFault, StrtokLoad,
             StrtokStore, WaitControl,
             ScanPast, ScanRow, Lookup, LookupFault, Read, ReadNothing, ReadError, SplitMsg,
             SplitEnd, WriteTopic, WriteFault, WriteDone
        <5> QED BY <2>1, <5>1 DEF net, QuietInv
      <4> QED BY <4>1, <4>2
    <3> QED BY <3>1, <3>2
  <2>5. ASSUME NEW c \in Clients, Client(c) \/ Exit(c) PROVE QuietInv'
    BY <2>1, <2>5, ClientEnd
  <2>6. CASE UNCHANGED vars
    BY <2>1, <2>6 DEF vars, brokerVars, net, QuietInv
  <2> QED BY <2>2, <2>3, <2>4, <2>5, <2>6 DEF Next, BrokerNext
<1> QED BY <1>1, <1>2, BaseHolds, ThreadPartsHold, PTL DEF Spec

-----------------------------------------------------------------------------
\* Two accepted clients make two rows at most.
LEMMA FewRows ==
  ASSUME TypeOK, CountedRows, Few
  PROVE  fd_idx <= 2
<1> SUFFICES ASSUME fd_idx > 2 PROVE FALSE
  BY ConstantTypes DEF TypeOK, Slots
<1>1. fd_idx \in Nat /\ 0 \in Slots /\ 1 \in Slots /\ 2 \in Slots
  BY ConstantTypes DEF TypeOK, Slots
<1>2. \A i \in {0, 1, 2} : i \in Slots /\ i < fd_idx
  BY <1>1
<1>3. \A i \in {0, 1, 2} : client_fd_list[i] \in Clients /\ pc[client_fd_list[i]] # "none"
  BY <1>2 DEF CountedRows, Past, Forwarding
<1>4. /\ client_fd_list[0] # client_fd_list[1]
      /\ client_fd_list[0] # client_fd_list[2] /\ client_fd_list[1] # client_fd_list[2]
  <2>1. 0 \in 0 .. 1 - 1 /\ 0 \in 0 .. 2 - 1 /\ 1 \in 0 .. 2 - 1
    OBVIOUS
  <2> QED BY <1>2, <2>1 DEF CountedRows
<1> QED BY <1>3, <1>4 DEF Few

\* All that is known while the broker lives, for clients as the README wants them.
Calm == Base /\ ThreadParts /\ SocketParts /\ EndInv /\ QuietInv /\ Live /\ WellFormed

\* Lines 191, 246, 305: sem_control is not overwritten.
LEMMA ControlStands == ASSUME Calm PROVE control # BAD
<1>1. fd_idx <= 2
  BY FewRows DEF Calm, Base, Live, Inv, RowInv, RowParts
<1>2. fd_idx # LIMIT_CONN_CLIENTS
  BY <1>1, ConstantTypes DEF Calm, WellFormed
<1> QED BY <1>2 DEF Calm, Live, EndInv

\* Line 233: a subscription has the levels update_sus_info looks at.
LEMMA NoUpdateFault == ASSUME Calm, NEW t \in Clients PROVE ~UpdateSusFault(t)
<1> SUFFICES ASSUME UpdateSusFault(t) PROVE FALSE
  OBVIOUS
<1>1. /\ pc[t] = "update" /\ Len(argv[t]) < 3
      /\ ~(argv[t] = OwnTokens(t) /\ Wanted[t] = Topics)
  BY DEF UpdateSusFault, Dies
<1>2. SplitOf(t) /\ StreamOf(t)
  BY DEF Calm, ThreadParts, SplitInv, SocketParts, StreamInv
<1>3. argv[t] = Fields(buf[t], TokensIn(buf[t])) /\ buf[t] = SusLine(t)
  BY <1>1, <1>2 DEF SplitOf, StreamOf, Splits
<1>4. argv[t] = OwnTokens(t)
  BY <1>3 DEF Fields, OwnTokens
<1>5. t \notin Short
  BY <1>1, <1>4 DEF Calm, WellFormed
<1>6. TokensIn(buf[t]) = 3
  BY <1>3, <1>5 DEF TokensIn, SusLine
<1>7. Len(argv[t]) = 3
  <2>1. buf[t] \in Line
    BY <1>3, LineTypes
  <2>2. Len(Fields(buf[t], 3)) = 3
    BY <2>1, FieldsGrow
  <2> QED BY <1>3, <1>6, <2>2
<1> QED BY <1>1, <1>7

\* Lines 316-317: find_index_by_client_name meets a NULL at the latest.
LEMMA NoLookupFault == ASSUME Calm, NEW t \in Clients PROVE ~LookupFault(t)
<1> SUFFICES ASSUME LookupFault(t) PROVE FALSE
  OBVIOUS
<1>1. /\ broker = "up" /\ pc[t] = "lookup"
      /\ \E name \in {Publisher(t)} \cup Suscribers(t) : RunsOff(name) \/ BadPointer(name)
  BY DEF LookupFault, Dies
<1> DEFINE c == RowClient(t)
<1>2. Solo /\ control # BAD /\ TypeOK
  BY Alone, ControlStands DEF Calm, Base, Inv
<1>3. fd_idx = 2 /\ \A u \in Clients : pc[u] \notin Named
  BY <1>1, <1>2, ListsRest DEF Solo, Forwarding
<1>4. row[t] \in Slots /\ row[t] < fd_idx
  <2>1. ServeOf(t)
    BY DEF Calm, ThreadParts, ServeInv
  <2> QED BY <1>1, <1>2, <1>3, <2>1, ConstantTypes DEF ServeOf, TypeOK, Slots
<1>5. \A i \in Slots : i < fd_idx => /\ client_fd_list[i] \in Clients
                                     /\ client_name_list[i] = Name[client_fd_list[i]]
                                     /\ client_sus_list[i] = Sus[client_fd_list[i]]
  BY <1>1, <1>2 DEF Calm, Base, RowInv, RowParts, CountedRows
<1>6. Publisher(t) = Sus[c] /\ Suscribers(t) = {Name[c]} /\ c \in Clients /\ Sus[c] # NONE
  <2>1. Sus[c] # NONE
    BY <1>1 DEF Calm, ThreadParts, ServeInv, ServeOf, Serving
  <2> QED BY <1>4, <1>5, <2>1 DEF Publisher, Suscribers, RowClient
<1>7. Sus[c] \notin {NULL, TORN} /\ Name[c] \notin {NULL, TORN}
  BY <1>6, NamesAssumption, SentinelsAssumption DEF Names
<1>8. \A i \in Slots : client_name_list[i] # TORN
  <2> SUFFICES ASSUME NEW i \in Slots, client_name_list[i] = TORN PROVE FALSE
    OBVIOUS
  <2>1. CASE i < fd_idx
    BY <1>5, <2>1, NamesAssumption, SentinelsAssumption DEF Names
  <2>2. CASE i >= fd_idx
    <3>1. i > fd_idx \/ i = fd_idx
      BY <1>3, <2>2, ConstantTypes DEF Slots
    <3> QED BY <1>2, <1>3, <3>1, SentinelsAssumption DEF Calm, ThreadParts, NameInv
  <2> QED BY <1>3, <2>1, <2>2, ConstantTypes DEF Slots
<1>9. 2 \in Slots /\ 2 \in 0 .. LIMIT_CONN_CLIENTS + 1 - 1 /\ client_name_list[2] = NULL
  <2>1. 2 \in Slots /\ 2 # LIMIT_CONN_CLIENTS /\ 2 \in 0 .. LIMIT_CONN_CLIENTS + 1 - 1
    BY ConstantTypes DEF Calm, WellFormed, Slots
  <2> QED BY <1>2, <1>3, <2>1 DEF Calm, ThreadParts, NameInv
<1>10. ASSUME NEW name \in {Sus[c], Name[c]} PROVE ~RunsOff(name) /\ ~BadPointer(name)
  <2>1. ~RunsOff(name)
    <3>1. NULL \in {name, NULL} \ {TORN}
      BY SentinelsAssumption
    <3>2. \E k \in 0 .. (LIMIT_CONN_CLIENTS + 1) - 1 : client_name_list[k] = NULL
      BY <1>9, ConstantTypes
    <3> QED BY <3>1, <3>2 DEF RunsOff, Reached
  <2>2. ~BadPointer(name)
    BY <1>7, <1>8 DEF BadPointer
  <2> QED BY <2>1, <2>2
<1> QED BY <1>1, <1>6, <1>10

\* Lines 154-168: split() has stored every field a forwarder sends, so that
\* only a subscriber that has left brings it down.
LEMMA WriteFaultCause ==
  ASSUME Calm, NEW t \in Clients, WriteFault(t), ~\E c \in Clients : IsShut(c)
  PROVE  \E c \in Clients : Departed(c)
<1>1. /\ pc[t] = "write"
      /\ \/ fd_sus[t] \in Clients /\ peer[fd_sus[t]] = "reset"
         \/ \E k \in want[t] : k > Len(argv[t])
  BY DEF WriteFault, Dies
<1>2. TypeOK /\ SplitOf(t) /\ BufOf(t) /\ ServeOf(t) /\ Shape
  BY DEF Calm, Base, Inv, ThreadParts, SplitInv, ServeInv, SocketParts, BufInv
<1>3. CASE fd_sus[t] \in Clients /\ peer[fd_sus[t]] = "reset"
  <2>1. fd_sus[t] \in Subscribers
    BY <1>1, <1>2, <1>3, SubscriberServed DEF Calm, Base, Live, Serving
  <2>2. cpc[fd_sus[t]] = "gone"
    BY <1>3 DEF Calm, EndInv
  <2> QED BY <1>3, <2>1, <2>2 DEF Departed
<1>4. ASSUME NEW k \in want[t] PROVE ~(k > Len(argv[t]))
  <2>1. buf[t] \in Line /\ buf[t].kind = "data"
    BY <1>1, <1>2 DEF Shape, BufOf, Serving
  <2>2. TokensIn(buf[t]) = TOPICS_NUMBER
    BY <2>1 DEF TokensIn
  <2>3. argv[t] = Fields(buf[t], TOPICS_NUMBER)
    BY <1>1, <1>2, <2>2 DEF SplitOf
  <2>4. Len(argv[t]) = TOPICS_NUMBER
    BY <2>1, <2>3, FieldsGrow, LimitAssumption
  <2>5. k \in 1 .. TOPICS_NUMBER
    BY <1>2 DEF TypeOK, Topics
  <2> QED BY <2>4, <2>5, LimitAssumption
<1> QED BY <1>1, <1>3, <1>4

\* Every way a thread brings the process down goes back to a departure.
LEMMA FaultCause ==
  ASSUME Calm, NEW t \in Clients, Thread(t), broker' = "crashed"
  PROVE  \E c \in Clients : Departed(c)
<1>0. ASSUME \E at : Dies(t, at) PROVE ~\E c \in Clients : IsShut(c)
  <2>1. ~(closed > 0) /\ closed \in Nat
    BY <1>0, ConstantTypes DEF Dies, Calm, Base, Inv, TypeOK, Slots
  <2> QED BY <2>1 DEF IsShut
<1>1. CASE HandshakeEOF(t)
  <2>1. cpc[t] = "gone" /\ pc[t] \in {"name", "sus"}
    BY <1>1 DEF HandshakeEOF, Dies, Calm, EndInv
  <2>2. ~Registered(t)
    <3> SUFFICES ASSUME NEW i \in 0 .. fd_idx - 1, client_fd_list[i] = t PROVE FALSE
      BY DEF Registered
    <3>1. i \in Slots /\ i < fd_idx
      BY ConstantTypes DEF Calm, Base, Inv, TypeOK, Slots
    <3>2. pc[t] \in Past
      BY <3>1 DEF Calm, Base, Live, RowInv, RowParts, CountedRows
    <3> QED BY <2>1, <3>2 DEF Past, Forwarding
  <2> QED BY <2>1, <2>2 DEF Departed
<1>2. CASE ReadError(t)
  <2>1. fd_pub[t] \in Clients /\ peer[fd_pub[t]] = "reset"
    <3>1. Dies(t, "read")
      BY <1>2 DEF ReadError
    <3> QED BY <1>0, <1>2, <3>1 DEF ReadError, ReadFails
  <2>2. fd_pub[t] \in Subscribers /\ cpc[fd_pub[t]] = "gone"
    BY <2>1 DEF Calm, EndInv, QuietInv, Subscribers
  <2> QED BY <2>1, <2>2 DEF Departed
<1>3. CASE WriteFault(t)
  <2>1. Dies(t, "write")
    BY <1>3 DEF WriteFault
  <2> QED BY <1>0, <1>3, <2>1, WriteFaultCause
<1>4. ~ControlFault(t) /\ ~UpdateSusFault(t) /\ ~LookupFault(t)
  BY ControlStands, NoUpdateFault, NoLookupFault DEF ControlFault
<1>5. HandshakeEOF(t) \/ ReadError(t) \/ WriteFault(t)
  BY <1>4 DEF Thread, Register, Strtok, Forward, Goes, Lock, ReadName, ReadSus, StoreNone,
     SplitSus, StoreSus, UpdateSus, CopyTopic, OverrunStore, OverrunDone, Finish, Unlock,
     StrtokLoad, StrtokStore,
     WaitControl, ScanPast, ScanRow, Lookup, Read, ReadNothing, SplitMsg, SplitEnd, WriteTopic,
     WriteDone, Calm, Live
<1> QED BY <1>1, <1>2, <1>3, <1>5

\* As long as at most two clients have been accepted, and for clients as the
\* README wants them, a broker dies only of a departure it does not handle
\* (line 167 and the handshake of lines 200-215).
THEOREM CrashCause == Spec => [](WellFormed /\ Few => CrashNeedsDeparture)
<1>1. Init => CrashNeedsDeparture
  BY DEF Init, BrokerInit, CrashNeedsDeparture
<1>2. /\ Base /\ (Live => ThreadParts) /\ (Live => SocketParts) /\ EndInv
      /\ (WellFormed /\ Few => QuietInv) /\ (WellFormed /\ Few => CrashNeedsDeparture)
      /\ [Next]_vars
      => (WellFormed /\ Few => CrashNeedsDeparture)'
  <2> SUFFICES ASSUME Base, Live => ThreadParts, Live => SocketParts, EndInv,
                      WellFormed /\ Few => QuietInv, WellFormed /\ Few => CrashNeedsDeparture,
                      [Next]_vars, WellFormed', Few', broker' = "crashed"
               PROVE  (\E c \in Clients : Departed(c))'
    BY DEF CrashNeedsDeparture, Departed
  <2>1. TypeOK /\ WellFormed /\ Few
    <3>1. WellFormed
      BY DEF WellFormed, Topics
    <3> QED BY <3>1, LiveBefore DEF Base, Inv
  <2>2. broker = "crashed" => \E c \in Clients : Departed(c)
    BY <2>1 DEF CrashNeedsDeparture, Departed
  <2>3. CASE SigClose \/ SigExit
    BY <2>2, <2>3 DEF SigClose, SigExit
  <2>4. ASSUME NEW t \in Clients, Accept(t) PROVE FALSE
    BY <2>4 DEF Accept, Goes
  <2>5. ASSUME NEW t \in Clients, Thread(t), UNCHANGED clientVars
        PROVE  \E c \in Clients : Departed(c)'
    <3>1. broker = "up" /\ UNCHANGED <<fd_idx, client_fd_list>>
      BY <2>5 DEF Thread, Register, Strtok, Forward, Goes, Dies, shared, Lock, ReadName, ReadSus,
         HandshakeEOF, StoreNone, SplitSus, StoreSus, UpdateSus, UpdateSusFault, CopyTopic,
         OverrunStore, OverrunDone,
         Finish, Unlock, ControlFault, StrtokLoad, StrtokStore, WaitControl, ScanPast, ScanRow,
         Lookup, LookupFault, Read, ReadNothing, ReadError, SplitMsg, SplitEnd, WriteTopic,
         WriteFault, WriteDone
    <3>2. Calm
      BY <2>1, <3>1 DEF Calm, Live
    <3>3. PICK c \in Clients : Departed(c)
      BY <2>5, <3>2, FaultCause
    <3>4. Departed(c)'
      BY <2>5, <3>1, <3>3 DEF Departed, Registered, clientVars
    <3> QED BY <3>4
  <2>6. ASSUME NEW c \in Clients, Client(c) \/ Exit(c)
        PROVE  \E d \in Clients : Departed(d)'
    <3>1. broker = "crashed"
      BY <2>6, ClientFrame
    <3> QED BY <2>1, <2>2, <2>6, <3>1, ClientEnd
  <2>7. CASE UNCHANGED vars
    BY <2>2, <2>7 DEF vars, brokerVars, shared, clientVars, Departed, Registered
  <2> QED BY <2>3, <2>4, <2>5, <2>6, <2>7 DEF Next, BrokerNext
<1> QED BY <1>1, <1>2, BaseHolds, ThreadPartsHold, SocketPartsHold, EndHolds, QuietHolds, PTL
        DEF Spec

=============================================================================
