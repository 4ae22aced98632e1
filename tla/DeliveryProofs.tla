--------------------------- MODULE DeliveryProofs ---------------------------
(***************************************************************************)
(* What subscribers are sent as long as the broker has accepted at most    *)
(* two clients, for any topics, subscriptions, names and bounds; and that  *)
(* this is the service of PubSub.                                          *)
(***************************************************************************)
EXTENDS ForwarderProofs

\* The topics of message n that s has been sent.
SentOf(s, n) == SentBefore(s, n, Len(tx[s]) + 1)

SeqOf(s, i) == tx[s][i].token.line.seq
FromOf(s, i) == tx[s][i].token.line.from

\* What has been sent was published, by a client with a registered thread.
PartnersOf(s) ==
  \A i \in 1 .. Len(tx[s]) :
    /\ pc[s] \in Past
    /\ FromOf(s, i) \in Publishers /\ pc[FromOf(s, i)] \in Past
    /\ SeqOf(s, i) \in 1 .. sent[FromOf(s, i)]

PartnersInv == \A s \in Subscribers : PartnersOf(s)

\* The messages s has been sent something of are complete.
Complete(s) == \A i \in 1 .. Len(tx[s]) : SentOf(s, SeqOf(s, i)) = Wanted[s]

\* t has sent the topics of message n that it no longer wants.
Halfway(s, t, n) ==
  /\ \A i \in 1 .. Len(tx[s]) :
       SeqOf(s, i) <= n /\ (SeqOf(s, i) < n => SentOf(s, SeqOf(s, i)) = Wanted[s])
  /\ SentOf(s, n) = Wanted[s] \ want[t]
  /\ \A k \in want[t], m \in Wanted[s] \ want[t] : m < k

WritesTo(t, s) == pc[t] = "write" /\ fd_sus[t] = s

ProgressOf(s) ==
  peer[s] = "open" =>
    /\ (\A t \in Clients : ~WritesTo(t, s)) => Complete(s)
    /\ \A t \in Clients : WritesTo(t, s) => Halfway(s, t, buf[t].seq)

ProgressInv == \A s \in Subscribers : ProgressOf(s)

\* What s has been sent is older than what waits or is about to be sent.
OlderOf(s) ==
  \A i \in 1 .. Len(tx[s]) :
    /\ \A j \in 1 .. Len(rx[FromOf(s, i)]) : SeqOf(s, i) < rx[FromOf(s, i)][j].seq
    /\ \A t \in Clients : pc[t] \in {"split", "fwdLoad", "fwdStore"} => SeqOf(s, i) < buf[t].seq

OlderInv == \A s \in Subscribers : OlderOf(s)

DeliveryParts == PartnersInv /\ ProgressInv /\ OlderInv

\* What the properties say of the lines that have been sent.
TxInv == OnlyWantedTopics /\ FaithfulFields /\ WholeMessagesInOrder

-----------------------------------------------------------------------------
\* One more line to a subscriber.
LEMMA SentAppend ==
  ASSUME NEW s \in Clients, tx[s] \in Seq(Sends), NEW e \in Sends, tx'[s] = Append(tx[s], e)
  PROVE  /\ Len(tx[s]) \in Nat /\ Len(tx'[s]) = Len(tx[s]) + 1
         /\ \A i \in 1 .. Len(tx[s]) : tx'[s][i] = tx[s][i]
         /\ tx'[s][Len(tx[s]) + 1] = e
         /\ \A n, i : i \in 1 .. Len(tx[s]) + 1 => SentBefore(s, n, i)' = SentBefore(s, n, i)
         /\ \A n : n # e.token.line.seq => SentOf(s, n)' = SentOf(s, n)
         /\ SentOf(s, e.token.line.seq)' = SentOf(s, e.token.line.seq) \cup {e.topic}
<1> PICK L \in Nat : L = Len(tx[s])
  OBVIOUS
<1>1. /\ Len(tx'[s]) = L + 1 /\ \A i \in 1 .. L : tx'[s][i] = tx[s][i]
      /\ tx'[s][L + 1] = e
  OBVIOUS
<1>2. ASSUME NEW n, NEW i \in 1 .. L + 1 PROVE SentBefore(s, n, i)' = SentBefore(s, n, i)
  <2>1. \A j \in 1 .. i - 1 : j \in 1 .. L
    OBVIOUS
  <2> QED BY <1>1, <2>1 DEF SentBefore
<1>3. ASSUME NEW n
      PROVE  SentBefore(s, n, L + 1 + 1)'
               = SentBefore(s, n, L + 1) \cup (IF n = e.token.line.seq THEN {e.topic} ELSE {})
  <2>1. \A j : j \in 1 .. (L + 1 + 1) - 1 <=> (j \in 1 .. (L + 1) - 1 \/ j = L + 1)
    OBVIOUS
  <2>2. \A j \in 1 .. (L + 1) - 1 : tx'[s][j] = tx[s][j]
    BY <1>1
  <2> QED BY <1>1, <2>1, <2>2 DEF SentBefore
<1>4. \A n : SentOf(s, n) = SentBefore(s, n, L + 1)
  BY DEF SentOf
<1>5. \A n : SentOf(s, n)' = SentBefore(s, n, L + 1 + 1)'
  BY <1>1 DEF SentOf
<1>6. \A n : SentOf(s, n)' = SentOf(s, n) \cup (IF n = e.token.line.seq THEN {e.topic} ELSE {})
  BY <1>3, <1>4, <1>5
<1>7. \A n : n # e.token.line.seq => SentOf(s, n)' = SentOf(s, n)
  BY <1>6
<1>8. SentOf(s, e.token.line.seq)' = SentOf(s, e.token.line.seq) \cup {e.topic}
  <2>1. PICK n : n = e.token.line.seq
    OBVIOUS
  <2>2. SentOf(s, n)' = SentOf(s, n) \cup {e.topic}
    BY <1>6, <2>1
  <2> QED BY <2>1, <2>2
<1> QED BY <1>1, <1>2, <1>7, <1>8

\* Nothing new to a subscriber.
LEMMA SentKept ==
  ASSUME NEW s \in Clients, tx'[s] = tx[s]
  PROVE  \A n, i : /\ SentBefore(s, n, i)' = SentBefore(s, n, i)
                  /\ SentOf(s, n)' = SentOf(s, n)
                  /\ SeqOf(s, i)' = SeqOf(s, i) /\ FromOf(s, i)' = FromOf(s, i)
BY DEF SentBefore, SentOf, SeqOf, FromOf

-----------------------------------------------------------------------------
\* What the modules before have found.
Known == Base /\ PeerInv /\ (Live => ThreadParts /\ SocketParts)

\* It is known in every state.
LEMMA KnownHolds == Spec => []Known
BY BaseHolds, PeersHold, ThreadPartsHold, SocketPartsHold, PTL DEF Known

\* Of two accepted clients that play different parts, one publishes.
LEMMA OnePublisher ==
  ASSUME Few, NEW s \in Subscribers, NEW p \in Publishers, NEW q \in Publishers,
         pc[s] \in Past, pc[p] \in Past, pc[q] \in Past
  PROVE  p = q
<1>1. s \in Clients /\ p \in Clients /\ q \in Clients /\ s # p /\ s # q
  BY DEF Subscribers, Publishers
<1>2. pc[s] # "none" /\ pc[p] # "none" /\ pc[q] # "none"
  BY DEF Past, Forwarding
<1> QED BY <1>1, <1>2 DEF Few

\* A forwarder with a message that sends to a subscriber serves that subscriber.
LEMMA RowPartner ==
  ASSUME Known, Live, NEW t \in Clients, pc[t] \in Serving \ {"read"},
         NEW s \in Subscribers, fd_sus[t] = s
  PROVE  /\ pc[s] \in Past
         /\ fd_pub[t] \in Publishers /\ pc[fd_pub[t]] \in Past /\ Name[fd_pub[t]] = Sus[s]
         /\ buf[t].kind = "data" /\ buf[t].from = fd_pub[t] /\ buf[t].seq \in 1 .. sent[fd_pub[t]]
         /\ buf[t].seq \in Nat
         /\ want[t] \subseteq Wanted[s]
         /\ pc[t] # "write" => want[t] = Wanted[s]
<1>1. ServeOf(t) /\ BufOf(t) /\ Inv /\ TypeOK /\ RowParts
  BY DEF Known, Base, Live, ThreadParts, SocketParts, ServeInv, BufInv, Inv, RowInv
<1>2. s \in Clients /\ Sus[s] # NONE /\ s # STDIN
  BY ClientsAssumption DEF Subscribers, Publishers
<1>3. pc[s] \in Past
  BY <1>1, <1>2 DEF ServeOf, Serving
<1>4. /\ fd_pub[t] \in Publishers /\ buf[t].kind = "data" /\ buf[t].from = fd_pub[t]
      /\ buf[t].seq \in 1 .. sent[fd_pub[t]]
  BY <1>1 DEF BufOf
<1>5. fd_pub[t] \in Clients /\ fd_pub[t] # STDIN
  BY <1>4, ClientsAssumption DEF Publishers
<1>6. pc[fd_pub[t]] \in Past /\ Name[fd_pub[t]] = Sus[RowClient(t)]
  BY <1>1, <1>5 DEF ServeOf, Serving
<1>7. row[t] < fd_idx /\ Sus[RowClient(t)] # NONE
  BY <1>1 DEF ServeOf, Serving
<1>8. row[t] \in Slots
  BY <1>1, <1>7, ConstantTypes DEF TypeOK, Slots
<1>9. RowClient(t) \in Clients /\ pc[RowClient(t)] \in Past
  BY <1>1, <1>7, <1>8 DEF RowParts, CountedRows, RowClient
<1>10. RowClient(t) = s
  <2>1. pc[s] # "none" /\ pc[fd_pub[t]] # "none" /\ pc[RowClient(t)] # "none"
    BY <1>3, <1>6, <1>9 DEF Past, Forwarding
  <2>2. fd_pub[t] # s /\ fd_pub[t] # RowClient(t)
    BY <1>2, <1>4, <1>7 DEF Publishers
  <2> QED BY <1>2, <1>5, <1>9, <2>1, <2>2 DEF Live, Few
<1>11. want[t] \subseteq Wanted[s] /\ (pc[t] # "write" => want[t] = Wanted[s])
  BY <1>1, <1>10 DEF ServeOf, Serving
<1>12. buf[t].seq \in Nat
  <2>1. sent[fd_pub[t]] \in Nat
    BY <1>1, <1>5 DEF TypeOK
  <2> QED BY <1>4, <2>1
<1> QED BY <1>3, <1>4, <1>6, <1>10, <1>11, <1>12

\* Lines 154-168 send the next wanted topic with its field of the message.
LEMMA WriteEffect ==
  ASSUME Known, Live, NEW t \in Clients, WriteTopic(t)
  PROVE  /\ pc[t] = "write" /\ UNCHANGED <<pc, fd_pub, fd_sus, buf, rx>>
         /\ \A u \in Clients \ {t} : want'[u] = want[u]
         /\ \A c \in Clients : peer'[c] = "open" => peer[c] = "open"
         /\ \E k \in Topics :
              /\ IsNext(t, k) /\ want'[t] = want[t] \ {k}
              /\ \A c \in Clients :
                   tx'[c] = IF c = fd_sus[t] /\ peer[c] = "open"
                              THEN Append(tx[c], [topic |-> k,
                                                  token |-> [line |-> buf[t], field |-> k]])
                              ELSE tx[c]
<1>1. TypeOK /\ Shape /\ SplitOf(t) /\ BufOf(t)
  BY DEF Known, Base, Live, ThreadParts, SocketParts, SplitInv, BufInv, Inv
<1>2. /\ pc[t] = "write" /\ UNCHANGED <<pc, fd_pub, fd_sus, buf, rx>>
      /\ \A u \in Clients \ {t} : want'[u] = want[u]
      /\ \A c \in Clients : peer'[c] = "open" => peer[c] = "open"
  BY <1>1 DEF WriteTopic, Goes, TypeOK
<1>3. PICK k \in Topics :
        /\ IsNext(t, k) /\ want' = [want EXCEPT ![t] = @ \ {k}]
        /\ tx' = [c \in Clients |->
                    IF c = fd_sus[t] /\ peer[c] = "open"
                      THEN Append(tx[c], [topic |-> k, token |-> FieldSent(t, k)])
                      ELSE tx[c]]
  BY DEF WriteTopic
<1>4. want'[t] = want[t] \ {k}
  BY <1>1, <1>3 DEF TypeOK
<1>5. FieldSent(t, k) = [line |-> buf[t], field |-> k]
  <2>1. buf[t] \in Line /\ buf[t].kind = "data"
    BY <1>1, <1>2 DEF Shape, BufOf, Serving
  <2>2. TokensIn(buf[t]) = TOPICS_NUMBER
    BY <2>1 DEF TokensIn
  <2>3. argv[t] = Fields(buf[t], TOPICS_NUMBER)
    BY <1>1, <1>2, <2>2 DEF SplitOf
  <2>4. Len(argv[t]) = TOPICS_NUMBER
    BY <2>1, <2>3, FieldsGrow, LimitAssumption
  <2>5. k \in 1 .. TOPICS_NUMBER /\ k <= TOPICS_NUMBER
    BY LimitAssumption DEF Topics
  <2> QED BY <2>3, <2>4, <2>5 DEF FieldSent, Fields
<1> QED BY <1>2, <1>3, <1>4, <1>5

-----------------------------------------------------------------------------
(* The lines that are sent.                                                *)

\* The line a step adds to those of a subscriber, and where its thread is.
Adds(t, s, k, e) ==
  /\ fd_sus[t] = s /\ peer[s] = "open" /\ pc[t] = "write"
  /\ IsNext(t, k) /\ want'[t] = want[t] \ {k} /\ want[t] \subseteq Wanted[s]
  /\ e.topic = k /\ e.token.field = k
  /\ e.token.line.kind = "data" /\ e.token.line.from = fd_pub[t]
  /\ e.token.line.seq = buf[t].seq /\ buf[t].seq \in Nat
  /\ fd_pub[t] \in Publishers /\ Name[fd_pub[t]] = Sus[s]
  /\ Halfway(s, t, buf[t].seq)

\* A write adds a line that is due, or none.
LEMMA WriteAdds ==
  ASSUME Known, Live, ProgressInv, NEW t \in Clients, WriteTopic(t), NEW s \in Subscribers,
         tx'[s] # tx[s]
  PROVE  \E k \in Topics, e \in Sends : Adds(t, s, k, e) /\ tx'[s] = Append(tx[s], e)
<1>1. PICK k \in Topics :
        /\ IsNext(t, k) /\ want'[t] = want[t] \ {k}
        /\ \A c \in Clients :
             tx'[c] = IF c = fd_sus[t] /\ peer[c] = "open"
                        THEN Append(tx[c], [topic |-> k,
                                            token |-> [line |-> buf[t], field |-> k]])
                        ELSE tx[c]
  BY WriteEffect
<1>2. pc[t] = "write" /\ s \in Clients
  BY WriteEffect DEF Subscribers
<1> DEFINE e == [topic |-> k, token |-> [line |-> buf[t], field |-> k]]
<1>3. fd_sus[t] = s /\ peer[s] = "open" /\ tx'[s] = Append(tx[s], e)
  BY <1>1, <1>2
<1>4. buf[t] \in Line
  BY <1>2 DEF Known, Base, Inv, Shape
<1>5. e \in Sends
  <2>1. k \in Nat
    BY DEF Topics
  <2> QED BY <1>4, <2>1 DEF Sends, Token
<1>6. Halfway(s, t, buf[t].seq)
  BY <1>2, <1>3 DEF ProgressInv, ProgressOf, WritesTo
<1>7. pc[t] \in Serving \ {"read"}
  BY <1>2 DEF Serving
<1>8. Adds(t, s, k, e)
  BY <1>1, <1>2, <1>3, <1>6, <1>7, RowPartner DEF Adds
<1> QED BY <1>3, <1>5, <1>8

\* A line that is due keeps what the properties say.
LEMMA AddsTx ==
  ASSUME TypeOK, TxInv, NEW t \in Clients, NEW s \in Subscribers, NEW k \in Topics,
         NEW e \in Sends, Adds(t, s, k, e), tx'[s] = Append(tx[s], e)
  PROVE  /\ OnlyWantedTopics!(s)'
         /\ FaithfulFields!(s)'
         /\ WholeMessagesInOrder!(s)'
<1>1. s \in Clients /\ tx[s] \in Seq(Sends)
  BY DEF Subscribers, TypeOK
<1> PICK L \in Nat : L = Len(tx[s])
  BY <1>1, SentAppend
<1>2. /\ Len(tx'[s]) = L + 1 /\ tx'[s][L + 1] = e
      /\ \A i \in 1 .. L : tx'[s][i] = tx[s][i]
      /\ \A n, i : i \in 1 .. L + 1 => SentBefore(s, n, i)' = SentBefore(s, n, i)
  BY <1>1, SentAppend
<1>3. DOMAIN tx[s] = 1 .. L /\ DOMAIN tx'[s] = 1 .. L + 1
  BY <1>1, <1>2
<1>4. \A i \in 1 .. L + 1 : i \in 1 .. L \/ i = L + 1
  OBVIOUS
<1>5. OnlyWantedTopics!(s)'
  BY <1>2, <1>3, <1>4 DEF TxInv, OnlyWantedTopics, Adds, IsNext
<1>6. FaithfulFields!(s)'
  BY <1>2, <1>3, <1>4 DEF TxInv, FaithfulFields, Adds
<1>7. WholeMessagesInOrder!(s)'
  <2> SUFFICES ASSUME NEW i \in 1 .. L + 1
               PROVE  /\ SentBefore(s, tx'[s][i].token.line.seq, i)
                           = {m \in Wanted[s] : m < tx'[s][i].topic}
                      /\ \A j \in 1 .. i - 1 :
                           LET m == tx'[s][j].token.line.seq IN
                             /\ m <= tx'[s][i].token.line.seq
                             /\ m < tx'[s][i].token.line.seq => SentBefore(s, m, i) = Wanted[s]
    BY <1>2, <1>3
  <2>1. CASE i \in 1 .. L
    <3>1. \A j \in 1 .. i - 1 : j \in 1 .. L
      OBVIOUS
    <3>2. WholeMessagesInOrder!(s)!(i)
      BY <1>3, <2>1 DEF TxInv, WholeMessagesInOrder
    <3> QED BY <1>2, <2>1, <3>1, <3>2
  <2>2. CASE i = L + 1
    <3>1. \A n : SentBefore(s, n, i) = SentOf(s, n)
      BY <2>2 DEF SentOf
    <3>2. \A j \in 1 .. i - 1 : j \in 1 .. L /\ tx'[s][j] = tx[s][j]
      BY <1>2, <2>2
    <3>3. tx'[s][i] = e
      BY <1>2, <2>2
    <3>4. SentOf(s, buf[t].seq) = {m \in Wanted[s] : m < k}
      <4>1. SentOf(s, buf[t].seq) = Wanted[s] \ want[t]
            /\ \A m \in Wanted[s] \ want[t] : m < k
        BY DEF Adds, Halfway, IsNext
      <4>2. k \in Nat /\ \A m \in want[t] : k <= m /\ m \in Nat
        BY DEF Adds, IsNext, Topics, TypeOK
      <4>3. \A m \in want[t] : ~(m < k)
        BY <4>2
      <4> QED BY <4>1, <4>3
    <3>5. \A j \in 1 .. L : /\ SeqOf(s, j) <= buf[t].seq
                            /\ SeqOf(s, j) < buf[t].seq => SentOf(s, SeqOf(s, j)) = Wanted[s]
      BY DEF Adds, Halfway
    <3>6. tx'[s][i].token.line.seq = buf[t].seq /\ tx'[s][i].topic = k
      BY <3>3 DEF Adds
    <3>7. SentBefore(s, tx'[s][i].token.line.seq, i) = {m \in Wanted[s] : m < tx'[s][i].topic}
      BY <3>1, <3>4, <3>6
    <3>8. ASSUME NEW j \in 1 .. i - 1
          PROVE  LET m == tx'[s][j].token.line.seq IN
                   /\ m <= tx'[s][i].token.line.seq
                   /\ m < tx'[s][i].token.line.seq => SentBefore(s, m, i) = Wanted[s]
      <4>1. tx'[s][j].token.line.seq = SeqOf(s, j) /\ j \in 1 .. L
        BY <3>2 DEF SeqOf
      <4> QED BY <3>1, <3>5, <3>6, <4>1
    <3> QED BY <3>7, <3>8
  <2> QED BY <1>4, <2>1, <2>2
<1> QED BY <1>5, <1>6, <1>7

-----------------------------------------------------------------------------
(* How far the messages are delivered.                                     *)

\* One forwarder is at its writes.
LEMMA OneWriter ==
  ASSUME Known, Live, NEW t \in Clients, pc[t] = "write"
  PROVE  \A u \in Clients : pc[u] \in {"split", "fwdLoad", "fwdStore", "write"} => u = t
BY Alone DEF Known, Solo, Forwarding

\* A line that is due brings its message on.
LEMMA AddsDelivery ==
  ASSUME Known, Live, DeliveryParts, NEW t \in Clients, WriteTopic(t), UNCHANGED sent,
         NEW s \in Subscribers, NEW k \in Topics, NEW e \in Sends,
         Adds(t, s, k, e), tx'[s] = Append(tx[s], e)
  PROVE  PartnersOf(s)' /\ ProgressOf(s)' /\ OlderOf(s)'
<1>1. s \in Clients /\ tx[s] \in Seq(Sends) /\ pc[t] = "write" /\ pc[t] \in Serving \ {"read"}
  BY DEF Subscribers, Known, Base, Inv, TypeOK, Adds, Serving
<1> PICK L \in Nat : L = Len(tx[s])
  BY <1>1, SentAppend
<1> PICK n : n = buf[t].seq
  OBVIOUS
<1>2. /\ Len(tx'[s]) = L + 1 /\ tx'[s][L + 1] = e
      /\ \A i \in 1 .. L : tx'[s][i] = tx[s][i]
      /\ \A m : m # n => SentOf(s, m)' = SentOf(s, m)
      /\ SentOf(s, n)' = SentOf(s, n) \cup {k}
  <2>1. e.token.line.seq = n /\ e.topic = k
    BY DEF Adds
  <2>2. /\ Len(tx[s]) \in Nat /\ Len(tx'[s]) = Len(tx[s]) + 1
        /\ \A i \in 1 .. Len(tx[s]) : tx'[s][i] = tx[s][i]
        /\ tx'[s][Len(tx[s]) + 1] = e
        /\ \A m : m # e.token.line.seq => SentOf(s, m)' = SentOf(s, m)
        /\ SentOf(s, e.token.line.seq)' = SentOf(s, e.token.line.seq) \cup {e.topic}
    BY <1>1, SentAppend
  <2> QED BY <2>1, <2>2
<1>3. \A i \in 1 .. L + 1 : i \in 1 .. L \/ i = L + 1
  OBVIOUS
<1>4. /\ \A i \in 1 .. L : SeqOf(s, i)' = SeqOf(s, i) /\ FromOf(s, i)' = FromOf(s, i)
      /\ SeqOf(s, L + 1)' = n /\ FromOf(s, L + 1)' = fd_pub[t]
  BY <1>2 DEF SeqOf, FromOf, Adds
<1>5. UNCHANGED <<pc, fd_pub, fd_sus, buf, rx>>
  BY WriteEffect
<1>6. /\ pc[s] \in Past /\ fd_pub[t] \in Publishers /\ pc[fd_pub[t]] \in Past
      /\ n \in 1 .. sent[fd_pub[t]] /\ n \in Nat
  BY <1>1, RowPartner DEF Adds
<1>7. PartnersOf(s)'
  <2>1. PartnersOf(s)
    BY DEF DeliveryParts, PartnersInv
  <2> SUFFICES ASSUME NEW i \in 1 .. L + 1 PROVE PartnersOf(s)!(i)'
    BY <1>2 DEF PartnersOf
  <2>2. CASE i \in 1 .. L
    BY <1>4, <1>5, <2>1, <2>2 DEF PartnersOf
  <2>3. CASE i = L + 1
    BY <1>4, <1>5, <1>6, <2>3
  <2> QED BY <1>3, <2>2, <2>3
<1>8. OlderOf(s)'
  <2>1. OlderOf(s) /\ BufOf(t)
    BY DEF DeliveryParts, OlderInv, Known, SocketParts, BufInv
  <2>2. \A u \in Clients : pc[u] \notin {"split", "fwdLoad", "fwdStore"}
    BY <1>1, OneWriter
  <2>3. \A i \in 1 .. L : \A j \in 1 .. Len(rx[FromOf(s, i)]) :
          SeqOf(s, i) < rx[FromOf(s, i)][j].seq
    BY <2>1 DEF OlderOf
  <2>4. \A j \in 1 .. Len(rx[fd_pub[t]]) : n < rx[fd_pub[t]][j].seq
    BY <1>1, <2>1 DEF BufOf
  <2>5. ASSUME NEW i \in 1 .. L + 1 PROVE OlderOf(s)!(i)'
    <3>1. CASE i \in 1 .. L
      BY <1>4, <1>5, <2>2, <2>3, <3>1
    <3>2. CASE i = L + 1
      BY <1>4, <1>5, <2>2, <2>4, <3>2
    <3> QED BY <1>3, <3>1, <3>2
  <2> QED BY <1>2, <2>5 DEF OlderOf
<1>9. ProgressOf(s)'
  <2>1. Halfway(s, t, n) /\ want'[t] = want[t] \ {k} /\ k \in want[t] /\ want[t] \subseteq Wanted[s]
        /\ \A m \in want[t] : k <= m
    BY DEF Adds, IsNext
  <2>2. Halfway(s, t, n)'
    <3>1. ASSUME NEW i \in 1 .. L + 1
          PROVE  (SeqOf(s, i) <= n /\ (SeqOf(s, i) < n => SentOf(s, SeqOf(s, i)) = Wanted[s]))'
      <4>1. CASE i \in 1 .. L
        <5>1. PICK m : m = SeqOf(s, i) /\ m = SeqOf(s, i)'
          BY <1>4, <4>1
        <5>2. m <= n /\ (m < n => SentOf(s, m) = Wanted[s])
          BY <2>1, <4>1, <5>1 DEF Halfway
        <5>3. m < n => m # n
          BY <1>6
        <5>4. m < n => SentOf(s, m)' = Wanted[s]
          BY <1>2, <5>2, <5>3
        <5> QED BY <5>1, <5>2, <5>4
      <4>2. CASE i = L + 1
        BY <1>4, <1>6, <4>2
      <4> QED BY <1>3, <4>1, <4>2
    <3>2. SentOf(s, n)' = Wanted[s] \ want'[t]
      BY <1>2, <2>1 DEF Halfway
    <3>3. \A k2 \in want'[t], m \in Wanted[s] \ want'[t] : m < k2
      <4> SUFFICES ASSUME NEW k2 \in want[t] \ {k}, NEW m \in Wanted[s] \ (want[t] \ {k})
                   PROVE  m < k2
        BY <2>1
      <4>1. CASE m = k
        <5>1. k <= k2 /\ k # k2 /\ k \in Nat /\ k2 \in Nat
          BY <2>1, ConstantTypes DEF Topics, Known, Base, Inv, TypeOK
        <5> QED BY <4>1, <5>1
      <4>2. CASE m # k
        BY <2>1, <4>2 DEF Halfway
      <4> QED BY <4>1, <4>2
    <3> QED BY <1>2, <3>1, <3>2, <3>3 DEF Halfway
  <2>3. WritesTo(t, s)' /\ \A u \in Clients : WritesTo(u, s)' => u = t
    BY <1>1, <1>5, OneWriter DEF WritesTo, Adds
  <2>4. buf'[t].seq = n
    BY <1>5
  <2> QED BY <2>2, <2>3, <2>4 DEF ProgressOf
<1> QED BY <1>7, <1>8, <1>9

\* A subscriber that nothing is sent to and that no forwarder turns to.
LEMMA ProgressKept ==
  ASSUME NEW s \in Clients, tx'[s] = tx[s], peer'[s] = "open" => peer[s] = "open", ProgressOf(s),
         \A u \in Clients :
           /\ WritesTo(u, s)' <=> WritesTo(u, s)
           /\ WritesTo(u, s) => want'[u] = want[u] /\ buf'[u] = buf[u]
  PROVE  ProgressOf(s)'
<1>0. \A i : (SentOf(s, SeqOf(s, i)))' = SentOf(s, SeqOf(s, i))
  <2> TAKE i
  <2>1. PICK m : m = SeqOf(s, i) /\ m = SeqOf(s, i)'
    BY SentKept
  <2>2. SentOf(s, m)' = SentOf(s, m)
    BY SentKept
  <2> QED BY <2>1, <2>2
<1>1. Complete(s)' <=> Complete(s)
  BY <1>0 DEF Complete
<1>2. ASSUME NEW u \in Clients, want'[u] = want[u], buf'[u] = buf[u]
      PROVE  Halfway(s, u, buf[u].seq) => Halfway(s, u, buf[u].seq)'
  <2>1. PICK n : n = buf[u].seq
    OBVIOUS
  <2>2. \A m, i : SentOf(s, m)' = SentOf(s, m) /\ SeqOf(s, i)' = SeqOf(s, i)
    BY SentKept
  <2>3. Halfway(s, u, n) => Halfway(s, u, n)'
    BY <1>0, <1>2, <2>2 DEF Halfway
  <2> QED BY <1>2, <2>1, <2>3
<1> QED BY <1>1, <1>2 DEF ProgressOf

\* Threads that are registered stay so, and publishers publish more.
LEMMA PartnersKept ==
  ASSUME NEW s \in Subscribers, tx'[s] = tx[s], PartnersOf(s), sent \in [Clients -> Nat],
         \A c \in Clients : pc[c] \in Past => pc'[c] \in Past,
         \A c \in Clients : sent'[c] \in {sent[c], sent[c] + 1}
  PROVE  PartnersOf(s)'
<1> SUFFICES ASSUME NEW i \in 1 .. Len(tx[s]) PROVE PartnersOf(s)!(i)'
  BY DEF PartnersOf
<1>1. /\ pc[s] \in Past /\ FromOf(s, i) \in Publishers /\ pc[FromOf(s, i)] \in Past
      /\ SeqOf(s, i) \in 1 .. sent[FromOf(s, i)]
  BY DEF PartnersOf
<1>2. PICK p \in Clients : p = FromOf(s, i) /\ p = FromOf(s, i)'
  BY <1>1, SentKept DEF Publishers, Subscribers
<1>3. PICK n : n = SeqOf(s, i) /\ n = SeqOf(s, i)'
  BY SentKept DEF Subscribers
<1>4. n \in 1 .. sent'[p]
  BY <1>1, <1>2, <1>3
<1> QED BY <1>1, <1>2, <1>3, <1>4 DEF Subscribers

\* Nothing new to send to a subscriber.
LEMMA OlderKept ==
  ASSUME NEW s \in Subscribers, tx'[s] = tx[s], OlderOf(s), PartnersOf(s),
         \A c \in Clients : rx'[c] \in {rx[c], <<>>},
         \A u \in Clients : pc'[u] \in {"split", "fwdLoad", "fwdStore"} =>
           pc[u] \in {"split", "fwdLoad", "fwdStore"} /\ buf'[u] = buf[u]
  PROVE  OlderOf(s)'
<1> SUFFICES ASSUME NEW i \in 1 .. Len(tx[s]) PROVE OlderOf(s)!(i)'
  BY DEF OlderOf
<1>1. PICK p \in Clients : p = FromOf(s, i) /\ p = FromOf(s, i)'
  BY SentKept DEF PartnersOf, Publishers, Subscribers
<1>2. PICK n : n = SeqOf(s, i) /\ n = SeqOf(s, i)'
  BY SentKept DEF Subscribers
<1>3. /\ \A j \in 1 .. Len(rx[p]) : n < rx[p][j].seq
      /\ \A u \in Clients : pc[u] \in {"split", "fwdLoad", "fwdStore"} => n < buf[u].seq
  BY <1>1, <1>2 DEF OlderOf
<1>4. \A j \in 1 .. Len(rx'[p]) : n < rx'[p][j].seq
  <2>1. CASE rx'[p] = rx[p]
    BY <1>3, <2>1
  <2>2. CASE rx'[p] = <<>>
    <3>1. Len(rx'[p]) = 0
      BY <2>2
    <3> QED BY <3>1
  <2> QED BY <2>1, <2>2
<1> QED BY <1>1, <1>2, <1>3, <1>4

\* A write keeps track of what is delivered.
LEMMA WriteDelivery ==
  ASSUME Known, Live, DeliveryParts, NEW t \in Clients, WriteTopic(t), UNCHANGED sent
  PROVE  DeliveryParts'
<1>1. pc[t] = "write" /\ UNCHANGED <<pc, fd_pub, fd_sus, buf, rx>>
  BY WriteEffect
<1>2. TypeOK /\ ProgressInv
  BY DEF Known, Base, Inv, DeliveryParts
<1>3. ASSUME NEW s \in Subscribers PROVE PartnersOf(s)' /\ ProgressOf(s)' /\ OlderOf(s)'
  <2>1. CASE tx'[s] # tx[s]
    BY <1>2, <2>1, WriteAdds, AddsDelivery
  <2>2. CASE tx'[s] = tx[s]
    <3>1. s \in Clients /\ PartnersOf(s) /\ ProgressOf(s) /\ OlderOf(s) /\ sent \in [Clients -> Nat]
      BY <1>2 DEF Subscribers, DeliveryParts, PartnersInv, ProgressInv, OlderInv, TypeOK
    <3>2. PartnersOf(s)'
      BY <1>1, <2>2, <3>1, PartnersKept
    <3>3. OlderOf(s)'
      BY <1>1, <2>2, <3>1, OlderKept
    <3>4. peer'[s] = "open" => peer[s] = "open" /\ fd_sus[t] # s
      <4>1. peer'[s] = "open" => peer[s] = "open"
        BY <3>1, WriteEffect
      <4>2. SUFFICES ASSUME peer[s] = "open", fd_sus[t] = s PROVE FALSE
        BY <4>1
      <4>3. PICK e : tx'[s] = Append(tx[s], e)
        <5>1. PICK k \in Topics :
                IsNext(t, k) /\ want'[t] = want[t] \ {k} /\ \A c \in Clients :
                tx'[c] = IF c = fd_sus[t] /\ peer[c] = "open"
                           THEN Append(tx[c], [topic |-> k,
                                               token |-> [line |-> buf[t], field |-> k]])
                           ELSE tx[c]
          BY WriteEffect
        <5> QED BY <3>1, <4>2, <5>1
      <4>4. tx[s] \in Seq(Sends)
        BY <1>2, <3>1 DEF TypeOK
      <4>5. Len(Append(tx[s], e)) = Len(tx[s]) + 1 /\ Len(tx[s]) \in Nat
        BY <4>4
      <4> QED BY <2>2, <4>3, <4>5
    <3>5. ProgressOf(s)'
      <4>0. SUFFICES ASSUME peer'[s] = "open" PROVE ProgressOf(s)'
        BY DEF ProgressOf
      <4>1. \A u \in Clients : WritesTo(u, s) => u # t
        BY <3>4, <4>0 DEF WritesTo
      <4>2. \A u \in Clients : WritesTo(u, s) => want'[u] = want[u] /\ buf'[u] = buf[u]
        BY <1>1, <4>1, WriteEffect
      <4>3. \A u \in Clients : WritesTo(u, s)' <=> WritesTo(u, s)
        BY <1>1 DEF WritesTo
      <4> QED BY <2>2, <3>1, <3>2, <3>3, <3>4, <4>2, <4>3, ProgressKept
    <3> QED BY <3>2, <3>3, <3>5
  <2> QED BY <2>1, <2>2
<1> QED BY <1>3 DEF DeliveryParts, PartnersInv, ProgressInv, OlderInv

\* What a thread does with the message it has in hand.
LEMMA MessageFrame ==
  ASSUME TypeOK, NEW t \in Clients, Thread(t), broker' = "up", ~WriteTopic(t)
  PROVE  /\ \A c \in Clients : rx'[c] \in {rx[c], <<>>}
         /\ UNCHANGED <<tx, peer>>
         /\ pc'[t] \in {"split", "fwdLoad", "fwdStore"} =>
              \/ Read(t)
              \/ pc[t] \in {"split", "fwdLoad", "fwdStore"} /\ buf'[t] = buf[t]
         /\ pc'[t] = "write" => SplitEnd(t)
         /\ pc[t] = "write" => WriteDone(t)
<1>1. \A c \in Clients : rx'[c] \in {rx[c], <<>>}
  BY NetFrame DEF ReadName, ReadSus, Read, RioLeft, TypeOK
<1>2. UNCHANGED <<tx, peer>>
  BY NetFrame
<1> USE DEF Goes, locals, TypeOK
<1>3. CASE Strtok(t) \/ SplitMsg(t) \/ SplitEnd(t)
  BY <1>1, <1>2, <1>3 DEF Strtok, StrtokLoad, StrtokStore, SplitMsg, SplitEnd, StrtokFirst,
     StrtokEnd
<1>4. CASE \/ WaitControl(t) \/ ScanPast(t) \/ ScanRow(t) \/ Lookup(t) \/ ReadNothing(t)
           \/ WriteDone(t) \/ Read(t)
  BY <1>1, <1>2, <1>4 DEF WaitControl, ScanPast, ScanRow, Lookup, ReadNothing, WriteDone, Read
<1>5. CASE UpdateSus(t) \/ CopyTopic(t) \/ OverrunStore(t) \/ OverrunDone(t)
  BY <1>1, <1>2, <1>5 DEF UpdateSus, AfterUpdate, CopyTopic, OverrunStore, OverrunDone
<1>6. CASE \/ Lock(t) \/ ReadName(t) \/ ReadSus(t) \/ StoreNone(t) \/ SplitSus(t)
           \/ StoreSus(t) \/ Finish(t) \/ Unlock(t)
  BY <1>1, <1>2, <1>6 DEF Lock, ReadName, ReadSus, StoreNone, SplitSus, StoreSus, Finish,
     Unlock
<1> QED BY <1>3, <1>4, <1>5, <1>6 DEF Thread, Register, Forward, HandshakeEOF,
        UpdateSusFault, ControlFault, LookupFault, ReadError, WriteFault, Dies

\* While a forwarder has a message in hand, nobody else writes.
LEMMA NobodyElse ==
  ASSUME Known, Live, NEW t \in Clients, pc[t] \in Forwarding
  PROVE  \A u \in Clients : pc[u] \in Forwarding => u = t
BY Alone DEF Known, Solo, Forwarding

\* The end of split(): its message is newer than all that has been sent.
LEMMA SplitEndDelivery ==
  ASSUME Known, Live, DeliveryParts, NEW t \in Clients, SplitEnd(t), UNCHANGED tx, UNCHANGED peer,
         NEW s \in Subscribers, fd_sus[t] = s
  PROVE  ProgressOf(s)'
<1> SUFFICES ASSUME peer[s] = "open" PROVE ProgressOf(s)'
  BY DEF ProgressOf
<1>1. /\ pc[t] = "fwdStore" /\ pc' = [pc EXCEPT ![t] = "write"]
      /\ UNCHANGED <<buf, want, fd_sus>> /\ s \in Clients
  BY DEF SplitEnd, StrtokEnd, Goes, Subscribers
<1>2. \A u \in Clients : pc[u] \in Forwarding => u = t
  BY <1>1, NobodyElse DEF Forwarding
<1>3. Complete(s)
  BY <1>1, <1>2 DEF DeliveryParts, ProgressInv, ProgressOf, WritesTo, Forwarding
<1> PICK n : n = buf[t].seq
  OBVIOUS
<1>4. n \in Nat /\ want[t] = Wanted[s]
  BY <1>1, RowPartner DEF Serving
<1>5. \A i \in 1 .. Len(tx[s]) : SeqOf(s, i) < n
  BY <1>1 DEF DeliveryParts, OlderInv, OlderOf
<1>6. \A i \in 1 .. Len(tx[s]) : SeqOf(s, i) \in Nat
  <2> TAKE i \in 1 .. Len(tx[s])
  <2>1. FromOf(s, i) \in Publishers /\ SeqOf(s, i) \in 1 .. sent[FromOf(s, i)]
    BY DEF DeliveryParts, PartnersInv, PartnersOf
  <2>2. sent[FromOf(s, i)] \in Nat
    BY <2>1 DEF Publishers, Known, Base, Inv, TypeOK
  <2> QED BY <2>1, <2>2
<1>7. SentOf(s, n) = {}
  <2>1. tx[s] \in Seq(Sends) /\ Len(tx[s]) \in Nat
    BY <1>1 DEF Known, Base, Inv, TypeOK
  <2>2. \A j : j \in 1 .. (Len(tx[s]) + 1) - 1 => j \in 1 .. Len(tx[s])
    BY <2>1
  <2>3. \A j \in 1 .. Len(tx[s]) : tx[s][j].token.line.seq # n
    BY <1>4, <1>5, <1>6 DEF SeqOf
  <2> QED BY <2>2, <2>3 DEF SentOf, SentBefore
<1>8. \A i \in 1 .. Len(tx[s]) : SeqOf(s, i) <= n
  BY <1>4, <1>5, <1>6
<1>9. Halfway(s, t, n)
  BY <1>3, <1>4, <1>7, <1>8 DEF Halfway, Complete
<1>10. Halfway(s, t, n)' /\ buf'[t].seq = n
  BY <1>1, <1>9 DEF Halfway, SentOf, SentBefore, SeqOf
<1>11. WritesTo(t, s)' /\ \A u \in Clients : WritesTo(u, s)' => u = t
  BY <1>1, <1>2 DEF WritesTo, Known, Base, Inv, TypeOK, Forwarding
<1> QED BY <1>10, <1>11 DEF ProgressOf

\* The end of the loop of lines 154-169: the message is complete.
LEMMA WriteDoneDelivery ==
  ASSUME Known, Live, DeliveryParts, NEW t \in Clients, WriteDone(t), UNCHANGED tx, UNCHANGED peer,
         NEW s \in Subscribers, fd_sus[t] = s
  PROVE  ProgressOf(s)'
<1> SUFFICES ASSUME peer[s] = "open" PROVE ProgressOf(s)'
  BY DEF ProgressOf
<1>1. pc[t] = "write" /\ pc' = [pc EXCEPT ![t] = "scan"] /\ want[t] = {} /\ s \in Clients
  BY DEF WriteDone, Goes, Subscribers
<1>2. \A u \in Clients : pc[u] \in Forwarding => u = t
  BY <1>1, NobodyElse DEF Forwarding
<1>3. Halfway(s, t, buf[t].seq)
  BY <1>1 DEF DeliveryParts, ProgressInv, ProgressOf, WritesTo
<1> PICK n : n = buf[t].seq
  OBVIOUS
<1>4. n \in Nat
  BY <1>1, RowPartner DEF Serving
<1>5. \A i \in 1 .. Len(tx[s]) : SeqOf(s, i) \in Nat
  <2> TAKE i \in 1 .. Len(tx[s])
  <2>1. FromOf(s, i) \in Publishers /\ SeqOf(s, i) \in 1 .. sent[FromOf(s, i)]
    BY DEF DeliveryParts, PartnersInv, PartnersOf
  <2>2. sent[FromOf(s, i)] \in Nat
    BY <2>1 DEF Publishers, Known, Base, Inv, TypeOK
  <2> QED BY <2>1, <2>2
<1>6. SentOf(s, n) = Wanted[s]
  BY <1>1, <1>3 DEF Halfway
<1>7. \A i \in 1 .. Len(tx[s]) :
        /\ SeqOf(s, i) = n \/ SeqOf(s, i) < n
        /\ SeqOf(s, i) < n => SentOf(s, SeqOf(s, i)) = Wanted[s]
  BY <1>3, <1>4, <1>5 DEF Halfway
<1>8. Complete(s)
  BY <1>6, <1>7 DEF Complete
<1>9. Complete(s)'
  BY <1>8 DEF Complete, SentOf, SentBefore, SeqOf
<1>10. \A u \in Clients : ~WritesTo(u, s)'
  BY <1>1, <1>2 DEF WritesTo, Known, Base, Inv, TypeOK, Forwarding
<1> QED BY <1>9, <1>10 DEF ProgressOf

\* Line 143: what a forwarder reads is newer than what has been sent.
LEMMA ReadOlder ==
  ASSUME Known, Live, DeliveryParts, NEW t \in Clients, Read(t), UNCHANGED tx, BufOf(t)',
         \A c \in Clients : pc[c] \in Past => pc'[c] \in Past,
         \A c \in Clients : rx'[c] \in {rx[c], <<>>},
         NEW s \in Subscribers
  PROVE  OlderOf(s)'
<1> SUFFICES ASSUME NEW i \in 1 .. Len(tx[s]) PROVE OlderOf(s)!(i)'
  BY DEF OlderOf
<1>1. /\ pc[t] = "read" /\ pc' = [pc EXCEPT ![t] = "split"] /\ fd_pub[t] \in Clients
      /\ rx[fd_pub[t]] # <<>> /\ buf' = [buf EXCEPT ![t] = rx[fd_pub[t]][1]]
      /\ rx' = [rx EXCEPT ![fd_pub[t]] = <<>>] /\ fd_pub' = fd_pub
  BY DEF Read, Goes, RioLine, RioLeft
<1>2. TypeOK /\ PartnersOf(s) /\ OlderOf(s) /\ ServeOf(t) /\ Few
  BY DEF Known, Base, Inv, DeliveryParts, PartnersInv, OlderInv, ThreadParts, ServeInv, Live
<1>3. fd_pub[t] \in Publishers
  <2>1. pc'[t] = "split"
    BY <1>1, <1>2 DEF TypeOK
  <2> QED BY <1>1, <2>1 DEF BufOf, Serving
<1>4. pc[fd_pub[t]] \in Past
  BY <1>1, <1>2, ClientsAssumption DEF ServeOf, Serving
<1>5. PICK p \in Publishers : p = FromOf(s, i) /\ p = FromOf(s, i)'
  BY <1>2, SentKept DEF PartnersOf, Subscribers
<1>6. p = fd_pub[t] /\ p \in Clients
  BY <1>2, <1>3, <1>4, <1>5, OnePublisher DEF PartnersOf, Publishers
<1>7. PICK n : n = SeqOf(s, i) /\ n = SeqOf(s, i)'
  BY SentKept DEF Subscribers
<1>8. /\ \A j \in 1 .. Len(rx[p]) : n < rx[p][j].seq
      /\ \A u \in Clients : pc[u] \in {"split", "fwdLoad", "fwdStore"} => n < buf[u].seq
  BY <1>2, <1>5, <1>7 DEF OlderOf
<1>9. Len(rx'[p]) = 0
  BY <1>1, <1>2, <1>6 DEF TypeOK
<1>10. n < buf'[t].seq
  <2>1. rx[p] \in Seq(Line)
    BY <1>2, <1>6 DEF TypeOK
  <2>2. 1 \in 1 .. Len(rx[p])
    BY <1>1, <1>6, <2>1
  <2> QED BY <1>1, <1>2, <1>6, <1>8, <2>2 DEF TypeOK
<1>11. \A u \in Clients \ {t} : pc'[u] = pc[u] /\ buf'[u] = buf[u]
  BY <1>1, <1>2 DEF TypeOK
<1>12. \A u \in Clients : pc'[u] \in {"split", "fwdLoad", "fwdStore"} => n < buf'[u].seq
  BY <1>8, <1>10, <1>11
<1> QED BY <1>5, <1>7, <1>9, <1>12

\* The other steps of a thread keep track of what is delivered.
LEMMA ThreadDelivery ==
  ASSUME Known, Live, DeliveryParts, NEW t \in Clients, Thread(t), ~WriteTopic(t),
         broker' = "up", UNCHANGED sent, BufInv'
  PROVE  DeliveryParts'
<1>1. TypeOK
  BY DEF Known, Base, Inv
<1>2. /\ \A u \in Clients \ {t} : /\ pc'[u] = pc[u] /\ want'[u] = want[u]
                                  /\ fd_sus'[u] = fd_sus[u] /\ buf'[u] = buf[u]
      /\ pc[t] \in Past => pc'[t] \in Past
  BY <1>1, ThreadFrame
<1>3. /\ \A c \in Clients : rx'[c] \in {rx[c], <<>>}
      /\ UNCHANGED <<tx, peer>>
      /\ pc'[t] \in {"split", "fwdLoad", "fwdStore"} =>
           \/ Read(t)
           \/ pc[t] \in {"split", "fwdLoad", "fwdStore"} /\ buf'[t] = buf[t]
      /\ pc'[t] = "write" => SplitEnd(t)
      /\ pc[t] = "write" => WriteDone(t)
  BY <1>1, MessageFrame
<1>4. \A c \in Clients : pc[c] \in Past => pc'[c] \in Past
  BY <1>2
<1>5. ASSUME NEW s \in Subscribers PROVE PartnersOf(s)' /\ ProgressOf(s)' /\ OlderOf(s)'
  <2>1. s \in Clients /\ PartnersOf(s) /\ ProgressOf(s) /\ OlderOf(s) /\ sent \in [Clients -> Nat]
    BY <1>1 DEF Subscribers, DeliveryParts, PartnersInv, ProgressInv, OlderInv, TypeOK
  <2>2. PartnersOf(s)'
    <3>1. \A c \in Clients : sent'[c] \in {sent[c], sent[c] + 1}
      OBVIOUS
    <3> QED BY <1>3, <1>4, <2>1, <3>1, PartnersKept
  <2>3. OlderOf(s)'
    <3>1. CASE Read(t)
      <4>1. BufOf(t)'
        BY DEF BufInv
      <4> QED BY <1>3, <1>4, <3>1, <4>1, ReadOlder
    <3>2. CASE ~Read(t)
      <4>1. \A u \in Clients : pc'[u] \in {"split", "fwdLoad", "fwdStore"} =>
              pc[u] \in {"split", "fwdLoad", "fwdStore"} /\ buf'[u] = buf[u]
        BY <1>2, <1>3, <3>2
      <4> QED BY <1>3, <2>1, <4>1, OlderKept
    <3> QED BY <3>1, <3>2
  <2>4. ProgressOf(s)'
    <3>1. CASE fd_sus[t] = s /\ SplitEnd(t)
      BY <1>3, <3>1, SplitEndDelivery
    <3>2. CASE fd_sus[t] = s /\ WriteDone(t)
      BY <1>3, <3>2, WriteDoneDelivery
    <3>3. CASE ~(fd_sus[t] = s /\ SplitEnd(t)) /\ ~(fd_sus[t] = s /\ WriteDone(t))
      <4>1. SplitEnd(t) => UNCHANGED fd_sus
        BY DEF SplitEnd, StrtokEnd
      <4>2. WriteDone(t) => pc'[t] = "scan"
        BY <1>1 DEF WriteDone, Goes, TypeOK
      <4>3. ~WritesTo(t, s)
        BY <1>3, <3>3 DEF WritesTo
      <4>4. ~WritesTo(t, s)'
        BY <1>3, <3>3, <4>1, <4>2 DEF WritesTo
      <4>5. \A u \in Clients :
              /\ WritesTo(u, s)' <=> WritesTo(u, s)
              /\ WritesTo(u, s) => want'[u] = want[u] /\ buf'[u] = buf[u]
        BY <1>2, <4>3, <4>4 DEF WritesTo
      <4> QED BY <1>3, <2>1, <4>5, ProgressKept
    <3> QED BY <3>1, <3>2, <3>3
  <2> QED BY <2>2, <2>3, <2>4
<1> QED BY <1>5 DEF DeliveryParts, PartnersInv, ProgressInv, OlderInv

\* The steps of the clients keep track of what is delivered: a publisher
\* writes a message that is newer than all the others.
LEMMA ClientDelivery ==
  ASSUME Known, Live, DeliveryParts, NEW c \in Clients, Client(c) \/ Exit(c)
  PROVE  DeliveryParts'
<1>1. TypeOK /\ broker = "up" /\ PeerInv
  BY DEF Known, Base, Inv, Live
<1>2. /\ UNCHANGED <<pc, want, fd_sus, buf, tx>>
      /\ \A d \in Clients \ {c} : /\ rx'[d] = rx[d]
                                  /\ sent'[d] = sent[d] /\ peer'[d] = peer[d]
      /\ \/ SendName(c) \/ SendSus(c) \/ Publish(c)
         \/ UNCHANGED <<rx, sent>>
  BY <1>1, ClientEffect DEF locals
<1>3. \A d \in Clients : sent'[d] \in {sent[d], sent[d] + 1}
  <2>1. SendName(c) \/ SendSus(c) => UNCHANGED sent
    BY DEF SendName, SendSus
  <2>2. Publish(c) => sent'[c] = sent[c] + 1
    BY <1>1 DEF Publish, TypeOK
  <2> QED BY <1>2, <2>1, <2>2
<1>4. \A s \in Subscribers : pc[s] # "none" => (peer'[s] = "open" => peer[s] = "open")
  <2> SUFFICES ASSUME NEW s \in Subscribers, pc[s] # "none", peer'[s] = "open", s = c
               PROVE  peer[s] = "open"
    BY <1>2 DEF Subscribers
  <2>1. s \in Clients
    BY DEF Subscribers
  <2>2. CASE Connect(c)
    BY <1>1, <2>1, <2>2 DEF Connect, ClientGoes, PeerInv
  <2>3. CASE Exit(c)
    <3>1. PICK end \in {"closed", "reset"} : peer' = [peer EXCEPT ![c] = end]
      BY <2>3 DEF Exit
    <3> QED BY <1>1, <3>1 DEF TypeOK
  <2>4. CASE ~Connect(c) /\ ~Exit(c)
    BY <2>4 DEF Client, SendName, SendSus, HandshakeBroken, Publish, PublishLost, PublishBroken,
       Show, SubEOF, net
  <2> QED BY <2>2, <2>3, <2>4
<1>5. ASSUME NEW s \in Subscribers PROVE PartnersOf(s)' /\ ProgressOf(s)' /\ OlderOf(s)'
  <2>1. s \in Clients /\ PartnersOf(s) /\ ProgressOf(s) /\ OlderOf(s) /\ sent \in [Clients -> Nat]
    BY <1>1 DEF Subscribers, DeliveryParts, PartnersInv, ProgressInv, OlderInv, TypeOK
  <2>2. PartnersOf(s)'
    BY <1>2, <1>3, <2>1, PartnersKept
  <2>3. OlderOf(s)'
    <3>1. CASE UNCHANGED rx
      BY <1>2, <2>1, <3>1, OlderKept
    <3>2. CASE SendName(c) \/ SendSus(c) \/ Publish(c)
      <4> SUFFICES ASSUME NEW i \in 1 .. Len(tx[s]) PROVE OlderOf(s)!(i)'
        BY <1>2 DEF OlderOf
      <4>1. PICK p \in Publishers : p = FromOf(s, i) /\ p = FromOf(s, i)'
        BY <1>2, <2>1, SentKept DEF PartnersOf
      <4>2. PICK n : n = SeqOf(s, i) /\ n = SeqOf(s, i)'
        BY <1>2, <2>1, SentKept
      <4>3. /\ \A j \in 1 .. Len(rx[p]) : n < rx[p][j].seq
            /\ \A u \in Clients : pc[u] \in {"split", "fwdLoad", "fwdStore"} => n < buf[u].seq
            /\ pc[p] \in Past /\ n \in 1 .. sent[p] /\ p \in Clients
        BY <2>1, <4>1, <4>2 DEF OlderOf, PartnersOf, Publishers
      <4>4. \A j \in 1 .. Len(rx'[p]) : n < rx'[p][j].seq
        <5>1. CASE p # c
          BY <1>2, <4>3, <5>1
        <5>2. CASE p = c /\ Publish(c)
          <6>1. rx'[p] = Append(rx[p], DataLine(p, sent[p] + 1)) /\ rx[p] \in Seq(Line)
            BY <1>1, <5>2, <4>3 DEF Publish, Writes, TypeOK
          <6>2. DataLine(p, sent[p] + 1).seq = sent[p] + 1 /\ sent[p] \in Nat
            BY <1>1, <4>3 DEF DataLine, TypeOK
          <6>3. DataLine(p, sent[p] + 1) \in Line
            BY <4>3, <6>2, LineTypes
          <6>4. \A j \in 1 .. Len(rx'[p]) : /\ j \in 1 .. Len(rx[p]) => rx'[p][j] = rx[p][j]
                                            /\ \/ j \in 1 .. Len(rx[p])
                                               \/ rx'[p][j] = DataLine(p, sent[p] + 1)
            BY <6>1, <6>3
          <6>5. n < sent[p] + 1
            BY <4>3, <6>2
          <6> QED BY <4>3, <6>2, <6>4, <6>5
        <5>3. CASE p = c /\ (SendName(c) \/ SendSus(c))
          <6>1. cpc[p] \in {"connected", "named"}
            BY <5>3 DEF SendName, SendSus, ClientGoes
          <6>2. StreamOf(p) /\ Off(p) = 2
            BY <4>3 DEF Known, SocketParts, StreamInv, Off, Past, Forwarding
          <6>3. Len(rx[p]) \in Nat
            BY <1>1, <4>3 DEF TypeOK
          <6> QED BY <6>1, <6>2, <6>3 DEF StreamOf
        <5> QED BY <3>2, <5>1, <5>2, <5>3
      <4> QED BY <1>2, <4>1, <4>2, <4>3, <4>4
    <3> QED BY <1>2, <3>1, <3>2
  <2>4. ProgressOf(s)'
    <3>1. \A u \in Clients :
            /\ WritesTo(u, s)' <=> WritesTo(u, s)
            /\ WritesTo(u, s) => want'[u] = want[u] /\ buf'[u] = buf[u]
      BY <1>2 DEF WritesTo
    <3>2. CASE pc[s] # "none"
      BY <1>2, <1>4, <2>1, <3>1, <3>2, ProgressKept
    <3>3. CASE pc[s] = "none"
      <4>1. Len(tx[s]) = 0
        <5>1. tx[s] \in Seq(Sends)
          BY <1>1, <2>1 DEF TypeOK
        <5> SUFFICES ASSUME Len(tx[s]) # 0 PROVE FALSE
          OBVIOUS
        <5>2. 1 \in 1 .. Len(tx[s])
          BY <5>1
        <5> QED BY <2>1, <3>3, <5>2 DEF PartnersOf, Past, Forwarding
      <4>2. \A u \in Clients : ~WritesTo(u, s)
        <5> SUFFICES ASSUME NEW u \in Clients, WritesTo(u, s) PROVE FALSE
          OBVIOUS
        <5>1. pc[u] \in Serving \ {"read"} /\ fd_sus[u] = s
          BY DEF WritesTo, Serving
        <5>2. pc[s] \in Past
          BY <5>1, RowPartner
        <5> QED BY <3>3, <5>2 DEF Past, Forwarding
      <4>3. Complete(s)'
        BY <1>2, <4>1 DEF Complete
      <4> QED BY <3>1, <4>2, <4>3 DEF ProgressOf
    <3> QED BY <3>2, <3>3
  <2> QED BY <2>2, <2>3, <2>4
<1> QED BY <1>5 DEF DeliveryParts, PartnersInv, ProgressInv, OlderInv

-----------------------------------------------------------------------------
\* What is delivered, in every state.
LEMMA DeliveryPartsHold == Spec => [](Live => DeliveryParts)
<1>1. Init => DeliveryParts
  <2> SUFFICES ASSUME Init PROVE DeliveryParts
    OBVIOUS
  <2>1. \A s \in Subscribers : Len(tx[s]) = 0
    BY DEF Init, BrokerInit, Subscribers
  <2>2. \A t \in Clients : pc[t] = "none"
    BY DEF Init, BrokerInit
  <2> QED BY <2>1, <2>2 DEF DeliveryParts, PartnersInv, PartnersOf, ProgressInv, ProgressOf,
          WritesTo, Complete, OlderInv, OlderOf
<1>2. Known /\ (Live => DeliveryParts) /\ [Next]_vars /\ Known' => (Live => DeliveryParts)'
  <2> SUFFICES ASSUME Known, Live => DeliveryParts, [Next]_vars, Known', Live'
               PROVE  DeliveryParts'
    OBVIOUS
  <2>1. Live /\ broker' = "up" /\ TypeOK /\ BufInv' /\ DeliveryParts
    <3>1. Live
      BY LiveBefore DEF Known, Base, Live
    <3> QED BY <3>1 DEF Known, Base, Inv, Live, SocketParts
  <2>3. ASSUME UNCHANGED <<want, fd_sus, buf, rx, tx, peer, sent>>,
               \A u \in Clients : pc'[u] = pc[u] \/ (pc[u] = "none" /\ pc'[u] = "start")
        PROVE  DeliveryParts'
    <3>1. ASSUME NEW s \in Subscribers PROVE PartnersOf(s)' /\ ProgressOf(s)' /\ OlderOf(s)'
      <4>1. /\ s \in Clients /\ PartnersOf(s) /\ ProgressOf(s) /\ OlderOf(s)
            /\ sent \in [Clients -> Nat]
        BY <2>1 DEF Subscribers, DeliveryParts, PartnersInv, ProgressInv, OlderInv, TypeOK
      <4>2. \A u \in Clients : pc[u] \in Past => pc'[u] \in Past
        BY <2>3 DEF Past, Forwarding
      <4>3. PartnersOf(s)'
        BY <2>3, <4>1, <4>2, PartnersKept
      <4>4. \A u \in Clients : pc'[u] \in {"split", "fwdLoad", "fwdStore"} =>
              pc[u] \in {"split", "fwdLoad", "fwdStore"} /\ buf'[u] = buf[u]
        BY <2>3
      <4>5. OlderOf(s)'
        BY <2>3, <4>1, <4>4, OlderKept
      <4>6. \A u \in Clients :
              /\ WritesTo(u, s)' <=> WritesTo(u, s)
              /\ WritesTo(u, s) => want'[u] = want[u] /\ buf'[u] = buf[u]
        BY <2>3 DEF WritesTo
      <4>7. ProgressOf(s)'
        BY <2>3, <4>1, <4>6, ProgressKept
      <4> QED BY <4>3, <4>5, <4>7
    <3> QED BY <3>1 DEF DeliveryParts, PartnersInv, ProgressInv, OlderInv
  <2>2. CASE (SigClose \/ SigExit) /\ UNCHANGED clientVars
    <3>1. UNCHANGED <<pc, want, fd_sus, buf, rx, tx, peer, sent>>
      BY <2>2 DEF SigClose, SigExit, locals, net, clientVars
    <3> QED BY <2>3, <3>1
  <2>a. ASSUME NEW t \in Clients, Accept(t), UNCHANGED clientVars PROVE DeliveryParts'
    <3>1. /\ pc[t] = "none" /\ pc' = [pc EXCEPT ![t] = "start"]
          /\ UNCHANGED <<want, fd_sus, buf, rx, tx, peer, sent>>
      BY <2>a DEF Accept, Goes, locals, net, clientVars
    <3>2. \A u \in Clients : pc'[u] = pc[u] \/ (pc[u] = "none" /\ pc'[u] = "start")
      BY <2>1, <3>1 DEF TypeOK
    <3> QED BY <2>3, <3>1, <3>2
  <2>4. ASSUME NEW t \in Clients, Thread(t), UNCHANGED clientVars PROVE DeliveryParts'
    <3>1. UNCHANGED sent
      BY <2>4 DEF clientVars
    <3> QED BY <2>1, <2>4, <3>1, WriteDelivery, ThreadDelivery
  <2>5. ASSUME NEW c \in Clients, Client(c) \/ Exit(c) PROVE DeliveryParts'
    BY <2>1, <2>5, ClientDelivery
  <2>6. CASE UNCHANGED vars
    <3>1. UNCHANGED <<pc, want, fd_sus, buf, rx, tx, peer, sent>>
      BY <2>6 DEF vars, brokerVars, locals, net, clientVars
    <3> QED BY <2>3, <3>1
  <2> QED BY <2>2, <2>a, <2>4, <2>5, <2>6 DEF Next, BrokerNext
<1> QED BY <1>1, <1>2, KnownHolds, PTL DEF Spec

-----------------------------------------------------------------------------
\* A thread runs in a live broker, and sends nothing but at its writes.
LEMMA ThreadTx ==
  ASSUME NEW t \in Clients, Thread(t)
  PROVE  broker = "up" /\ (UNCHANGED tx \/ WriteTopic(t))
<1>1. broker = "up"
  BY DEF Thread, Register, Strtok, Forward, Goes, Dies, Lock, ReadName, ReadSus,
     HandshakeEOF, StoreNone, SplitSus, StoreSus, UpdateSus, UpdateSusFault,
     CopyTopic, OverrunStore, OverrunDone, Finish, Unlock, ControlFault, StrtokLoad,
     StrtokStore, WaitControl, ScanPast, ScanRow, Lookup, LookupFault, Read, ReadNothing,
     ReadError, SplitMsg, SplitEnd, WriteTopic, WriteFault, WriteDone
<1>2. CASE broker' = "up"
  BY <1>1, <1>2, NetFrame
<1>3. CASE broker' # "up"
  BY <1>1, <1>3 DEF Thread, Register, Strtok, Forward, Goes, Dies, net, Lock, ReadName,
     ReadSus, HandshakeEOF, StoreNone, SplitSus, StoreSus, UpdateSus, UpdateSusFault,
     CopyTopic, OverrunStore, OverrunDone, Finish, Unlock, ControlFault, StrtokLoad,
     StrtokStore, WaitControl, ScanPast, ScanRow, Lookup, LookupFault, Read, ReadNothing,
     ReadError, SplitMsg, SplitEnd, WriteFault, WriteDone
<1> QED BY <1>2, <1>3

\* Only a forwarder at its writes, and of a live broker, sends anything.
LEMMA TxFrame ==
  ASSUME TypeOK, [Next]_vars
  PROVE  UNCHANGED tx \/ (broker = "up" /\ \E t \in Clients : WriteTopic(t) /\ UNCHANGED clientVars)
<1>1. CASE SigClose \/ SigExit
  BY <1>1 DEF SigClose, SigExit, net
<1>2. ASSUME NEW t \in Clients, Accept(t) PROVE UNCHANGED tx
  BY <1>2 DEF Accept, net
<1>3. ASSUME NEW t \in Clients, Thread(t), UNCHANGED clientVars
      PROVE  UNCHANGED tx \/ (broker = "up" /\ WriteTopic(t) /\ UNCHANGED clientVars)
  BY <1>3, ThreadTx
<1>4. ASSUME NEW c \in Clients, Client(c) \/ Exit(c) PROVE UNCHANGED tx
  BY <1>4 DEF Client, Connect, SendName, SendSus, HandshakeBroken, Publish, PublishLost,
     PublishBroken, Show, SubEOF, Exit, net
<1>5. CASE UNCHANGED vars
  BY <1>5 DEF vars, brokerVars, net
<1> QED BY <1>1, <1>2, <1>3, <1>4, <1>5 DEF Next, BrokerNext

\* With two clients, all three properties of the lines that are sent hold.
LEMMA TxHolds == Spec => [](Few => TxInv)
<1>1. Init => TxInv
  <2> SUFFICES ASSUME Init PROVE TxInv
    OBVIOUS
  <2>1. \A s \in Subscribers : DOMAIN tx[s] = {}
    BY DEF Init, BrokerInit, Subscribers
  <2> QED BY <2>1 DEF TxInv, OnlyWantedTopics, FaithfulFields, WholeMessagesInOrder
<1>2. Known /\ (Live => DeliveryParts) /\ (Few => TxInv) /\ [Next]_vars => (Few => TxInv)'
  <2> SUFFICES ASSUME Known, Live => DeliveryParts, Few => TxInv, [Next]_vars, Few'
               PROVE  TxInv'
    OBVIOUS
  <2>1. Few /\ TypeOK /\ TxInv
    BY LiveBefore DEF Known, Base, Inv
  <2>2. ASSUME NEW s \in Subscribers
        PROVE  /\ OnlyWantedTopics!(s)'
               /\ FaithfulFields!(s)'
               /\ WholeMessagesInOrder!(s)'
    <3>1. CASE tx'[s] = tx[s]
      <4>1. OnlyWantedTopics!(s)' /\ FaithfulFields!(s)'
        BY <2>1, <3>1 DEF TxInv, OnlyWantedTopics, FaithfulFields
      <4>2. \A n, i : SentBefore(s, n, i)' = SentBefore(s, n, i)
        BY <3>1, SentKept DEF Subscribers
      <4>3. WholeMessagesInOrder!(s)
        BY <2>1 DEF TxInv, WholeMessagesInOrder
      <4>4. WholeMessagesInOrder!(s)'
        BY <3>1, <4>2, <4>3
      <4> QED BY <4>1, <4>4
    <3>2. CASE tx'[s] # tx[s]
      <4>1. PICK t \in Clients : broker = "up" /\ WriteTopic(t)
        BY <2>1, <3>2, TxFrame
      <4>2. Live /\ ProgressInv
        BY <2>1, <4>1 DEF Live, DeliveryParts
      <4>3. PICK k \in Topics, e \in Sends : Adds(t, s, k, e) /\ tx'[s] = Append(tx[s], e)
        BY <3>2, <4>1, <4>2, WriteAdds
      <4> QED BY <2>1, <4>3, AddsTx
    <3> QED BY <3>1, <3>2
  <2> QED BY <2>2 DEF TxInv, OnlyWantedTopics, FaithfulFields, WholeMessagesInOrder
<1> QED BY <1>1, <1>2, KnownHolds, DeliveryPartsHold, PTL DEF Spec

\* As long as at most two clients have been accepted, a subscriber is sent
\* topics it has asked for and no others (lines 154-169).
THEOREM OnlyWantedTopicsHolds == Spec => [](Few => OnlyWantedTopics)
BY TxHolds, PTL DEF TxInv

\* As long as at most two clients have been accepted, every line a subscriber
\* is sent carries the value of its topic, from the node subscribed to.
THEOREM FaithfulFieldsHolds == Spec => [](Few => FaithfulFields)
BY TxHolds, PTL DEF TxInv

\* As long as at most two clients have been accepted, messages reach a
\* subscriber whole, once and in the order they were published.
THEOREM WholeMessagesHold == Spec => [](Few => WholeMessagesInOrder)
BY TxHolds, PTL DEF TxInv

-----------------------------------------------------------------------------
(* The service of PubSub.                                                  *)

\* The line that is due is the part of a message the service allows next.
LEMMA NextPart ==
  ASSUME TypeOK, TxInv, NEW t \in Clients, NEW s \in Subscribers, NEW k \in Topics,
         NEW e \in Sends, Adds(t, s, k, e), NEW n, n = buf[t].seq,
         NEW L \in Nat, L = Len(tx[s])
  PROVE  /\ k \in Wanted[s]
         /\ \/ /\ L # 0 /\ tx[s][L].token.line.seq = n /\ tx[s][L].topic < k
               /\ \A m \in Wanted[s] : tx[s][L].topic < m => k <= m
            \/ /\ L # 0 => /\ tx[s][L].token.line.seq < n
                           /\ \A m \in Wanted[s] : m <= tx[s][L].topic
               /\ 0 < k /\ \A m \in Wanted[s] : k <= m
<1>1. s \in Clients /\ tx[s] \in Seq(Sends)
  BY DEF Subscribers, TypeOK
<1>2. /\ n \in Nat /\ k \in want[t] /\ want[t] \subseteq Wanted[s] /\ \A m \in want[t] : k <= m
      /\ \A i \in 1 .. L : SeqOf(s, i) <= n
                          /\ (SeqOf(s, i) < n => SentOf(s, SeqOf(s, i)) = Wanted[s])
      /\ SentOf(s, n) = Wanted[s] \ want[t]
      /\ \A m \in Wanted[s] \ want[t] : m < k
  BY DEF Adds, IsNext, Halfway
<1>3. 0 < k /\ k \in Nat /\ \A m \in Wanted[s] : m \in Nat
  BY <1>1, WantedAssumption DEF Topics
<1>4. SentOf(s, n) = {} => \A m \in Wanted[s] : k <= m
  BY <1>2
<1>5. CASE L = 0
  <2>1. SentOf(s, n) = {}
    BY <1>5 DEF SentOf, SentBefore
  <2> QED BY <1>2, <1>3, <1>4, <1>5, <2>1
<1>6. CASE L # 0
  <2>1. L \in 1 .. L /\ \A j \in 1 .. L : j \in 1 .. L - 1 \/ j = L
    BY <1>6
  <2>2. tx[s][L] \in Sends /\ tx[s][L].topic \in Nat /\ tx[s][L].token.line.seq \in Nat
    <3>1. tx[s][L] \in Sends
      BY <1>1, <2>1
    <3> QED BY <3>1 DEF Sends, Token, Line, Topics
  <2> PICK l \in Nat : l = SeqOf(s, L)
    BY <2>2 DEF SeqOf
  <2> PICK kl \in Nat : kl = tx[s][L].topic
    BY <2>2
  <2>3. SentBefore(s, l, L) = {m \in Wanted[s] : m < kl}
        /\ \A j \in 1 .. L - 1 : SeqOf(s, j) <= l
    BY <1>1, <2>1 DEF TxInv, WholeMessagesInOrder, SeqOf
  <2>4. SentOf(s, l) = SentBefore(s, l, L) \cup {kl}
    <3>1. \A j : j \in 1 .. (L + 1) - 1 <=> (j \in 1 .. L - 1 \/ j = L)
      BY <2>1
    <3> QED BY <3>1 DEF SentOf, SentBefore, SeqOf
  <2>5. kl \in Wanted[s]
    BY <1>1, <2>1 DEF TxInv, OnlyWantedTopics
  <2>6. \A m \in SentOf(s, l) : m <= kl
    BY <1>3, <2>3, <2>4
  <2>7. CASE l = n
    <3>1. kl < k
      BY <1>2, <2>4, <2>5, <2>7
    <3>2. \A m \in Wanted[s] : kl < m => k <= m
      BY <1>2, <1>3, <2>6, <2>7
    <3> QED BY <1>2, <1>6, <2>7, <3>1, <3>2 DEF SeqOf
  <2>8. CASE l # n
    <3>1. l < n /\ SentOf(s, l) = Wanted[s]
      BY <1>2, <2>1, <2>8
    <3>2. SentOf(s, n) = {}
      <4>1. \A j \in 1 .. L : SeqOf(s, j) # n
        BY <1>2, <2>1, <2>3, <3>1
      <4>2. \A j : j \in 1 .. (L + 1) - 1 => j \in 1 .. L
        OBVIOUS
      <4> QED BY <4>1, <4>2 DEF SentOf, SentBefore, SeqOf
    <3> QED BY <1>2, <1>3, <1>4, <2>6, <3>1, <3>2 DEF SeqOf
  <2> QED BY <2>7, <2>8
<1> QED BY <1>5, <1>6

\* The parts a subscriber has been delivered.
Parts(s) == [i \in DOMAIN tx[s] |-> AsPart(tx[s][i])]

\* They are a sequence, with one part for every line.
LEMMA PartsType ==
  ASSUME NEW s \in Clients, tx[s] \in Seq(Sends)
  PROVE  /\ Parts(s) \in Seq({AsPart(x) : x \in Sends}) /\ Len(Parts(s)) = Len(tx[s])
         /\ \A i \in 1 .. Len(tx[s]) : Parts(s)[i] = AsPart(tx[s][i])
<1>1. Len(tx[s]) \in Nat /\ DOMAIN tx[s] = 1 .. Len(tx[s])
      /\ \A i \in 1 .. Len(tx[s]) : tx[s][i] \in Sends
  OBVIOUS
<1> DEFINE P == {AsPart(x) : x \in Sends}
<1> HIDE DEF P
<1>2. \A i \in 1 .. Len(tx[s]) : AsPart(tx[s][i]) \in P
  BY <1>1 DEF P
<1>3. Parts(s) = [i \in 1 .. Len(tx[s]) |-> AsPart(tx[s][i])]
  BY <1>1 DEF Parts
<1>4. Parts(s) \in [1 .. Len(tx[s]) -> P] /\ DOMAIN Parts(s) = 1 .. Len(tx[s])
  BY <1>2, <1>3
<1>5. Parts(s) \in Seq(P) /\ Len(Parts(s)) = Len(tx[s])
  BY <1>1, <1>4
<1>6. \A i \in 1 .. Len(tx[s]) : Parts(s)[i] = AsPart(tx[s][i])
  BY <1>3
<1> QED BY <1>5, <1>6 DEF P

\* One line more is one part more.
LEMMA PartsAppend ==
  ASSUME NEW s \in Clients, tx[s] \in Seq(Sends), NEW e \in Sends, tx'[s] = Append(tx[s], e)
  PROVE  Parts(s)' = Append(Parts(s), AsPart(e))
<1> DEFINE P == {AsPart(x) : x \in Sends}
<1> HIDE DEF P
<1> PICK L \in Nat : L = Len(tx[s])
  OBVIOUS
<1>1. Parts(s) \in Seq(P) /\ Len(Parts(s)) = L /\ \A i \in 1 .. L : Parts(s)[i] = AsPart(tx[s][i])
  BY PartsType DEF P
<1>2. /\ Len(tx'[s]) = L + 1 /\ tx'[s] \in Seq(Sends)
      /\ \A i \in 1 .. L : tx'[s][i] = tx[s][i]
      /\ tx'[s][L + 1] = e
  OBVIOUS
<1>3. /\ Parts(s)' \in Seq(P) /\ Len(Parts(s)') = L + 1
      /\ \A i \in 1 .. L + 1 : Parts(s)'[i] = AsPart(tx'[s][i])
  <2>1. DOMAIN tx'[s] = 1 .. L + 1 /\ \A i \in 1 .. L + 1 : tx'[s][i] \in Sends
    BY <1>2
  <2>2. Parts(s)' = [i \in 1 .. L + 1 |-> AsPart(tx'[s][i])]
    BY <2>1 DEF Parts, AsPart
  <2>3. \A i \in 1 .. L + 1 : AsPart(tx'[s][i]) \in P
    BY <2>1 DEF P
  <2>4. Parts(s)' \in [1 .. L + 1 -> P] /\ DOMAIN Parts(s)' = 1 .. L + 1
    BY <2>2, <2>3
  <2>5. L + 1 \in Nat
    OBVIOUS
  <2>6. Parts(s)' \in Seq(P) /\ Len(Parts(s)') = L + 1
    BY <2>4, <2>5
  <2> QED BY <2>2, <2>6
<1>4. AsPart(e) \in P
  BY DEF P
<1> PICK a \in P : a = AsPart(e)
  BY <1>4
<1>5. /\ Append(Parts(s), a) \in Seq(P) /\ Len(Append(Parts(s), a)) = L + 1
      /\ \A i \in 1 .. L : Append(Parts(s), a)[i] = Parts(s)[i]
      /\ Append(Parts(s), a)[L + 1] = a
  BY <1>1
<1>6. \A i \in 1 .. L + 1 : i \in 1 .. L \/ i = L + 1
  OBVIOUS
<1>7. \A i \in 1 .. L + 1 : Parts(s)'[i] = Append(Parts(s), a)[i]
  BY <1>1, <1>2, <1>3, <1>5, <1>6
<1> QED BY <1>3, <1>5, <1>7, SeqEqual

-----------------------------------------------------------------------------
\* What the subscribers have been delivered, and the publishers published.
AllParts == [s \in Subscribers |-> Parts(s)]
Published == [p \in Publishers |-> sent[p]]

\* The service in the terms of the system.
LEMMA ServiceInit == ASSUME Init PROVE Service!Init
<1>1. \A c \in Clients : tx[c] = <<>> /\ sent[c] = 0
  BY DEF Init, BrokerInit
<1>2. broker = "up"
  BY DEF Init, BrokerInit
<1>3. \A s \in Subscribers : [i \in DOMAIN tx[s] |-> AsPart(tx[s][i])] = <<>>
  BY <1>1 DEF Subscribers
<1> QED BY <1>1, <1>2, <1>3 DEF Service!Init, Subscribers, Publishers

\* A write that reaches a subscriber delivers the next part that is due.
LEMMA WriteDelivers ==
  ASSUME Known, Live, DeliveryParts, TxInv, NEW t \in Clients, WriteTopic(t), UNCHANGED sent,
         NEW s \in Subscribers, tx'[s] # tx[s]
  PROVE  Service!Next
<1>1. TypeOK /\ s \in Clients /\ tx[s] \in Seq(Sends) /\ broker = "up" /\ broker' = "up"
  BY DEF Known, Base, Inv, TypeOK, Subscribers, Live, WriteTopic, Goes
<1>2. PICK k \in Topics, e \in Sends : Adds(t, s, k, e) /\ tx'[s] = Append(tx[s], e)
  BY WriteAdds DEF DeliveryParts
<1> PICK n : n = buf[t].seq
  OBVIOUS
<1> PICK L \in Nat : L = Len(tx[s])
  BY <1>1
<1> PICK p \in Publishers : p = fd_pub[t]
  BY <1>2 DEF Adds
<1>3. n \in 1 .. sent[p] /\ Sus[s] = Name[p]
  <2>1. pc[t] \in Serving \ {"read"} /\ fd_sus[t] = s
    BY <1>2 DEF Adds, Serving
  <2> QED BY <2>1, RowPartner
<1>4. AsPart(e) = [from |-> p, seq |-> n, topic |-> k, value |-> k]
  BY <1>2 DEF Adds, AsPart
<1>5. Parts(s)' = Append(Parts(s), AsPart(e))
  BY <1>1, <1>2, PartsAppend
<1>6. \A c \in Subscribers \ {s} : Parts(c)' = Parts(c)
  <2>1. \A c \in Clients : c # fd_sus[t] => tx'[c] = tx[c]
    BY WriteEffect
  <2>2. fd_sus[t] = s
    BY <1>2 DEF Adds
  <2> QED BY <2>1, <2>2 DEF Parts, AsPart, Subscribers
<1>7. AllParts' = [AllParts EXCEPT ![s] =
                     Append(AllParts[s], [from |-> p, seq |-> n, topic |-> k, value |-> k])]
  BY <1>4, <1>5, <1>6 DEF AllParts
<1>8. /\ k \in Wanted[s]
      /\ \/ /\ L # 0 /\ tx[s][L].token.line.seq = n /\ tx[s][L].topic < k
            /\ \A m \in Wanted[s] : tx[s][L].topic < m => k <= m
         \/ /\ L # 0 => /\ tx[s][L].token.line.seq < n
                        /\ \A m \in Wanted[s] : m <= tx[s][L].topic
            /\ 0 < k /\ \A m \in Wanted[s] : k <= m
  BY <1>1, <1>2, NextPart
<1>9. /\ Len(AllParts[s]) = L /\ (AllParts[s] = <<>> <=> L = 0)
      /\ L # 0 => /\ AllParts[s][L].seq = tx[s][L].token.line.seq
                  /\ AllParts[s][L].topic = tx[s][L].topic
  <2>1. AllParts[s] = Parts(s)
    BY DEF AllParts
  <2>2. /\ Parts(s) \in Seq({AsPart(x) : x \in Sends}) /\ Len(Parts(s)) = L
        /\ \A i \in 1 .. L : Parts(s)[i] = AsPart(tx[s][i])
    BY <1>1, PartsType
  <2>3. Parts(s) = <<>> <=> L = 0
    BY <2>2
  <2>4. L # 0 => L \in 1 .. L
    OBVIOUS
  <2>5. L # 0 => Parts(s)[L] = AsPart(tx[s][L])
    BY <2>2, <2>4
  <2>6. \A l : AsPart(l).seq = l.token.line.seq /\ AsPart(l).topic = l.topic
    BY DEF AsPart
  <2>7. Len(Parts(s)) = L
    BY <2>2
  <2> QED BY <2>1, <2>3, <2>5, <2>6, <2>7
<1>10. Published' = Published
  BY DEF Published
<1>11. Service!Deliver(s, p, n, k)
  BY <1>1, <1>3, <1>7, <1>8, <1>9, <1>10
     DEF Service!Deliver, Service!MayContinue, Service!MayBegin, Service!FirstBehind,
         Service!Last, Service!Part, AllParts, Parts, Published
<1> QED BY <1>3, <1>8, <1>11 DEF Service!Next, Published

\* Nothing the service speaks of has changed.
LEMMA ServiceStutters ==
  ASSUME UNCHANGED broker, UNCHANGED sent, \A s \in Subscribers : tx'[s] = tx[s]
  PROVE  UNCHANGED Service!vars
<1>1. [p \in Publishers |-> sent[p]]' = [p \in Publishers |-> sent[p]]
  OBVIOUS
<1>2. [s \in Subscribers |-> [i \in DOMAIN tx[s] |-> AsPart(tx[s][i])]]'
        = [s \in Subscribers |-> [i \in DOMAIN tx[s] |-> AsPart(tx[s][i])]]
  BY DEF AsPart
<1> QED BY <1>1, <1>2 DEF Service!vars

\* A broker that ends delivers nothing any more.
LEMMA ServiceEnds ==
  ASSUME broker' # "up", UNCHANGED sent, UNCHANGED tx
  PROVE  Service!Next
<1>1. Service!End
  BY DEF Service!End, AsPart
<1> QED BY <1>1 DEF Service!Next

\* A publisher's message is one that the service counts.
LEMMA PublishPublishes ==
  ASSUME TypeOK, NEW p \in Publishers, Publish(p)
  PROVE  Service!Next
<1>1. sent' = [sent EXCEPT ![p] = @ + 1] /\ broker = "up" /\ UNCHANGED <<broker, tx>>
  BY DEF Publish, TakesLines, ClientGoes
<1>2. [q \in Publishers |-> sent[q]]'
        = [[q \in Publishers |-> sent[q]] EXCEPT ![p] = [q \in Publishers |-> sent[q]][p] + 1]
  BY <1>1 DEF TypeOK, Publishers
<1>3. Service!Publish(p)
  BY <1>1, <1>2 DEF Service!Publish, AsPart
<1> QED BY <1>3 DEF Service!Next

\* Every step of the system is a step of the service, or none of its business.
LEMMA StepServes ==
  ASSUME Known, Live => DeliveryParts, Few, TxInv, [Next]_vars
  PROVE  [Service!Next]_(Service!vars)
<1>1. TypeOK
  BY DEF Known, Base, Inv
<1>2. ASSUME NEW t \in Clients, WriteTopic(t), UNCHANGED clientVars
      PROVE  [Service!Next]_(Service!vars)
  <2>1. broker = "up" /\ UNCHANGED <<broker, sent>>
    BY <1>2 DEF WriteTopic, Goes, clientVars
  <2>2. CASE \E s \in Subscribers : tx'[s] # tx[s]
    BY <1>2, <2>1, <2>2, WriteDelivers DEF Live
  <2>3. CASE \A s \in Subscribers : tx'[s] = tx[s]
    BY <2>1, <2>3, ServiceStutters
  <2> QED BY <2>2, <2>3
<1>3. ASSUME UNCHANGED <<tx, sent>>, broker = "up" \/ UNCHANGED broker
      PROVE  [Service!Next]_(Service!vars)
  BY <1>3, ServiceStutters, ServiceEnds
<1>4. CASE (SigClose \/ SigExit) /\ UNCHANGED clientVars
  BY <1>3, <1>4 DEF SigClose, SigExit, net, clientVars
<1>5. ASSUME NEW t \in Clients, Accept(t) \/ Thread(t), UNCHANGED clientVars, ~WriteTopic(t)
      PROVE  [Service!Next]_(Service!vars)
  <2>1. CASE Thread(t)
    <3>1. broker = "up" /\ UNCHANGED <<tx, sent>>
      BY <1>5, <2>1, ThreadTx DEF clientVars
    <3> QED BY <1>3, <3>1
  <2>2. CASE Accept(t)
    BY <1>3, <1>5, <2>2 DEF Accept, Goes, net, clientVars
  <2> QED BY <1>5, <2>1, <2>2
<1>6. ASSUME NEW c \in Clients, Client(c) \/ Exit(c)
      PROVE  [Service!Next]_(Service!vars)
  <2>1. CASE Publish(c)
    BY <1>1, <2>1, PublishPublishes DEF Publish
  <2>2. CASE ~Publish(c)
    <3>1. UNCHANGED <<broker, tx, sent>>
      BY <1>6, <2>2 DEF Client, Connect, SendName, SendSus, HandshakeBroken, PublishLost,
         PublishBroken, Show, SubEOF, Exit, ClientGoes, net
    <3> QED BY <1>3, <3>1
  <2> QED BY <2>1, <2>2
<1>7. CASE UNCHANGED vars
  BY <1>3, <1>7 DEF vars, brokerVars, net, clientVars
<1> QED BY <1>2, <1>4, <1>5, <1>6, <1>7 DEF Next, BrokerNext

\* The broker and its clients provide the service of PubSub as long as at most
\* two clients have been accepted: with the mapping of MQTT!Service, the initial
\* states are initial states of the service and every step of a thread, a client
\* or the kernel is a publication, the delivery of the next part that is due,
\* the end of the service, or a stutter.
THEOREM ServiceProvided == Spec /\ []Few => ProvidesService
<1>1. Init => Service!Init
  BY ServiceInit
<1>2. /\ Known /\ (Live => DeliveryParts) /\ Few /\ (Few => TxInv) /\ [Next]_vars
      => [Service!Next]_(Service!vars)
  BY StepServes
<1> QED BY <1>1, <1>2, KnownHolds, DeliveryPartsHold, TxHolds, PTL
        DEF Spec, ProvidesService, Service!Spec

=============================================================================
