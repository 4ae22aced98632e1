------------------------------- MODULE Broker -------------------------------
(***************************************************************************)
(* The broker process (broker_server.c): main() accepts connections and    *)
(* starts one thread() per client; every thread registers its client in    *)
(* the parallel lists under sem_mutex and then, if it gets past            *)
(* sem_control, forwards messages for ALL subscriptions, reading the lists *)
(* without a lock.                                                         *)
(*                                                                         *)
(* A client stands for its connection: the descriptors accept() returns    *)
(* are never closed, so they are never reused.  A thread has the name of   *)
(* its client.  Lines are the units of the sockets: each line is written   *)
(* by one small write() and the backlog stays below RIO_BUFSIZE, so read() *)
(* returns whole lines.  Logging is left out.                              *)
(*                                                                         *)
(* The kernel's part of the sockets (rx, peer, tx) is external.            *)
(***************************************************************************)
EXTENDS Integers, Sequences, FiniteSets

CONSTANTS
  Clients,             \* client processes, publishers and subscribers
  Name,                \* Name[c]: the node name c sends in its first line
  Sus,                 \* Sus[c]: the node c subscribes to, NONE for a publisher
  Wanted,              \* Wanted[c]: the topics update_sus_info keeps for c
  Short,               \* clients whose subscription is "<node>/<topic>"
  TOPICS_NUMBER,       \* topics, and fields of a message
  LIMIT_CONN_CLIENTS,  \* length of the parallel lists
  StdinEOF,            \* is the broker's standard input at end of file?
  MayStop,             \* may the user send SIGINT?
  NULL, NONE, STDIN, THREAD_ID,
  TORN                 \* a pointer that is overwritten in part

Topics == 1 .. TOPICS_NUMBER
Names == {Name[c] : c \in Clients}

ASSUME ClientsAssumption ==
  /\ IsFiniteSet(Clients)
  /\ {NULL, NONE, STDIN, THREAD_ID, TORN} \cap Clients = {}
ASSUME NamesAssumption ==
  {NULL, NONE, STDIN, THREAD_ID, TORN} \cap (Names \cup {Sus[c] : c \in Clients})
    \subseteq {NONE}
ASSUME SentinelsAssumption ==
  /\ NULL \notin {NONE, STDIN, THREAD_ID, TORN}
  /\ NONE \notin {STDIN, THREAD_ID, TORN}
  /\ STDIN \notin {THREAD_ID, TORN} /\ THREAD_ID # TORN
ASSUME WantedAssumption == Wanted \in [Clients -> SUBSET Topics]
ASSUME ShortAssumption == Short \subseteq Clients
ASSUME LimitAssumption ==
  /\ TOPICS_NUMBER \in Nat \ {0}
  /\ LIMIT_CONN_CLIENTS \in Nat \ {0}
  /\ StdinEOF \in BOOLEAN /\ MayStop \in BOOLEAN

\* The lists have LIMIT_CONN_CLIENTS entries.  Index LIMIT_CONN_CLIENTS is the
\* memory behind each of them in the shipped build: the pointer sem_control
\* behind client_fd_list, thread_id behind client_name_list, zeroes behind
\* client_sus_list, and client_name_list itself behind topic_list.
Slots == 0 .. LIMIT_CONN_CLIENTS

\* The names under topic_list[LIMIT_CONN_CLIENTS]: two topics to a pointer.
Overlapped == {(k - 1) \div 2 : k \in Topics} \cap Slots

\* Lines on the sockets.  A data line is the seq-th message of its publisher.
Line == [kind : {"name", "sus", "data"}, from : Clients, seq : Nat]
NameLine(c) == [kind |-> "name", from |-> c, seq |-> 0]
SusLine(c) == [kind |-> "sus", from |-> c, seq |-> 0]
DataLine(c, n) == [kind |-> "data", from |-> c, seq |-> n]

\* A token is a pointer into a line: its field, or 0 for the unsplit rest.
Token == [line : Line, field : Nat]
\* Where strtok will go on: `k' tokens of `line' are already cut off.
Cursor == [line : Line, k : Nat]

\* How many tokens a line holds for its own delimiter.
TokensIn(line) ==
  IF line.kind = "data" THEN TOPICS_NUMBER
  ELSE IF line.from \in Short THEN 2 ELSE 3

-----------------------------------------------------------------------------
VARIABLES
  broker,            \* "up" | "stopped" (SIGINT) | "crashed"
  closed,            \* entries of client_fd_list that sig_handler has closed
  mutex,             \* value of sem_mutex
  control,           \* value of sem_control, BAD once its pointer is overwritten
  fd_idx,
  client_fd_list,
  client_name_list,
  client_sus_list,
  topic_list,        \* the topics whose entry in the row is not -1
  olds,              \* the static pointer inside strtok()
  nuls               \* tokens strtok has cut off by a '\0' where they end

VARIABLES            \* the locals of each thread
  pc,
  rio,               \* unread lines in the rio_t of thread()
  row,               \* i of forward_messages()
  want,              \* subscribed_info, then topics_number
  fd_pub, fd_sus,
  buf,               \* the line being split
  argv,              \* the tokens split() has stored
  cur                \* strtok: the copy of olds this call works on

VARIABLES            \* the kernel's side of each connection
  rx,                \* lines the client has sent and nobody has read
  peer,              \* the client's end: "none" | "open" | "closed" | "reset"
  tx                 \* lines written to the client, oldest first

shared == <<mutex, control, fd_idx, client_fd_list, client_name_list,
            client_sus_list, topic_list, olds, nuls>>
locals == <<rio, row, want, fd_pub, fd_sus, buf, argv, cur>>
net == <<rx, peer, tx>>
brokerVars == <<broker, closed, shared, pc, locals, net>>

BAD == -1

BrokerInit ==
  /\ broker = "up" /\ closed = 0
  /\ mutex = 1 /\ control = 0 /\ fd_idx = 0
  /\ client_fd_list = [i \in Slots |-> STDIN]
  /\ client_name_list = [i \in Slots |-> NULL]
  /\ client_sus_list = [i \in Slots |-> NULL]
  /\ topic_list = [i \in Slots |-> Topics]
  /\ olds = NULL /\ nuls = {}
  /\ pc = [t \in Clients |-> "none"]
  /\ rio = [t \in Clients |-> <<>>]
  /\ row = [t \in Clients |-> 0]
  /\ want = [t \in Clients |-> {}]
  /\ fd_pub = [t \in Clients |-> STDIN]
  /\ fd_sus = [t \in Clients |-> STDIN]
  /\ buf = [t \in Clients |-> NULL]
  /\ argv = [t \in Clients |-> <<>>]
  /\ cur = [t \in Clients |-> NULL]
  /\ rx = [c \in Clients |-> <<>>]
  /\ peer = [c \in Clients |-> "none"]
  /\ tx = [c \in Clients |-> <<>>]

\* Thread t of a live broker moves from one place to another.
Goes(t, from, to) ==
  /\ broker = "up"
  /\ pc[t] = from
  /\ pc' = [pc EXCEPT ![t] = to]
  /\ UNCHANGED <<broker, closed>>

\* The process ends: a fault, SIGPIPE, or exit() in unix_error.  In the middle
\* of sig_handler that only ends it sooner.
Dies(t, at) ==
  /\ broker = "up"
  /\ pc[t] = at
  /\ broker' = IF closed > 0 THEN "stopped" ELSE "crashed"
  /\ UNCHANGED <<closed, shared, pc, locals, net>>

-----------------------------------------------------------------------------
(* Rio_readlineb on a fresh rio_t: read() takes all the lines that have    *)
(* arrived, the caller gets the first one.                                 *)

\* Mutant of RioLine: the newest line is returned.
RioNewest(lines) == lines[Len(lines)]

RioLine(lines) == Head(lines)

\* Mutant of RioLeft: the line that was read is still in the socket.
RioPeeks(lines) == lines

\* What read() leaves in the socket.
RioLeft(lines) == <<>>

-----------------------------------------------------------------------------
(* main(): accept() and pthread_create(), lines 111-118, and sig_handler.  *)

\* pthread_create stores thread_id, the memory behind client_name_list.  The
\* kernel runs sig_handler on this thread: nothing is accepted meanwhile.
Accept(t) ==
  /\ peer[t] # "none" /\ closed = 0
  /\ Goes(t, "none", "start")
  /\ client_name_list' = [client_name_list EXCEPT ![LIMIT_CONN_CLIENTS] = THREAD_ID]
  /\ UNCHANGED <<mutex, control, fd_idx, client_fd_list, client_sus_list, topic_list,
                 olds, nuls, locals, net>>

\* Lines 49-52, one descriptor at a time while the other threads run on.
SigClose ==
  /\ MayStop /\ broker = "up"
  /\ closed < fd_idx
  /\ closed' = closed + 1
  /\ UNCHANGED <<broker, shared, pc, locals, net>>

\* Lines 53-54: exit() follows the last store at once.
SigExit ==
  /\ MayStop /\ broker = "up"
  /\ closed = fd_idx
  /\ broker' = "stopped"
  /\ client_fd_list' = [i \in Slots |-> IF i < closed THEN STDIN ELSE client_fd_list[i]]
  /\ fd_idx' = 0
  /\ UNCHANGED <<closed, mutex, control, client_name_list, client_sus_list, topic_list,
                 olds, nuls, pc, locals, net>>

\* client_fd_list[i] as a thread reads it: sig_handler clears what it closes.
FdAt(i) == IF i < closed THEN STDIN ELSE client_fd_list[i]

\* A thread that still holds the descriptor of c finds it closed.  A read()
\* that is under way keeps the connection open until it returns.
IsShut(c) == \E i \in 0 .. closed - 1 : client_fd_list[i] = c

-----------------------------------------------------------------------------
(* thread(): the registration, between sem_wait(sem_mutex) and             *)
(* sem_post(sem_mutex), lines 189-249.                                     *)

\* Mutant of MutexFree: sem_mutex starts too high.
MutexIgnored == TRUE

MutexFree == mutex > 0

\* Lines 189-191.  The store of slot LIMIT_CONN_CLIENTS hits sem_control.
Lock(t) ==
  /\ Goes(t, "start", "name")
  /\ MutexFree
  /\ mutex' = mutex - 1
  /\ client_fd_list' = [client_fd_list EXCEPT ![fd_idx] = t]
  /\ control' = IF fd_idx = LIMIT_CONN_CLIENTS THEN BAD ELSE control
  /\ UNCHANGED <<fd_idx, client_name_list, client_sus_list, topic_list, olds,
                 nuls, locals, net>>

\* Line 202: read() takes every line that has arrived, one is used.
ReadName(t) ==
  /\ Goes(t, "name", "sus")
  /\ rx[t] # <<>>
  /\ rio' = [rio EXCEPT ![t] = Tail(rx[t])]
  /\ rx' = [rx EXCEPT ![t] = RioLeft(@)]
  /\ UNCHANGED <<shared, row, want, fd_pub, fd_sus, buf, argv, cur, peer, tx>>

\* Lines 203-212.  What rio still buffers behind the second line is never
\* looked at again.
ReadSus(t) ==
  /\ Goes(t, "sus", "reg")
  /\ rio[t] # <<>> \/ rx[t] # <<>>
  /\ IF rio[t] # <<>>
       THEN buf' = [buf EXCEPT ![t] = Head(rio[t])] /\ UNCHANGED rx
       ELSE /\ buf' = [buf EXCEPT ![t] = RioLine(rx[t])]
            /\ rx' = [rx EXCEPT ![t] = RioLeft(@)]
  /\ rio' = [rio EXCEPT ![t] = <<>>]
  /\ client_name_list' = [client_name_list EXCEPT ![fd_idx] = Name[t]]
  /\ UNCHANGED <<mutex, control, fd_idx, client_fd_list, client_sus_list,
                 topic_list, olds, nuls, row, want, fd_pub, fd_sus, argv, cur, peer, tx>>

\* The client is gone before both lines have come: the uninitialised buffers
\* hold no token and update_sus_info follows a null pointer.
HandshakeEOF(t) ==
  /\ peer[t] \in {"closed", "reset"}
  /\ rx[t] = <<>> /\ rio[t] = <<>>
  /\ Dies(t, "name") \/ Dies(t, "sus")

\* Lines 216-220.
StoreNone(t) ==
  /\ Goes(t, "reg", "finish")
  /\ Sus[t] = NONE
  /\ client_sus_list' = [client_sus_list EXCEPT ![fd_idx] = NONE]
  /\ buf' = [buf EXCEPT ![t] = NULL]
  /\ UNCHANGED <<mutex, control, fd_idx, client_fd_list, client_name_list,
                 topic_list, olds, nuls, rio, row, want, fd_pub, fd_sus, argv, cur, net>>

-----------------------------------------------------------------------------
(* split(): strtok() keeps its place in one static pointer shared by all   *)
(* threads.  The first call only stores it, a later call loads it and      *)
(* stores it some instructions later.                                      *)

\* The first call, strtok(linea, delim).  Like every call it overwrites the
\* delimiter behind its token with '\0'.  Of the lines that were split before,
\* nuls keeps those a call is still at work on.
StrtokFirst(t) ==
  /\ olds' = [line |-> buf[t], k |-> 1]
  /\ nuls' = {x \in nuls : \E u \in Clients : cur[u] # NULL /\ cur[u].line = x.line}
               \cup {[line |-> buf[t], k |-> 1]}
  /\ argv' = [argv EXCEPT ![t] = <<[line |-> buf[t], field |-> 1]>>]
  /\ UNCHANGED <<mutex, control, fd_idx, client_fd_list, client_name_list,
                 client_sus_list, topic_list,
                 rio, row, want, fd_pub, fd_sus, buf, cur, net>>

\* A subscription is split at "/" (line 224), a message at "," (line 152).
SplitSus(t) == Sus[t] # NONE /\ Goes(t, "reg", "regLoad") /\ StrtokFirst(t)
SplitMsg(t) == Goes(t, "split", "fwdLoad") /\ StrtokFirst(t)

StrtokLoad(t) ==
  /\ Goes(t, "regLoad", "regStore") \/ Goes(t, "fwdLoad", "fwdStore")
  /\ cur' = [cur EXCEPT ![t] = olds]
  /\ UNCHANGED <<shared, rio, row, want, fd_pub, fd_sus, buf, argv, net>>

AtEnd(t) == cur[t].k >= TokensIn(cur[t].line)

\* The rest of the line is split at the delimiter of this call.
SameKind(t) == cur[t].line.kind = buf[t].kind

\* Another thread that started from the same place has put a '\0' there.
EndsAtNul(t) == [line |-> cur[t].line, k |-> cur[t].k + 1] \in nuls

\* The token a call returns: the next one, or with the delimiter of another
\* kind of line the whole rest, if no '\0' comes first.
NextField(t) == IF SameKind(t) \/ EndsAtNul(t) THEN cur[t].k + 1 ELSE 0

\* A call that stops at a '\0' saves a pointer to it: the next finds no token.
NextK(t) == IF SameKind(t) /\ ~EndsAtNul(t) THEN cur[t].k + 1
            ELSE TokensIn(cur[t].line)

\* Only the entries of argv that are read later are kept; the shipped build
\* has room behind them.
ArgvRead(t) == IF buf[t].kind = "data" THEN TOPICS_NUMBER ELSE 3

StrtokStore(t) ==
  /\ Goes(t, "regStore", "regLoad") \/ Goes(t, "fwdStore", "fwdLoad")
  /\ ~AtEnd(t)
  /\ olds' = [line |-> cur[t].line, k |-> NextK(t)]
  /\ nuls' = IF SameKind(t) THEN nuls \cup {[line |-> cur[t].line, k |-> cur[t].k + 1]}
             ELSE nuls
  /\ argv' = [argv EXCEPT ![t] =
       IF Len(@) < ArgvRead(t)
         THEN Append(@, [line |-> cur[t].line, field |-> NextField(t)])
         ELSE @]
  /\ cur' = [cur EXCEPT ![t] = NULL]
  /\ UNCHANGED <<mutex, control, fd_idx, client_fd_list, client_name_list,
                 client_sus_list, topic_list,
                 rio, row, want, fd_pub, fd_sus, buf, net>>

\* The call that returns NULL ends split().
StrtokEnd(t) ==
  /\ AtEnd(t)
  /\ olds' = cur[t]
  /\ cur' = [cur EXCEPT ![t] = NULL]
  /\ UNCHANGED <<mutex, control, fd_idx, client_fd_list, client_name_list,
                 topic_list, nuls, rio, row, want, fd_pub, fd_sus, buf, argv, net>>

-----------------------------------------------------------------------------
(* thread(): the subscription.                                             *)

\* Line 227: from here on forward_messages() of other threads sees the row.
StoreSus(t) ==
  /\ Goes(t, "regStore", "update")
  /\ StrtokEnd(t)
  /\ client_sus_list' = [client_sus_list EXCEPT ![fd_idx] = Sus[t]]

OwnTokens(t) == [k \in 1 .. TokensIn(buf[t]) |-> [line |-> buf[t], field |-> k]]

\* update_sus_info compares levels that came from another thread's line: one
\* of its catch-all branches keeps a single topic, or all of them.
WrongRows == {{k} : k \in Topics} \cup {Topics}

\* Mutant of AfterUpdate: the loop that copies the row is missing.
AfterUpdateNoCopy(S) == "finish"

\* Entries inside the list that stay different from -1 need no copy.
AfterUpdate(S) ==
  IF S = Topics /\ fd_idx < LIMIT_CONN_CLIENTS THEN "finish" ELSE "copy"

\* Line 233.  "<node>/#" keeps every topic without looking for a third level.
UpdateSus(t) ==
  /\ pc[t] = "update"
  /\ \E S \in IF argv[t] = OwnTokens(t) THEN {Wanted[t]} ELSE WrongRows :
       /\ Goes(t, "update", AfterUpdate(S))
       /\ want' = [want EXCEPT ![t] = S]
  /\ \/ Len(argv[t]) >= 3
     \/ argv[t] = OwnTokens(t) /\ Wanted[t] = Topics
  /\ buf' = [buf EXCEPT ![t] = NULL]
  /\ argv' = [argv EXCEPT ![t] = <<>>]
  /\ UNCHANGED <<shared, rio, row, fd_pub, fd_sus, cur, net>>

\* update_sus_info dereferences a level that split() did not store.
UpdateSusFault(t) ==
  /\ Dies(t, "update")
  /\ Len(argv[t]) < 3
  /\ ~(argv[t] = OwnTokens(t) /\ Wanted[t] = Topics)

\* Lines 236-238, one entry at a time.  A reader that copies the row meanwhile
\* can see any mixture of old and new entries, hence any order.
CopyTopic(t) ==
  /\ pc[t] = "copy" /\ fd_idx < LIMIT_CONN_CLIENTS
  /\ \E k \in topic_list[fd_idx] \ want[t] :
       /\ topic_list' = [topic_list EXCEPT ![fd_idx] = @ \ {k}]
       /\ Goes(t, "copy", IF topic_list[fd_idx] \ {k} \subseteq want[t]
                            THEN "finish" ELSE "copy")
  /\ UNCHANGED <<mutex, control, fd_idx, client_fd_list, client_name_list,
                 client_sus_list, olds, nuls, locals, net>>

\* Lines 236-238 behind the end of topic_list: an entry is half of a pointer in
\* client_name_list, which two entries of 0 turn into NULL.
OverrunStore(t) ==
  /\ Goes(t, "copy", "copy")
  /\ fd_idx = LIMIT_CONN_CLIENTS
  /\ \E k \in Topics :
       /\ (k - 1) \div 2 \in Overlapped
       /\ \E torn \in {TORN, NULL} :
            client_name_list' = [client_name_list EXCEPT ![(k - 1) \div 2] = torn]
       /\ topic_list' = [topic_list EXCEPT ![fd_idx] = @ \ ({k} \ want[t])]
  /\ UNCHANGED <<mutex, control, fd_idx, client_fd_list, client_sus_list, olds, nuls,
                 locals, net>>

OverrunDone(t) ==
  /\ Goes(t, "copy", "finish")
  /\ fd_idx = LIMIT_CONN_CLIENTS
  /\ topic_list[fd_idx] \subseteq want[t]
  /\ \A i \in Overlapped : client_name_list[i] \in {TORN, NULL}
  /\ UNCHANGED <<shared, locals, net>>

\* Mutants of EnoughClients: the threshold is off by one.
OneIsEnough(n) == n >= 1
ThreeNeeded(n) == n >= 3

\* Line 244.
EnoughClients(n) == n >= 2

\* Mutant of Finish: the wrong semaphore is posted.
FinishPostsMutex(t) ==
  /\ Goes(t, "finish", "unlock")
  /\ fd_idx' = fd_idx + 1
  /\ mutex' = IF EnoughClients(fd_idx + 1) THEN mutex + 1 ELSE mutex
  /\ want' = [want EXCEPT ![t] = {}]
  /\ UNCHANGED <<control, client_fd_list, client_name_list, client_sus_list,
                 topic_list, olds, nuls, rio, row, fd_pub, fd_sus, buf, argv, cur, net>>

\* Lines 242-247.
Finish(t) ==
  /\ Goes(t, "finish", "unlock")
  /\ control # BAD
  /\ fd_idx' = fd_idx + 1
  /\ control' = IF EnoughClients(fd_idx + 1) THEN control + 1 ELSE control
  /\ want' = [want EXCEPT ![t] = {}]
  /\ UNCHANGED <<mutex, client_fd_list, client_name_list, client_sus_list,
                 topic_list, olds, nuls, rio, row, fd_pub, fd_sus, buf, argv, cur, net>>

\* Mutant of Unlock: sem_mutex is not posted.
UnlockForgets(t) ==
  /\ Goes(t, "unlock", "wait")
  /\ UNCHANGED <<shared, locals, net>>

\* Line 249.
Unlock(t) ==
  /\ Goes(t, "unlock", "wait")
  /\ mutex' = mutex + 1
  /\ UNCHANGED <<control, fd_idx, client_fd_list, client_name_list,
                 client_sus_list, topic_list, olds, nuls, locals, net>>

\* sem_post or sem_wait through the overwritten pointer.
ControlFault(t) ==
  /\ control = BAD
  /\ Dies(t, "finish") \/ Dies(t, "wait")

-----------------------------------------------------------------------------
(* forward_messages(), lines 298-328.                                      *)

\* Mutant of WaitControl: sem_control is only looked at.
WaitControlKeeps(t) ==
  /\ Goes(t, "wait", "scan")
  /\ control > 0
  /\ UNCHANGED <<shared, locals, net>>

\* Line 305.
WaitControl(t) ==
  /\ Goes(t, "wait", "scan")
  /\ control > 0
  /\ control' = control - 1
  /\ UNCHANGED <<mutex, fd_idx, client_fd_list, client_name_list,
                 client_sus_list, topic_list, olds, nuls, locals, net>>

\* client_sus_list[i]; the memory behind the list is zero.
SusAt(i) == IF i \in Slots THEN client_sus_list[i] ELSE NULL

\* Lines 307-308: the end of the list, and a row without a subscription.
ScanPast(t) ==
  /\ Goes(t, "scan", "scan")
  /\ SusAt(row[t]) \in {NULL, NONE}
  /\ row' = [row EXCEPT ![t] = IF SusAt(@) = NULL THEN 0 ELSE @ + 1]
  /\ UNCHANGED <<shared, rio, want, fd_pub, fd_sus, buf, argv, cur, net>>

\* Lines 309-314.  publisher and suscriber are entries that are written once.
ScanRow(t) ==
  /\ Goes(t, "scan", "lookup")
  /\ SusAt(row[t]) \notin {NULL, NONE}
  /\ want' = [want EXCEPT ![t] = topic_list[row[t]]]
  /\ UNCHANGED <<shared, rio, row, fd_pub, fd_sus, buf, argv, cur, net>>

\* find_index_by_client_name, lines 273-280.  strcmp with a torn pointer faults
\* or compares with whatever it points to.  The entries the loop gets to:
Reached(name, i) == \A k \in 0 .. i - 1 : client_name_list[k] \notin {name, NULL} \ {TORN}

\* The index is i, or -1 at a NULL.
FoundAt(name, i) ==
  /\ Reached(name, i) /\ client_name_list[i] # NULL
  /\ client_name_list[i] = name \/ TORN \in {name, client_name_list[i]}
Missed(name) ==
  \E i \in Slots :
    Reached(name, i) /\ client_name_list[i] = NULL /\ (name = NULL => i = 0)

\* client_fd_list[find_index_by_client_name(name)].  Index -1 is a padding
\* word that holds 0, the broker's standard input.
FdsOf(name) ==
  {FdAt(i) : i \in {i \in Slots : FoundAt(name, i)}}
    \cup (IF Missed(name) THEN {STDIN} ELSE {})

\* No hit and no NULL: the loop runs off the list into fd_log.
RunsOff(name) == Reached(name, LIMIT_CONN_CLIENTS + 1)

\* A comparison reads through a pointer that is torn or NULL.
BadPointer(name) ==
  \/ name \in {TORN, NULL} /\ client_name_list[0] # NULL
  \/ \E i \in Slots : Reached(name, i) /\ client_name_list[i] = TORN

\* Lines 309-310, before or after the name of the row is torn.
Publisher(t) == client_sus_list[row[t]]
Suscribers(t) == {client_name_list[row[t]], Name[client_fd_list[row[t]]]}

\* Lines 316-317.
Lookup(t) ==
  /\ Goes(t, "lookup", "read")
  /\ \E pub \in FdsOf(Publisher(t)) : fd_pub' = [fd_pub EXCEPT ![t] = pub]
  /\ \E suscriber \in Suscribers(t) : \E sus \in FdsOf(suscriber) :
       fd_sus' = [fd_sus EXCEPT ![t] = sus]
  /\ UNCHANGED <<shared, rio, row, want, buf, argv, cur, net>>

LookupFault(t) ==
  /\ Dies(t, "lookup")
  /\ \E name \in {Publisher(t)} \cup Suscribers(t) : RunsOff(name) \/ BadPointer(name)

-----------------------------------------------------------------------------
(* forward_message(), lines 127-177.                                       *)

\* Lines 139-143: a fresh rio_t, so every line read() returns behind the first
\* one is lost.
Read(t) ==
  /\ Goes(t, "read", "split")
  /\ fd_pub[t] \in Clients
  /\ rx[fd_pub[t]] # <<>>
  /\ buf' = [buf EXCEPT ![t] = RioLine(rx[fd_pub[t]])]
  /\ rx' = [rx EXCEPT ![fd_pub[t]] = RioLeft(@)]
  /\ UNCHANGED <<shared, rio, row, want, fd_pub, fd_sus, argv, cur, peer, tx>>

NextRow(t) ==
  /\ row' = [row EXCEPT ![t] = @ + 1]
  /\ want' = [want EXCEPT ![t] = {}]
  /\ fd_pub' = [fd_pub EXCEPT ![t] = STDIN]
  /\ fd_sus' = [fd_sus EXCEPT ![t] = STDIN]
  /\ buf' = [buf EXCEPT ![t] = NULL]
  /\ argv' = [argv EXCEPT ![t] = <<>>]
  /\ UNCHANGED <<shared, rio, cur, net>>

\* End of file, lines 171-175.
ReadNothing(t) ==
  /\ \/ fd_pub[t] = STDIN /\ StdinEOF
     \/ fd_pub[t] \in Clients /\ rx[fd_pub[t]] = <<>> /\ peer[fd_pub[t]] = "closed"
  /\ Goes(t, "read", "scan")
  /\ NextRow(t)

\* Mutant of ReadFails: end of file is taken for an error.
ReadFailsAtEOF(end) == end \in {"closed", "reset"}

ReadFails(end) == end = "reset"

\* ECONNRESET, or EBADF for a descriptor sig_handler has closed, makes
\* Rio_readlineb call unix_error, which exits.
ReadError(t) ==
  /\ fd_pub[t] \in Clients
  /\ \/ rx[fd_pub[t]] = <<>> /\ ReadFails(peer[fd_pub[t]])
     \/ IsShut(fd_pub[t])
  /\ Dies(t, "read")

SplitEnd(t) ==
  /\ Goes(t, "fwdStore", "write")
  /\ StrtokEnd(t)
  /\ UNCHANGED client_sus_list

\* Mutant of IsNext: the loop starts at index 1.
IsNextFromOne(t, k) ==
  k \in want[t] \ {1} /\ \A m \in want[t] \ {1} : k <= m

\* The topic the loop of lines 154-169 sends next.
IsNext(t, k) == k \in want[t] /\ \A m \in want[t] : k <= m

\* Mutant of FieldSent: off by one.
FieldAfter(t, k) ==
  IF k < Len(argv[t]) THEN argv[t][k + 1] ELSE [line |-> buf[t], field |-> 0]

\* pub_available_info[j]; an entry split() did not store is a pointer left by
\* an earlier call, into the same buffer.
FieldSent(t, k) ==
  IF k <= Len(argv[t]) THEN argv[t][k] ELSE [line |-> buf[t], field |-> 0]

\* Lines 156-168.  The first write to a connection the client has closed is
\* answered by a reset.
WriteTopic(t) ==
  /\ Goes(t, "write", "write")
  /\ fd_sus[t] \in Clients => peer[fd_sus[t]] # "reset" /\ ~IsShut(fd_sus[t])
  /\ \E k \in Topics :
       /\ IsNext(t, k)
       /\ want' = [want EXCEPT ![t] = @ \ {k}]
       /\ tx' = [c \in Clients |->
                   IF c = fd_sus[t] /\ peer[c] = "open"
                     THEN Append(tx[c], [topic |-> k, token |-> FieldSent(t, k)])
                     ELSE tx[c]]
  /\ peer' = [c \in Clients |-> IF c = fd_sus[t] /\ peer[c] = "closed"
                                  THEN "reset" ELSE peer[c]]
  /\ UNCHANGED <<shared, rio, row, fd_pub, fd_sus, buf, argv, cur, rx>>

\* SIGPIPE on a reset connection, EBADF on one that sig_handler has closed, or
\* a wild pointer in pub_available_info.
WriteFault(t) ==
  /\ want[t] # {}
  /\ \/ fd_sus[t] \in Clients /\ (peer[fd_sus[t]] = "reset" \/ IsShut(fd_sus[t]))
     \/ \E k \in want[t] : IsNext(t, k) /\ k > Len(argv[t])
  /\ Dies(t, "write")

\* The loop of line 142 runs SHARINGTIME = 1 times; on to the next row.
WriteDone(t) ==
  /\ want[t] = {}
  /\ Goes(t, "write", "scan")
  /\ NextRow(t)

-----------------------------------------------------------------------------
Register(t) ==
  \/ Lock(t) \/ ReadName(t) \/ ReadSus(t) \/ HandshakeEOF(t) \/ StoreNone(t)
  \/ SplitSus(t) \/ StoreSus(t) \/ UpdateSus(t) \/ UpdateSusFault(t)
  \/ CopyTopic(t) \/ OverrunStore(t) \/ OverrunDone(t)
  \/ Finish(t) \/ Unlock(t) \/ ControlFault(t)

Forward(t) ==
  \/ WaitControl(t) \/ ScanPast(t) \/ ScanRow(t) \/ Lookup(t) \/ LookupFault(t)
  \/ Read(t) \/ ReadNothing(t) \/ ReadError(t) \/ SplitMsg(t) \/ SplitEnd(t)
  \/ WriteTopic(t) \/ WriteFault(t) \/ WriteDone(t)

Strtok(t) == StrtokLoad(t) \/ StrtokStore(t)

Thread(t) == Register(t) \/ Strtok(t) \/ Forward(t)

BrokerNext == SigClose \/ SigExit \/ \E t \in Clients : Accept(t) \/ Thread(t)

=============================================================================
