--------------------------- MODULE StartupProofs ---------------------------
(***************************************************************************)
(* A start leaves one socket and begins with fresh semaphores, for any     *)
(* number of broker processes, however they are interleaved and wherever   *)
(* they die.                                                               *)
(***************************************************************************)
EXTENDS Startup, TLAPS

-----------------------------------------------------------------------------
(* The places of main().                                                   *)

Opening == {"address", "socket", "setsockopt", "bind", "close", "listen"}
Places == {"none", "ended"} \cup SettingUp \cup Opening \cup Serving

\* Before, around and behind the sem_open of each semaphore.
BeforeOpen(n) ==
  IF n = "control" THEN {"none", "unlinkControl", "unlinkMutex", "openControl"}
                   ELSE {"none"} \cup SettingUp
Window(n) ==
  IF n = "control" THEN {"unlinkMutex", "openControl"} ELSE {"openControl", "openMutex"}
AfterOpen(n) ==
  Opening \cup Serving \cup IF n = "control" THEN {"openMutex"} ELSE {}

\* A broker that has not yet accepted anybody.
Quiet == Opening \cup {"openMutex", "ready"}

TypeInv ==
  /\ pc \in [Brokers -> Places]
  /\ name \in [Sems -> Creators \cup {NULL}]
  /\ value \in [Sems -> [Creators -> Int]]
  /\ sem \in [Brokers -> [Sems -> Creators \cup {NULL}]]
  /\ sock \in [Brokers -> {"none", "open", "bound", "listening"}]
  /\ fds \in [Brokers -> Int]
  /\ overlapped \in [Brokers -> BOOLEAN]

-----------------------------------------------------------------------------
(* The socket.                                                             *)

\* What listenfd is at each place.
SocketInv ==
  \A b \in Brokers :
    /\ pc[b] \in {"none", "ended", "address", "socket"} \cup SettingUp =>
         fds[b] = 0
    /\ pc[b] \in {"setsockopt", "bind", "close", "listen"} \cup Serving => fds[b] = 1
    /\ pc[b] \in Serving => sock[b] = "listening"

\* Types and sockets hold initially.
LEMMA InitTypes == Init => TypeInv /\ SocketInv
<1> SUFFICES ASSUME Init PROVE TypeInv /\ SocketInv
  OBVIOUS
<1>1. TypeInv
  <2>1. value \in [Sems -> [Creators -> Int]]
    <3>1. value \in [Sems -> [Creators -> 0 .. 1]]
      BY DEF Init
    <3>2. \A n \in Sems : value[n] \in [Creators -> Int]
      BY <3>1
    <3> QED BY <3>1, <3>2
  <2>2. name \in [Sems -> Creators \cup {NULL}]
    BY DEF Init, Creators
  <2>3. sem \in [Brokers -> [Sems -> Creators \cup {NULL}]]
    BY DEF Init
  <2>4. overlapped \in [Brokers -> BOOLEAN]
    BY Zenon DEF Init
  <2> QED BY <2>1, <2>2, <2>3, <2>4 DEF Init, TypeInv, Places
<1>2. SocketInv
  BY DEF Init, SocketInv, SettingUp, Serving
<1> QED BY <1>1, <1>2

\* Every step keeps the types.
LEMMA StepTypes == TypeInv /\ [Next]_vars => TypeInv'
<1> SUFFICES ASSUME TypeInv, [Next]_vars PROVE TypeInv'
  OBVIOUS
<1> USE DEF TypeInv, Places, Opening, SettingUp, Serving, Goes
<1>1. CASE UNCHANGED vars
  BY <1>1 DEF vars
<1>2. CASE TimeWaitOver
  BY <1>2 DEF TimeWaitOver, names, history
<1>3. ASSUME NEW b \in Brokers, Start(b) PROVE TypeInv'
  <2>1. overlapped' \in [Brokers -> BOOLEAN]
    BY <1>3, Zenon DEF Start
  <2> QED BY <1>3, <2>1 DEF Start, names, sockets
<1>4. ASSUME NEW b \in Brokers, Ends(b) PROVE TypeInv'
  <2>1. sem' \in [Brokers -> [Sems -> Creators \cup {NULL}]]
    BY <1>4 DEF Ends
  <2> QED BY <1>4, <2>1 DEF Ends
<1>5. ASSUME NEW b \in Brokers, SetUp(b) PROVE TypeInv'
  <2>1. ASSUME NEW n \in Sems, NEW at, NEW next \in Places, Unlink(b, n, at, next)
        PROVE  TypeInv'
    BY <2>1 DEF Unlink, Unlinked, sockets, history
  <2>2. ASSUME NEW n \in Sems, NEW at, NEW next \in Places, SemOpen(b, n, at, next)
        PROVE  TypeInv'
    <3>1. InitialValue[n] \in Int
      BY DEF InitialValue, Sems
    <3>2. /\ name' \in [Sems -> Creators \cup {NULL}]
          /\ value' \in [Sems -> [Creators -> Int]]
          /\ sem' \in [Brokers -> [Sems -> Creators \cup {NULL}]]
      <4>1. CASE name[n] = NULL
        <5>1. name' = [name EXCEPT ![n] = b] /\ b \in Creators
          BY <2>2, <4>1 DEF SemOpen, Creators
        <5>2. value' = [value EXCEPT ![n] = [value[n] EXCEPT ![b] = InitialValue[n]]]
          BY <2>2, <4>1 DEF SemOpen
        <5>3. [value[n] EXCEPT ![b] = InitialValue[n]] \in [Creators -> Int]
          BY <3>1
        <5>4. sem' = [sem EXCEPT ![b] = [sem[b] EXCEPT ![n] = b]]
          BY <2>2, <4>1 DEF SemOpen
        <5>5. value' \in [Sems -> [Creators -> Int]]
          BY <5>2, <5>3
        <5>6. sem' \in [Brokers -> [Sems -> Creators \cup {NULL}]]
          BY <5>1, <5>4
        <5> QED BY <5>1, <5>5, <5>6
      <4>2. CASE name[n] # NULL
        <5>1. sem' = [sem EXCEPT ![b] = [sem[b] EXCEPT ![n] = name[n]]]
          BY <2>2, <4>2 DEF SemOpen
        <5>2. name' = name /\ value' = value
          BY <2>2, <4>2 DEF SemOpen
        <5> QED BY <5>1, <5>2
      <4> QED BY <4>1, <4>2
    <3> QED BY <2>2, <3>2 DEF SemOpen, sockets, history
  <2> QED BY <1>4, <1>5, <2>1, <2>2 DEF SetUp, CallFails, Sems
<1>6. ASSUME NEW b \in Brokers, open_listenfd(b) PROVE TypeInv'
  <2>1. CASE Getaddrinfo(b)
    BY <2>1 DEF Getaddrinfo, names, history
  <2>2. CASE Socket(b)
    BY <2>2 DEF Socket, names, history
  <2>5. CASE SocketFails(b)
    BY <2>5 DEF SocketFails, names
  <2>3. CASE Setsockopt(b) \/ Bind(b) \/ BindFails(b)
    BY <2>3 DEF Setsockopt, Bind, BindFails, names, history, sockets
  <2>4. CASE CloseSocket(b)
    BY <2>4 DEF CloseSocket, Closed, names, history
  <2>6. CASE Listen(b)
    BY <2>6 DEF Listen, names, history
  <2> QED BY <1>4, <1>6, <2>1, <2>2, <2>3, <2>4, <2>5, <2>6
          DEF open_listenfd, NoAddress, ListenFails
<1>7. ASSUME NEW b \in Brokers, Serve(b) PROVE TypeInv'
  <2>1. CASE Accept(b)
    BY <2>1 DEF Accept, names, history, sockets
  <2>2. CASE Lock(b) \/ Register(b) \/ WaitControl(b)
    <3>1. value' \in [Sems -> [Creators -> Int]]
      BY <2>2 DEF Lock, Register, WaitControl, Sems
    <3> QED BY <2>2, <3>1 DEF Lock, Register, WaitControl, sockets, history
  <2> QED BY <1>7, <2>1, <2>2 DEF Serve
<1> QED
  BY <1>1, <1>2, <1>3, <1>4, <1>5, <1>6, <1>7 DEF Next, Killed

\* Every step keeps what is known of the socket.
LEMMA StepSocket == TypeInv /\ SocketInv /\ [Next]_vars => SocketInv'
<1> SUFFICES ASSUME TypeInv, SocketInv, [Next]_vars, NEW c \in Brokers
             PROVE  SocketInv!(c)'
  BY DEF SocketInv
<1> USE DEF TypeInv, Places, Opening, SettingUp, Serving, SocketInv, Goes
<1>1. CASE UNCHANGED vars
  BY <1>1 DEF vars
<1>2. CASE TimeWaitOver
  BY <1>2 DEF TimeWaitOver
<1>3. ASSUME NEW b \in Brokers, Start(b) PROVE SocketInv!(c)'
  BY <1>3 DEF Start, sockets
<1>4. ASSUME NEW b \in Brokers, Ends(b) PROVE SocketInv!(c)'
  BY <1>4 DEF Ends
<1>5. ASSUME NEW b \in Brokers, SetUp(b) PROVE SocketInv!(c)'
  BY <1>4, <1>5 DEF SetUp, Unlink, SemOpen, CallFails, sockets
<1>6. ASSUME NEW b \in Brokers, open_listenfd(b) PROVE SocketInv!(c)'
  <2>1. CASE Getaddrinfo(b) \/ Socket(b) \/ SocketFails(b)
    BY <2>1 DEF Getaddrinfo, Socket, SocketFails
  <2>2. CASE Setsockopt(b) \/ Bind(b) \/ BindFails(b)
    BY <2>2 DEF Setsockopt, Bind, BindFails, sockets
  <2>3. CASE CloseSocket(b) \/ Listen(b)
    BY <2>3 DEF CloseSocket, Closed, Listen
  <2> QED BY <1>4, <1>6, <2>1, <2>2, <2>3 DEF open_listenfd, NoAddress, ListenFails
<1>7. ASSUME NEW b \in Brokers, Serve(b) PROVE SocketInv!(c)'
  BY <1>7 DEF Serve, Accept, Lock, Register, WaitControl, sockets
<1> QED
  BY <1>1, <1>2, <1>3, <1>4, <1>5, <1>6, <1>7 DEF Next, Killed

\* A broker that has come through open_listenfd has one socket, the listening
\* one, whatever was tried before and whoever else was starting or dying.
THEOREM OneSocketHolds == Spec => []OneSocket
<1>1. TypeInv /\ SocketInv => OneSocket
  BY DEF SocketInv, OneSocket, Listens, Serving
<1> QED BY <1>1, InitTypes, StepTypes, StepSocket, PTL DEF Spec

-----------------------------------------------------------------------------
(* The semaphores.                                                         *)

\* Nobody has a semaphore of b before b has created it.
NotYet(b, n) ==
  pc[b] \in BeforeOpen(n) => name[n] # b /\ \A d \in Brokers : sem[d][n] # b

\* A start that does not overlap is the only one that sets up semaphores.
Apart(b) ==
  pc[b] \in SettingUp => \A d \in Brokers \ {b} : pc[d] \notin SettingUp

\* The name that b has unlinked is still free when b opens it ...
NameFree(b, n) == pc[b] \in Window(n) => name[n] = NULL

\* ... so that b opens a semaphore of its own ...
Own(b, n) == pc[b] \in AfterOpen(n) => sem[b][n] = b

\* ... which no other process has, nor will open: whoever starts later
\* unlinks the name first.
Mine(b, n) ==
  sem[b][n] = b =>
    \A d \in Brokers \ {b} :
      sem[d][n] # b /\ (name[n] = b => pc[d] \notin Window(n))

\* Nobody has used it until b accepts a client.
Untouched(b, n) ==
  sem[b][n] = b /\ pc[b] \in Quiet => value[n][b] = InitialValue[n]

Undisturbed(b, n) ==
  Apart(b) /\ NameFree(b, n) /\ Own(b, n) /\ Mine(b, n) /\ Untouched(b, n)

SemInv ==
  \A b \in Brokers, n \in Sems :
    NotYet(b, n) /\ (~overlapped[b] => Undisturbed(b, n))

Kept(c, m) == NotYet(c, m) /\ (~overlapped[c] => Undisturbed(c, m))

\* No semaphore is there of a broker that has not been started.
LEMMA InitSems == Init => SemInv
<1> SUFFICES ASSUME Init, NEW c \in Brokers, NEW m \in Sems PROVE Kept(c, m)
  BY DEF SemInv, Kept
<1>1. pc[c] = "none" /\ name[m] # c /\ \A d \in Brokers : sem[d][m] = NULL
  BY BrokersAssumption DEF Init
<1>2. NULL # c
  BY BrokersAssumption
<1>3. Undisturbed(c, m)
  BY <1>1, <1>2 DEF Undisturbed, Apart, NameFree, Own, Mine, Untouched, SettingUp, Window,
                    AfterOpen, Opening, Serving
<1> QED BY <1>1, <1>2, <1>3 DEF Kept, NotYet

\* A step of b behind its set-up that leaves the semaphores alone.
LEMMA PlainMove ==
  ASSUME TypeInv, SemInv, NEW b \in Brokers, NEW q \in Opening \cup {"ready", "serving"},
         pc[b] \in Opening \cup {"ready"}, pc' = [pc EXCEPT ![b] = q],
         UNCHANGED <<name, value, sem, overlapped>>
  PROVE  SemInv'
<1> SUFFICES ASSUME NEW c \in Brokers, NEW m \in Sems PROVE Kept(c, m)'
  BY DEF SemInv, Kept
<1>1. \A d \in Brokers :
        /\ pc'[d] \in SettingUp <=> pc[d] \in SettingUp
        /\ pc'[d] \in BeforeOpen(m) <=> pc[d] \in BeforeOpen(m)
        /\ pc'[d] \in Window(m) <=> pc[d] \in Window(m)
        /\ pc'[d] \in AfterOpen(m) <=> pc[d] \in AfterOpen(m)
        /\ pc'[d] \in Quiet => pc[d] \in Quiet
  BY DEF TypeInv, SettingUp, BeforeOpen, Window, AfterOpen, Quiet, Opening, Serving
<1>2. Kept(c, m)
  BY DEF SemInv, Kept
<1>3. NotYet(c, m)'
  BY <1>1, <1>2 DEF Kept, NotYet
<1>4. ASSUME ~overlapped'[c] PROVE Undisturbed(c, m)'
  <2>1. Undisturbed(c, m)
    BY <1>2, <1>4 DEF Kept
  <2> QED BY <1>1, <2>1 DEF Undisturbed, Apart, NameFree, Own, Mine, Untouched
<1> QED BY <1>3, <1>4 DEF Kept

\* A start makes every start that is under way overlapped.
LEMMA StartSems ==
  ASSUME TypeInv, SemInv, NEW b \in Brokers, Start(b)
  PROVE  SemInv'
<1> SUFFICES ASSUME NEW c \in Brokers, NEW m \in Sems PROVE Kept(c, m)'
  BY DEF SemInv, Kept
<1>1. /\ UNCHANGED <<name, value, sem>>
      /\ pc[b] = "none"
      /\ \A d \in Brokers : pc'[d] = IF d = b THEN "unlinkControl" ELSE pc[d]
  BY DEF Start, names, Goes, TypeInv
<1>2. Kept(c, m)
  BY DEF SemInv, Kept
<1>3. NotYet(c, m)'
  BY <1>1, <1>2 DEF Kept, NotYet, BeforeOpen, SettingUp
<1>4. ASSUME ~overlapped'[c] PROVE Undisturbed(c, m)'
  <2>1. /\ ~overlapped[c]
        /\ pc[c] \notin SettingUp
        /\ c = b => \A d \in Brokers : pc[d] \notin SettingUp
    BY <1>4, Zenon DEF Start
  <2>2. Undisturbed(c, m)
    BY <1>2, <2>1 DEF Kept
  <2>3. Apart(c)'
    BY <1>1, <2>1 DEF Apart, SettingUp
  <2>4. NameFree(c, m)' /\ Own(c, m)' /\ Untouched(c, m)'
    BY <1>1, <2>2 DEF Undisturbed, NameFree, Own, Untouched, Window, AfterOpen, Opening,
                      Serving, Quiet
  <2>5. Mine(c, m)'
    BY <1>1, <2>2 DEF Undisturbed, Mine, Window
  <2> QED BY <2>3, <2>4, <2>5 DEF Undisturbed
<1> QED BY <1>3, <1>4 DEF Kept

\* A process that ends takes nothing with it.
LEMMA EndSems ==
  ASSUME TypeInv, SemInv, NEW b \in Brokers, Ends(b)
  PROVE  SemInv'
<1> SUFFICES ASSUME NEW c \in Brokers, NEW m \in Sems PROVE Kept(c, m)'
  BY DEF SemInv, Kept
<1>1. /\ UNCHANGED <<name, value, overlapped>>
      /\ \A d \in Brokers : pc'[d] = IF d = b THEN "ended" ELSE pc[d]
      /\ \A d \in Brokers : sem'[d][m] = IF d = b THEN NULL ELSE sem[d][m]
  BY DEF Ends, TypeInv
<1>2. Kept(c, m) /\ NULL # c
  BY BrokersAssumption DEF SemInv, Kept
<1>3. NotYet(c, m)'
  BY <1>1, <1>2 DEF Kept, NotYet, BeforeOpen, SettingUp
<1>4. ASSUME ~overlapped'[c] PROVE Undisturbed(c, m)'
  <2>1. Undisturbed(c, m)
    BY <1>1, <1>2, <1>4 DEF Kept
  <2>2. Apart(c)'
    BY <1>1, <2>1 DEF Undisturbed, Apart, SettingUp
  <2>3. NameFree(c, m)' /\ Own(c, m)' /\ Untouched(c, m)'
    BY <1>1, <1>2, <2>1 DEF Undisturbed, NameFree, Own, Untouched, Window, AfterOpen, Opening,
                            Serving, Quiet
  <2>4. Mine(c, m)'
    BY <1>1, <1>2, <2>1 DEF Undisturbed, Mine, Window
  <2> QED BY <2>2, <2>3, <2>4 DEF Undisturbed
<1> QED BY <1>3, <1>4 DEF Kept

\* The set-up is a walk through unlinkControl, unlinkMutex, openControl and
\* openMutex; each call is about one of the names.
UnlinkStep(n, at, next) ==
  \/ n = "control" /\ at = "unlinkControl" /\ next = "unlinkMutex"
  \/ n = "mutex" /\ at = "unlinkMutex" /\ next = "openControl"
OpenStep(n, at, next) ==
  \/ n = "control" /\ at = "openControl" /\ next = "openMutex"
  \/ n = "mutex" /\ at = "openMutex" /\ next = "address"

\* sem_unlink frees the name.
LEMMA UnlinkSems ==
  ASSUME TypeInv, SemInv, NEW b \in Brokers, NEW n \in Sems, NEW at, NEW next,
         UnlinkStep(n, at, next), Unlink(b, n, at, next)
  PROVE  SemInv'
<1> SUFFICES ASSUME NEW c \in Brokers, NEW m \in Sems PROVE Kept(c, m)'
  BY DEF SemInv, Kept
<1>1. /\ UNCHANGED <<value, sem, overlapped>>
      /\ pc[b] = at
      /\ \A d \in Brokers : pc'[d] = IF d = b THEN next ELSE pc[d]
      /\ name'[m] = IF m = n THEN NULL ELSE name[m]
  BY DEF Unlink, Unlinked, history, Goes, TypeInv
<1>2. Kept(c, m) /\ NULL # c
  BY BrokersAssumption DEF SemInv, Kept
<1>3. NotYet(c, m)'
  BY <1>1, <1>2 DEF Kept, NotYet, BeforeOpen, SettingUp, UnlinkStep
<1>4. ASSUME ~overlapped'[c] PROVE Undisturbed(c, m)'
  <2>1. Undisturbed(c, m)
    BY <1>1, <1>2, <1>4 DEF Kept
  <2>2. Apart(c)'
    BY <1>1, <2>1 DEF Undisturbed, Apart, SettingUp, UnlinkStep
  <2>3. NameFree(c, m)'
    BY <1>1, <2>1 DEF Undisturbed, NameFree, Window, UnlinkStep, Sems
  <2>4. Own(c, m)' /\ Untouched(c, m)'
    BY <1>1, <2>1 DEF Undisturbed, Own, Untouched, AfterOpen, Opening, Serving, Quiet, UnlinkStep
  <2>5. Mine(c, m)'
    BY <1>1, <1>2, <2>1 DEF Undisturbed, Mine, Window, UnlinkStep, Sems
  <2> QED BY <2>2, <2>3, <2>4, <2>5 DEF Undisturbed
<1> QED BY <1>3, <1>4 DEF Kept

\* sem_open gives an undisturbed start a semaphore of its own.
LEMMA OpenSems ==
  ASSUME TypeInv, SemInv, NEW b \in Brokers, NEW n \in Sems, NEW at, NEW next,
         OpenStep(n, at, next), SemOpen(b, n, at, next)
  PROVE  SemInv'
<1> SUFFICES ASSUME NEW c \in Brokers, NEW m \in Sems PROVE Kept(c, m)'
  BY DEF SemInv, Kept
<1> DEFINE got == IF name[n] = NULL THEN b ELSE name[n]
<1>1. /\ UNCHANGED overlapped
      /\ pc[b] = at
      /\ \A d \in Brokers : pc'[d] = IF d = b THEN next ELSE pc[d]
      /\ name'[m] = IF m = n THEN got ELSE name[m]
      /\ \A d \in Brokers : sem'[d][m] = IF d = b /\ m = n THEN got ELSE sem[d][m]
  BY DEF SemOpen, history, Goes, TypeInv
<1>2. value'[m][c] = IF name[n] = NULL /\ m = n /\ c = b THEN InitialValue[n] ELSE value[m][c]
  BY DEF SemOpen, TypeInv, Creators
<1>3. Kept(c, m) /\ NULL # c
  BY BrokersAssumption DEF SemInv, Kept
<1>4. at \in BeforeOpen(n) /\ at \in Window(n) /\ next \notin BeforeOpen(n)
  BY DEF OpenStep, BeforeOpen, Window, SettingUp
<1>5. NotYet(c, m)'
  <2>1. ASSUME pc'[c] \in BeforeOpen(m) PROVE pc[c] \in BeforeOpen(m) /\ (m = n => c # b)
    BY <1>1, <1>4, <2>1 DEF BeforeOpen, OpenStep, SettingUp
  <2>2. ASSUME pc'[c] \in BeforeOpen(m)
        PROVE  name[m] # c /\ (\A d \in Brokers : sem[d][m] # c) /\ (m = n => got # c)
    BY <1>3, <2>1, <2>2 DEF Kept, NotYet
  <2> QED BY <1>1, <2>2 DEF NotYet
<1>6. ASSUME ~overlapped'[c] PROVE Undisturbed(c, m)'
  <2>1. Undisturbed(c, m)
    BY <1>1, <1>3, <1>6 DEF Kept
  <2>2. Apart(c)'
    BY <1>1, <2>1 DEF Undisturbed, Apart, SettingUp, OpenStep
  <2>3. CASE c = b
    <3>1. m = n => name[n] = NULL /\ \A d \in Brokers : sem[d][n] # b
      BY <1>1, <1>3, <1>4, <2>1, <2>3 DEF Kept, NotYet, Undisturbed, NameFree
    <3>2. m = n => name'[m] = b /\ sem'[b][m] = b /\ value'[m][b] = InitialValue[m]
      BY <1>1, <1>2, <2>3, <3>1
    <3>3. m # n => name'[m] = name[m] /\ sem'[b][m] = sem[b][m] /\ value'[m][b] = value[m][b]
      BY <1>1, <1>2, <2>3
    <3>4. \A d \in Brokers \ {b} : pc[d] \notin SettingUp /\ pc'[d] = pc[d]
      BY <1>1, <2>1, <2>3 DEF Undisturbed, Apart, SettingUp, OpenStep
    <3>5. NameFree(c, m)'
      BY <1>1, <2>1, <2>3, <3>3 DEF Undisturbed, NameFree, Window, OpenStep, Sems
    <3>6. Own(c, m)' /\ Untouched(c, m)'
      <4>1. CASE m = n
        BY <2>3, <3>2, <4>1 DEF Own, Untouched
      <4>2. CASE m # n
        <5>1. n = "control" => sem[b][m] # b
          BY <1>1, <1>3, <2>3, <4>2 DEF Kept, NotYet, BeforeOpen, OpenStep, Sems, SettingUp
        <5>2. n = "mutex" => at \in AfterOpen(m) /\ at \in Quiet
          BY <4>2 DEF OpenStep, Sems, AfterOpen, Quiet
        <5>3. n = "control" => next \notin AfterOpen(m)
          BY <4>2 DEF OpenStep, Sems, AfterOpen, Opening, Serving
        <5> QED BY <1>1, <2>1, <2>3, <3>3, <4>2, <5>1, <5>2, <5>3
                DEF Undisturbed, Own, Untouched, Sems
      <4> QED BY <4>1, <4>2
    <3>7. Mine(c, m)'
      <4>1. \A d \in Brokers \ {b} : pc'[d] \notin Window(m)
        BY <3>4 DEF Window, SettingUp
      <4>2. \A d \in Brokers \ {b} : sem'[d][m] = sem[d][m]
        BY <1>1
      <4>3. m # n => Mine(c, m)
        BY <2>1 DEF Undisturbed
      <4> QED BY <2>3, <3>1, <3>3, <4>1, <4>2, <4>3 DEF Mine
    <3> QED BY <2>2, <3>5, <3>6, <3>7 DEF Undisturbed
  <2>4. CASE c # b
    <3>1. pc'[c] = pc[c] /\ pc[c] \notin SettingUp
      BY <1>1, <2>1, <2>4 DEF Undisturbed, Apart, SettingUp, OpenStep
    <3>2. sem'[c][m] = sem[c][m] /\ value'[m][c] = value[m][c]
      BY <1>1, <1>2, <2>4
    <3>3. NameFree(c, m)'
      BY <3>1 DEF NameFree, Window, SettingUp
    <3>4. Own(c, m)' /\ Untouched(c, m)'
      BY <2>1, <3>1, <3>2 DEF Undisturbed, Own, Untouched, AfterOpen, Opening, Serving, Quiet
    <3>5. Mine(c, m)'
      <4>1. SUFFICES ASSUME sem[c][m] = c, NEW d \in Brokers \ {c}
                     PROVE  sem'[d][m] # c /\ (name'[m] = c => pc'[d] \notin Window(m))
        BY <3>2 DEF Mine
      <4>2. sem[d][m] # c /\ (name[m] = c => pc[d] \notin Window(m) /\ pc[b] \notin Window(m))
        BY <2>1, <2>4, <4>1 DEF Undisturbed, Mine
      <4>3. m = n => got # c
        BY <1>1, <1>4, <2>4, <4>2
      <4>4. m # n => name'[m] = name[m] /\ sem'[d][m] = sem[d][m]
        BY <1>1
      <4>5. pc'[d] \in Window(m) /\ m # n => pc[d] \in Window(m)
        BY <1>1 DEF Window, OpenStep, Sems
      <4> QED BY <1>1, <4>2, <4>3, <4>4, <4>5
    <3> QED BY <2>2, <3>3, <3>4, <3>5 DEF Undisturbed
  <2> QED BY <2>3, <2>4
<1> QED BY <1>5, <1>6 DEF Kept

\* Only who has a semaphore open changes its value.
LEMMA UseSems ==
  ASSUME TypeInv, SemInv, NEW b \in Brokers, Lock(b) \/ Register(b) \/ WaitControl(b)
  PROVE  SemInv'
<1> SUFFICES ASSUME NEW c \in Brokers, NEW m \in Sems PROVE Kept(c, m)'
  BY DEF SemInv, Kept
<1>1. /\ UNCHANGED <<name, sem, overlapped>>
      /\ pc[b] \in {"serving", "registering"}
      /\ pc'[b] \in {"serving", "registering"}
      /\ \A d \in Brokers : d # b => pc'[d] = pc[d]
  BY DEF Lock, Register, WaitControl, history, Goes, TypeInv
<1>2. c # sem[b][m] => value'[m][c] = value[m][c]
  BY DEF Lock, Register, WaitControl, TypeInv, Sems, Creators
<1>3. Kept(c, m)
  BY DEF SemInv, Kept
<1>4. NotYet(c, m)'
  BY <1>1, <1>3 DEF Kept, NotYet, BeforeOpen, SettingUp
<1>5. ASSUME ~overlapped'[c] PROVE Undisturbed(c, m)'
  <2>1. Undisturbed(c, m)
    BY <1>1, <1>3, <1>5 DEF Kept
  <2>2. Apart(c)' /\ NameFree(c, m)' /\ Own(c, m)'
    BY <1>1, <2>1 DEF Undisturbed, Apart, NameFree, Own, SettingUp, Window, AfterOpen,
                      Opening, Serving
  <2>3. Mine(c, m)'
    BY <1>1, <2>1 DEF Undisturbed, Mine, Window
  <2>4. Untouched(c, m)'
    <3>1. SUFFICES ASSUME sem[c][m] = c, pc'[c] \in Quiet PROVE value'[m][c] = InitialValue[m]
      BY <1>1 DEF Untouched
    <3>2. c # b /\ pc[c] \in Quiet
      BY <1>1, <3>1 DEF Quiet, Opening
    <3>3. sem[b][m] # c
      BY <2>1, <3>1, <3>2 DEF Undisturbed, Mine
    <3> QED BY <1>2, <2>1, <3>1, <3>2, <3>3 DEF Undisturbed, Untouched
  <2> QED BY <2>2, <2>3, <2>4 DEF Undisturbed
<1> QED BY <1>4, <1>5 DEF Kept

\* Every step keeps what is known of the semaphores.
LEMMA StepSems == TypeInv /\ SemInv /\ [Next]_vars => SemInv'
<1> SUFFICES ASSUME TypeInv, SemInv, [Next]_vars PROVE SemInv'
  OBVIOUS
<1>1. CASE UNCHANGED vars \/ TimeWaitOver
  <2>1. UNCHANGED <<name, value, sem, pc, overlapped>>
    BY <1>1 DEF vars, TimeWaitOver, names, history
  <2> QED BY <2>1 DEF SemInv, NotYet, Undisturbed, Apart, NameFree, Own, Mine, Untouched
<1>2. ASSUME NEW b \in Brokers, SetUp(b) PROVE SemInv'
  <2>1. CASE Unlink(b, "control", "unlinkControl", "unlinkMutex")
             \/ Unlink(b, "mutex", "unlinkMutex", "openControl")
    BY <2>1, UnlinkSems DEF UnlinkStep, Sems
  <2>2. CASE SemOpen(b, "control", "openControl", "openMutex")
             \/ SemOpen(b, "mutex", "openMutex", "address")
    BY <2>2, OpenSems DEF OpenStep, Sems
  <2> QED BY <1>2, <2>1, <2>2, EndSems DEF SetUp, CallFails
<1>3. ASSUME NEW b \in Brokers, open_listenfd(b) PROVE SemInv'
  <2>1. CASE NoAddress(b) \/ ListenFails(b)
    BY <2>1, EndSems DEF NoAddress, ListenFails
  <2>2. CASE ~(NoAddress(b) \/ ListenFails(b))
    <3>1. /\ UNCHANGED <<name, value, sem, overlapped>>
          /\ pc[b] \in Opening
          /\ \E q \in Opening \cup {"ready", "serving"} : pc' = [pc EXCEPT ![b] = q]
      BY <1>3, <2>2 DEF open_listenfd, Getaddrinfo, Socket, SocketFails, Setsockopt, Bind,
           BindFails, CloseSocket, Listen, names, history, Goes, Opening
    <3> QED BY <3>1, PlainMove
  <2> QED BY <2>1, <2>2
<1>4. ASSUME NEW b \in Brokers, Serve(b) PROVE SemInv'
  <2>1. CASE Accept(b)
    BY <2>1, PlainMove DEF Accept, Goes, names, history
  <2> QED BY <1>4, <2>1, UseSems DEF Serve
<1> QED
  BY <1>1, <1>2, <1>3, <1>4, StartSems, EndSems DEF Next, Killed

\* The values that lines 189 and 305 rely on: whatever an earlier broker has
\* left under the names of lines 78 and 79, a start that was not interleaved
\* with another one begins to listen with semaphores of 0 and 1.
THEOREM FreshSemaphoresHold == Spec => []FreshSemaphores
<1>1. SemInv => FreshSemaphores
  BY DEF SemInv, Undisturbed, Own, Untouched, FreshSemaphores, AfterOpen, Quiet, Serving
<1> QED BY <1>1, InitTypes, StepTypes, InitSems, StepSems, PTL DEF Spec
=============================================================================
