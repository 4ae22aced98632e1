------------------------------ MODULE Startup ------------------------------
(***************************************************************************)
(* How a broker process starts (main() of broker_server.c, lines 57-109,   *)
(* with Open_listenfd of csapp.c), and how it ends.  The named semaphores  *)
(* outlive every process and the port outlives its last listener for a     *)
(* while, so a start must cope with what an earlier broker has left, and   *)
(* with another start that happens at the same time.                       *)
(*                                                                         *)
(* A semaphore is known by the process that created it: `earlier' stands   *)
(* for a broker of the past.                                               *)
(*                                                                         *)
(* The names, the values and the port are the kernel's part: external.     *)
(***************************************************************************)
EXTENDS Integers, FiniteSets

CONSTANTS
  Brokers,      \* broker processes that are started
  earlier,      \* a broker that has ended before
  NULL,         \* no semaphore
  Addresses,    \* length of the list getaddrinfo() returns
  Failing,      \* calls that may fail for lack of resources
  MaxClients    \* bound on the registrations of one broker

ASSUME BrokersAssumption == IsFiniteSet(Brokers) /\ earlier # NULL /\
                            {earlier, NULL} \cap Brokers = {}
ASSUME AddressesAssumption == Addresses \in Nat \ {0}
ASSUME FailingAssumption == Failing \subseteq {"sem_open", "getaddrinfo", "socket"}
ASSUME MaxClientsAssumption == MaxClients \in Nat

Creators == Brokers \cup {earlier}

\* The semaphores /conn_control and /mutex.
Sems == {"control", "mutex"}

\* The value sem_open gives to a semaphore it creates.
InitialValue == [control |-> 0, mutex |-> 1]

VARIABLES
  name,         \* name[n]: the creator of the semaphore of that name, or NULL
  value,        \* value[n][b]: the value of the semaphore n that b created
  pc,           \* where main() of each broker is
  sem,          \* sem[b][n]: the creator of the semaphore that b has opened
  fd_idx,       \* clients registered
  p,            \* position in the address list
  sock,         \* listenfd: "none" | "open" | "bound" | "listening"
  fds,          \* sockets the process has open
  reuse,        \* SO_REUSEADDR is set on listenfd
  timeWait,     \* connections of an ended broker still occupy the port
  failed,       \* history: a call failed for lack of resources, or b was ended
  overlapped    \* history: two processes were between sem_unlink and sem_open

vars == <<name, value, pc, sem, fd_idx, p, sock, fds, reuse, timeWait, failed, overlapped>>

SettingUp == {"unlinkControl", "unlinkMutex", "openControl", "openMutex"}
Serving == {"ready", "serving", "registering"}
Alive(b) == pc[b] \notin {"none", "ended"}
Alone(b) == \A c \in Brokers \ {b} : ~Alive(c)

\* An earlier broker may have left its semaphores with any value, and its
\* connections on the port.
Init ==
  /\ name \in [Sems -> {NULL, earlier}]
  /\ value \in [Sems -> [Creators -> 0 .. 1]]
  /\ \A n \in Sems, b \in Creators :
       name[n] = NULL \/ b # earlier => value[n][b] = InitialValue[n]
  /\ pc = [b \in Brokers |-> "none"]
  /\ sem = [b \in Brokers |-> [n \in Sems |-> NULL]]
  /\ fd_idx = [b \in Brokers |-> 0]
  /\ p = [b \in Brokers |-> 1]
  /\ sock = [b \in Brokers |-> "none"]
  /\ fds = [b \in Brokers |-> 0]
  /\ reuse = [b \in Brokers |-> FALSE]
  /\ timeWait \in BOOLEAN
  /\ failed = [b \in Brokers |-> FALSE]
  /\ overlapped = [b \in Brokers |-> FALSE]

Goes(b, from, to) == pc[b] = from /\ pc' = [pc EXCEPT ![b] = to]

names == <<name, value, sem, fd_idx>>
sockets == <<p, sock, fds, reuse, timeWait>>
history == <<failed, overlapped>>

-----------------------------------------------------------------------------
(* The semaphores, lines 77-94.                                            *)

Start(b) ==
  /\ Goes(b, "none", "unlinkControl")
  /\ overlapped' =
       [c \in Brokers |-> \/ overlapped[c]
                          \/ c = b /\ \E d \in Brokers : pc[d] \in SettingUp
                          \/ pc[c] \in SettingUp]
  /\ UNCHANGED <<names, sockets, failed>>

\* Mutant of Unlinked: the name is kept.
NotUnlinked(n) == name

\* sem_unlink: the name is free again; who has the semaphore open keeps it.
Unlinked(n) == [name EXCEPT ![n] = NULL]

Unlink(b, n, at, next) ==
  /\ Goes(b, at, next)
  /\ name' = Unlinked(n)
  /\ UNCHANGED <<value, sem, fd_idx, sockets, history>>

\* sem_open(.., O_CREAT, .., v): without O_EXCL an existing semaphore is
\* opened as it is.
SemOpen(b, n, at, next) ==
  /\ Goes(b, at, next)
  /\ IF name[n] = NULL
       THEN /\ name' = [name EXCEPT ![n] = b]
            /\ value' = [value EXCEPT ![n][b] = InitialValue[n]]
            /\ sem' = [sem EXCEPT ![b][n] = b]
       ELSE /\ sem' = [sem EXCEPT ![b][n] = name[n]]
            /\ UNCHANGED <<name, value>>
  /\ UNCHANGED <<fd_idx, sockets, history>>

-----------------------------------------------------------------------------
(* The end of a process, from exit() or from outside.  The kernel closes   *)
(* its sockets; the names stay, and the port stays occupied if it had      *)
(* clients.                                                                *)

Ends(b) ==
  /\ Alive(b)
  /\ pc' = [pc EXCEPT ![b] = "ended"]
  /\ sock' = [sock EXCEPT ![b] = "none"]
  /\ fds' = [fds EXCEPT ![b] = 0]
  /\ p' = [p EXCEPT ![b] = 1]
  /\ reuse' = [reuse EXCEPT ![b] = FALSE]
  /\ sem' = [sem EXCEPT ![b] = [n \in Sems |-> NULL]]
  /\ fd_idx' = [fd_idx EXCEPT ![b] = 0]
  /\ timeWait' = (timeWait \/ pc[b] \in {"serving", "registering"})
  /\ UNCHANGED <<name, value, overlapped>>

\* SEM_FAILED and gai_error.
CallFails(b) ==
  /\ \/ pc[b] \in {"openControl", "openMutex"} /\ "sem_open" \in Failing
     \/ pc[b] = "address" /\ "getaddrinfo" \in Failing
  /\ Ends(b)
  /\ failed' = [failed EXCEPT ![b] = TRUE]

\* SIGINT (sig_handler), SIGPIPE or a fault.
Killed(b) ==
  /\ Ends(b)
  /\ failed' = [failed EXCEPT ![b] = TRUE]

\* Open_listenfd has got -1: unix_error.
NoAddress(b) ==
  /\ pc[b] = "socket" /\ p[b] > Addresses
  /\ Ends(b)
  /\ UNCHANGED failed

\* The port of an ended broker becomes free.
TimeWaitOver ==
  /\ timeWait
  /\ timeWait' = FALSE
  /\ UNCHANGED <<names, pc, p, sock, fds, reuse, history>>

-----------------------------------------------------------------------------
(* open_listenfd.  The addresses of the list overlap: two sockets bound to *)
(* any of them share the port.                                             *)

Getaddrinfo(b) ==
  /\ Goes(b, "address", "socket")
  /\ p' = [p EXCEPT ![b] = 1]
  /\ UNCHANGED <<names, sock, fds, reuse, timeWait, history>>

Socket(b) ==
  /\ p[b] <= Addresses
  /\ Goes(b, "socket", "setsockopt")
  /\ sock' = [sock EXCEPT ![b] = "open"]
  /\ fds' = [fds EXCEPT ![b] = @ + 1]
  /\ reuse' = [reuse EXCEPT ![b] = FALSE]
  /\ UNCHANGED <<names, p, timeWait, history>>

\* socket() fails: on to the next address.
SocketFails(b) ==
  /\ p[b] <= Addresses
  /\ "socket" \in Failing
  /\ Goes(b, "socket", "socket")
  /\ p' = [p EXCEPT ![b] = @ + 1]
  /\ failed' = [failed EXCEPT ![b] = TRUE]
  /\ UNCHANGED <<names, sock, fds, reuse, timeWait, overlapped>>

\* Mutant of Option: another option is set.
OtherOption(b) == FALSE

\* SO_REUSEADDR with optval = 1.
Option(b) == TRUE

Setsockopt(b) ==
  /\ Goes(b, "setsockopt", "bind")
  /\ reuse' = [reuse EXCEPT ![b] = Option(b)]
  /\ UNCHANGED <<names, p, sock, fds, timeWait, history>>

Listens(c) == sock[c] = "listening"

\* bind(): with SO_REUSEADDR on both sides only a listener is in the way.
PortFree(b) ==
  /\ \A c \in Brokers \ {b} : ~Listens(c)
  /\ reuse[b] \/ ~timeWait
  /\ \A c \in Brokers \ {b} : sock[c] = "bound" => reuse[b] /\ reuse[c]

Bind(b) ==
  /\ PortFree(b)
  /\ Goes(b, "bind", "listen")
  /\ sock' = [sock EXCEPT ![b] = "bound"]
  /\ UNCHANGED <<names, p, fds, reuse, timeWait, history>>

BindFails(b) ==
  /\ ~PortFree(b)
  /\ Goes(b, "bind", "close")
  /\ UNCHANGED <<names, sockets, history>>

\* Mutant of Closed: the socket of the failed attempt is kept.
NotClosed(b) == fds[b]

\* Close(listenfd).
Closed(b) == fds[b] - 1

CloseSocket(b) ==
  /\ Goes(b, "close", "socket")
  /\ sock' = [sock EXCEPT ![b] = "none"]
  /\ fds' = [fds EXCEPT ![b] = Closed(b)]
  /\ p' = [p EXCEPT ![b] = @ + 1]
  /\ UNCHANGED <<names, reuse, timeWait, history>>

Listen(b) ==
  /\ \A c \in Brokers : ~Listens(c)
  /\ Goes(b, "listen", "ready")
  /\ sock' = [sock EXCEPT ![b] = "listening"]
  /\ UNCHANGED <<names, p, fds, reuse, timeWait, history>>

\* Two processes have bound the port and the other one was the first to
\* listen: -1 and unix_error, with the socket open until the process is gone.
ListenFails(b) ==
  /\ pc[b] = "listen"
  /\ \E c \in Brokers : Listens(c)
  /\ Ends(b)
  /\ UNCHANGED failed

-----------------------------------------------------------------------------
(* A running broker, cut down to what it does to its semaphores.           *)

Accept(b) ==
  /\ Goes(b, "ready", "serving")
  /\ UNCHANGED <<names, sockets, history>>

Lock(b) ==
  /\ Goes(b, "serving", "registering")
  /\ fd_idx[b] < MaxClients
  /\ value["mutex"][sem[b]["mutex"]] > 0
  /\ value' = [value EXCEPT !["mutex"][sem[b]["mutex"]] = @ - 1]
  /\ UNCHANGED <<name, sem, fd_idx, sockets, history>>

\* From the second client on, sem_control is posted as well.
Register(b) ==
  /\ Goes(b, "registering", "serving")
  /\ fd_idx' = [fd_idx EXCEPT ![b] = @ + 1]
  /\ value' = [value EXCEPT
                 !["mutex"][sem[b]["mutex"]] = @ + 1,
                 !["control"][sem[b]["control"]] = IF fd_idx'[b] >= 2 THEN @ + 1 ELSE @]
  /\ UNCHANGED <<name, sem, sockets, history>>

\* sem_wait(sem_control) in forward_messages().
WaitControl(b) ==
  /\ pc[b] \in {"serving", "registering"}
  /\ value["control"][sem[b]["control"]] > 0
  /\ value' = [value EXCEPT !["control"][sem[b]["control"]] = @ - 1]
  /\ UNCHANGED <<name, sem, fd_idx, pc, sockets, history>>

-----------------------------------------------------------------------------
SetUp(b) ==
  \/ Unlink(b, "control", "unlinkControl", "unlinkMutex")
  \/ Unlink(b, "mutex", "unlinkMutex", "openControl")
  \/ SemOpen(b, "control", "openControl", "openMutex")
  \/ SemOpen(b, "mutex", "openMutex", "address")
  \/ CallFails(b)

open_listenfd(b) ==
  \/ Getaddrinfo(b) \/ Socket(b) \/ SocketFails(b) \/ Setsockopt(b)
  \/ Bind(b) \/ BindFails(b) \/ CloseSocket(b) \/ Listen(b)
  \/ NoAddress(b) \/ ListenFails(b)

Serve(b) == Accept(b) \/ Lock(b) \/ Register(b) \/ WaitControl(b)

Next ==
  \/ \E b \in Brokers : Start(b) \/ SetUp(b) \/ open_listenfd(b) \/ Serve(b) \/ Killed(b)
  \/ TimeWaitOver

Spec == Init /\ [][Next]_vars

\* A started process is scheduled; nothing makes a client connect or the user
\* start or end a broker.
FairSpec == Spec /\ \A b \in Brokers : WF_vars(SetUp(b) \/ open_listenfd(b))

-----------------------------------------------------------------------------
(* Properties.                                                             *)

\* Lines 189 and 305 rely on the first values of lines 81 and 88.  Whatever
\* values a broker that died with sem_mutex taken has left behind, a broker
\* that begins to listen has semaphores of 0 and 1, unless its sem_unlink and
\* sem_open were interleaved with those of another start.
FreshSemaphores ==
  \A b \in Brokers : pc[b] = "ready" /\ ~overlapped[b] =>
    \A n \in Sems : value[n][sem[b][n]] = InitialValue[n]

\* However many addresses were tried, and whoever held the port meanwhile,
\* open_listenfd leaves one socket, the listening one.
OneSocket ==
  \A b \in Brokers : pc[b] \in Serving => fds[b] = 1 /\ Listens(b)

\* Comment in open_listenfd: SO_REUSEADDR "eliminates 'Address already in
\* use'".  A broker that is started alone, right after another one has died
\* with its clients connected, comes to listen; a start that is not alone
\* ends or listens, it does not hang.
RestartSucceeds ==
  \A b \in Brokers :
    /\ pc[b] = "unlinkControl" /\ Alone(b)
         ~> pc[b] \in Serving \/ failed[b] \/ ~Alone(b)
    /\ Alive(b) ~> pc[b] \in Serving \cup {"ended"}

=============================================================================
