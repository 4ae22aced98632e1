# MQTTv1 in TLA+

A model of the publish/subscribe system of this repository: the broker
(`broker_server.c`), its publishers (`pub_client.c` with `exec_top.c` and
`exec_grep.c`), its subscribers (`sub_client.c`) and the echo programs they were
made from (`prototypes/demo_tcpip`), with TLC runs and TLAPS proofs. `PROJECT.json` maps every
definition to the lines it stands for.

## The system

| part | state | operations | talks to |
|---|---|---|---|
| broker `main()` | named semaphores, listening socket | set up, accept, start a thread | clients, earlier and later brokers |
| broker `thread()` (one per client) | slot `fd_idx` of four parallel lists, `sem_mutex`, `sem_control` | register the client, then forward | its client, all other threads |
| `forward_messages()` | `i`, `topics_number`, two descriptors | walk the lists without a lock, for **all** rows | any publisher, any subscriber |
| `forward_message()`, `split()` | a line, a fresh `rio_t`, strtok's static pointer | read one line, cut it, write the wanted fields | one publisher, one subscriber |
| topic filter `update_sus_info()` | an uninitialised array of six | exclude topics by writing -1 | `thread()` |
| `sig_handler()` | the descriptor list | close all, one by one, and exit | all threads, which run on meanwhile |
| publisher | connection | handshake, then sample and send every two seconds | broker |
| sampler (`exec_top`, `exec_grep`) | `top.txt`, `info.txt` | run top and grep, pick tokens | all publishers of the directory |
| subscriber | connection, `rio_t` | handshake, then print lines until end of file | broker |
| Rio package (`csapp.c`) | `rio_t` | buffered lines, whole writes; an error ends the process | sockets |
| socket helpers (`csapp.c`) | a list of addresses | `open_listenfd`, `open_clientfd` | sockets |
| echo server and client | a connection, a `rio_t` | read a line, write a line, one client at a time | each other |

What is hard here: registered rows are read by other threads without a lock
while a registration is half done; `strtok` is shared by all threads; the number
of forwarding threads is regulated by a counting semaphore; the critical section
blocks on the network; nothing notices that a client has left except a read that
returns 0 and a write that raises SIGPIPE; the lists have ten entries and no
check; the helper programs of all publishers share two files that are never
truncated, and a child whose `execv` fails becomes a second publisher; the
semaphores outlive a crash. What makes the parts correct: a visible row belongs to one client; the
semaphores balance; a subscriber is sent the wanted fields of the messages of the
node it named, whole and in order; a waiting message is picked up; a client that
completes its handshake is registered; nobody outlives the broker; a sample is
of one piece; a restart starts afresh.

## Modules

| module | what |
|---|---|
| `Topics` | `update_sus_info` and its caller, lines 222-240, against the README's meaning of a subscription |
| `Broker` | the broker process, one action per step of a thread that others can observe |
| `MQTT` | `Broker` with publishers and subscribers; specification, fairness and properties |
| `PubSub` | the service the README promises, without broker, threads or sockets |
| `Sampler` | how a publisher comes by a message: processes, files, tokens |
| `Startup` | how a broker starts and ends, next to and after other brokers |
| `Echo` | the Rio package byte by byte, under the echo server and its clients |
| `MCTopics`, `MCMQTT`, `MCEcho` | TLC instances (`Sampler` and `Startup` need none) |
| `TopicsProofs`, `SamplerProofs`, `StartupProofs`, `EchoProofs` | theorems about the module of the same name |
| `MQTTProofs` | theorems about `MQTT` for any number of clients |
| `ForwarderProofs` | threads and sockets of `MQTT` with at most two clients: the inductive invariants |
| `DeliveryProofs`, `CrashProofs` | theorems about `MQTT` with at most two clients: delivery and the refinement of `PubSub`, the broker's end |

**Topics.** A subscription is the sequence of its levels after the node name; a
row of `topic_list` is a function from the six topic indices to integers.
`residue` remembers what the stack held in `subscribed_info`, so that a
property can say what the missing initialisation can and cannot do. Missing
levels are null dereferences, as in the shipped build. `Interested` is what the
README says a subscription covers; the properties compare it with the row for
every subscription and name the cases in which the two differ (`PlusAbove`,
`PlusBelow`, a subscription that covers nothing).

**Broker.** A thread has the name of its client, a descriptor is the client at its
other end (descriptors are never closed while the broker runs, so they are never
reused; `STDIN` is descriptor 0). `Goes(t, from, to)` moves thread `t` along its
program; the places are

    none start | name sus reg (regLoad regStore) update copy finish unlock | wait
    | scan lookup read split (fwdLoad fwdStore) write

The first group in bars is the critical section. A call of `strtok(NULL, ..)` is two
steps, the load of the static pointer and the store some instructions later; a token is
(line, field), and field 0 is the rest of a line that was cut with another delimiter.
Every call also writes a `'\0'` behind its token (`nuls`): a call that started from the
same place and comes to it later ends there and saves a pointer to it, so that its thread
finds no further token (`EndsAtNul`). The filter row is copied entry by entry
(`CopyTopic`) and is visible from `StoreSus` on. `topic_list[i]` is the set of entries
that are not -1: initially all.

Undefined behaviour is resolved as in the shipped executable `broker`, whose
layout was read from its symbol table and tried out: behind `client_fd_list`
lies the pointer `sem_control`, behind `client_name_list` the variable
`thread_id` (never NULL) and then `fd_log`, behind `client_sus_list` zeroes; the
word before `client_fd_list` is 0; `topic_list[10]` overlaps
`client_name_list[0..2]`. Index `LIMIT_CONN_CLIENTS` of the lists in the model is
that memory: `Lock` stores the descriptor behind the end into `control`, and
`OverrunStore` the topics into the first names, two topics to a pointer, each of which is then
`TORN` or, after two zeroes, NULL. The lookup of lines 273-280 stops at a NULL, faults at
or compares with a torn pointer, and runs off a list that has no NULL (`FoundAt`, `Missed`,
`BadPointer`, `RunsOff`).

`SigClose` is one round of the loop in `sig_handler`: the entries below `closed` are
closed and hold 0, which is what a thread then reads (`FdAt`); a thread that still has the
descriptor of such an entry gets EBADF (`IsShut`), and a `read()` that is under way keeps
the connection open. The kernel runs the handler on the main thread, so nothing is
accepted meanwhile. `SigExit` is the end of it.

`HandshakeEOF`, `UpdateSusFault`, `ControlFault`, `LookupFault`,
`ReadError` and `WriteFault` are the ways the process ends without SIGINT.

**MQTT.** The places of a client are idle, connected, named, running, gone (and
reset, for a publisher whose last write was answered by a reset). Sockets are
three variables of the kernel: `rx` (sent, unread), `peer` (the client's end) and
`tx` (everything the broker has written). `TakesLines` and `HasGone` are what a client finds
at the broker's end. `Exit` is the user ending a client; the
kernel then closes the connection, with a reset if lines were unread.

Abstractions of `Broker` and `MQTT`:

* A line is the unit of a socket: the programs write each line with one `write()`
  and a backlog stays far below `RIO_BUFSIZE`. `read()` therefore returns all
  waiting lines, and what a fresh `rio_t` has read beyond the first is lost.
  (`Echo` has the bytes.)
* A message is (publisher, sequence number); its fields are their positions.
  (`Sampler` has the contents.)
* `Wanted[c]` is what `update_sus_info` keeps for `c`; module `Topics` says what
  that is. If another thread stole tokens, the comparison falls into some other
  branch (`WrongRows`).
* Logging is left out; nobody types into the broker's terminal.
* With more clients than `LIMIT_CONN_CLIENTS` the broker faults at line 246 at the
  latest, so no client is counted beyond the lists, and of the memory behind them only
  the row of the first client too many is needed.

**PubSub.** The service counts what each node has published and keeps what each
subscriber has been delivered, part by part: the next part is the next wanted
topic of the message under way, or the first one of a later message once the
message under way is complete. Messages may be left out, never repeated or mixed,
and nothing is delivered after the end. `MQTT!Service` instantiates it:
`published` is `sent`, `delivered` is `tx` with each token read as the value it
points to, `up` is a live broker; a token of another line or another field is no
value, so a theft by `strtok` would be a step the service does not have.

**Sampler.** `<<p, i>>` is the i-th process of publisher `p`, each one the child of
the one before it; a process whose helper runs is in `waitpid()`, so the helper's
steps are its steps. The places are update, exec_top, top, filter, grep, info,
sent, and wait or spin. A file is a sequence of lines; writing puts lines over the
first ones and keeps the rest. A line that covers only a part of an older one is
not told from one that covers all of it: the lines before and after it are the
same. A line has the words that `exec_grep` looks for: those of the header, and for the row
of a process whatever its name holds (`RowWords`), so that a row can be selected by each of the
three commands. The tokens of a line are named for the number they hold; a percentage of
100.0 is glued to the label before it, which moves the tokens behind it. A
position that was never stored is a null pointer or what the memory held:
`Segfault`, or a message of junk. `mine` remembers whether a round of a publisher
was undisturbed, and `stale` in a message whether top.txt held a row of an older run with
Cpu or Tasks in it (`StaleRow`). Writing one element past `read_buffer` (line 109) changes
nothing in the shipped executable, where padding follows it.

**Startup.** A semaphore is known by its creator. `Unlink` takes the name away and
`SemOpen` finds or creates it; the list of addresses is walked as in
`open_listenfd`. The kernel's rules are those of Linux: with `SO_REUSEADDR` on
both sides only a listening socket prevents `bind`, and a second `listen` on the
port fails. The addresses of the list (0.0.0.0 and ::) share the port.
`overlapped` remembers that two brokers were between their first `sem_unlink` and
their last `sem_open` at the same time.

**Echo.** Both directions of a connection are sequences of bytes; `write()` and
`read()` move any part of what there is, up to `RIO_BUFSIZE`. `rio_readlineb` is one
step per byte. The ends of a connection are open, closed or reset; a process that
ends with unread bytes resets, and a write to a closed end is answered by a reset,
now or later. The socket buffers of the kernel are large enough for a line. The
two copies of `csapp.c` are identical, so what `Echo` shows of Rio holds for the
broker and its clients too.

## Runs

| run | instance | checks |
|---|---|---|
| `topics` | all subscriptions of one and of two of the README's levels, some of three; a stack with and without -1 in each place | `UnwantedOnlyByFallback`, `LostOnlyByResidue`: where the filter differs from the README, and that it does nowhere else |
| `pair` | p1, s1, both may leave, SIGINT, 2 messages of 3 fields | `ProvidesService` (refinement of `PubSub`), `WholeMessagesInOrder`, `OnlyWantedTopics`, `FaithfulFields`, `CrashNeedsDeparture`, `HeadIsPrinted`, `ClientsFollow` |
| `pair_burst` (violation) | p1, s1 | `NothingSkipped`: of two waiting messages the second is dropped |
| `registry` | p1, s1 after p1, s2 after s1, all may leave, two entries | `TypeOK`, `MutualExclusion`, `RowsComplete`, `ForwardAfterTwo`, `ControlBalance`, through the overrun up to the fault of the third client |
| `trio` | p1, s1, s2, three entries | `EventuallyRegistered`, `ConstantForwarding` with two forwarders |
| `ghost_stalls` (violation) | p1, s1, s2 after an unknown node | `ConstantForwarding`: all forwarders block on standard input |
| `unfiltered` (violation) | p1, p2, s1 | `OnlyWantedTopics`: the row is used before it is filled in |
| `crosstalk` (violation) | p1, s1, s2 | `FaithfulFields`: strtok's pointer is shared |
| `sampler` | two publishers in a directory, one failing call, one message each on top of files of an earlier day, rows with any of the words | `OneRunner`, `UndisturbedIsWhole` |
| `sampler_topics` (violation) | one publisher | `FieldsMatchTopics`: the numbers that go out are not those of the topics |
| `startup` | two brokers, semaphores and connections of an earlier one | `FreshSemaphores`, `OneSocket`, `RestartSucceeds` |
| `echo` | a server and two clients, any of which may be ended | `FaithfulEcho`, `WaitsForRest`, `OnlyKillsHurt`, `EveryoneServed` |

Two clients are the most for which delivery is correct: there is then one
forwarder, and it starts when both registrations are over. From the third client
on, a registration and a forwarder run at the same time, which is what
`unfiltered` and `crosstalk` show; what still holds with any number of clients is
what `registry` checks and `MQTTProofs` proves. What holds of the first two is what
the pair runs check, and `DeliveryProofs` and `CrashProofs` prove it for any names,
topics, subscriptions, limits and bounds.

Shortfalls that are in the models and have no run of their own:

* The README's own example `node1/task/#` (README 44) has a level that `update_sus_info`
  does not know. It takes every unknown first level for mem (lines 425-446) and sends
  `mem/gen`, none of the three topics the README names. That is the case
  `Interested(levels) = {}` of `UnwantedOnlyByFallback`; with the level written as in the
  README's list of topics, `tasks/#`, the filter is right.
* `<node>/+/<level>` with a level other than `gen` keeps all six topics (line 346), the
  case `PlusAbove`; `<node>/<topic>/+` keeps only the topic of the last branch
  (`PlusBelow`).
* `subscribed_info` is never initialised (line 228) and `update_sus_info` stores nothing
  but -1: a -1 that the stack has left removes a topic from any subscription.
  `LostOnlyByResidue` says that nothing else does.
* `<node>/<topic>`, the form of the usage text (sub_client.c:24), has no second level:
  `update_sus_info` follows a null pointer (`Dereferences`).
* The client after the last list entry overwrites the pointer `sem_control` (line 191) and
  the first names (lines 236-238), and the broker faults at line 246 (`ControlFault`).
  Until then the descriptors and subscriptions of the rows, the lock and the semaphores
  are as they should be, which is what `registry` checks.
* With exactly `LIMIT_CONN_CLIENTS` clients, one of which follows a node that is not
  connected, the search of line 274 meets no NULL and ends the broker (`RunsOff`).
* top.txt is never truncated (exec_top.c:43): a row that an older, longer run of top(1)
  has left at its end is selected by grep too, and one with Cpu or Tasks in it stands in
  front of the lines of info.txt whose tokens are sent. `UndisturbedIsWhole` says that
  this is the only way into an undisturbed message for an old token, and that `cpu/gen`
  and `cpu/sys` are new even then.
* Without its condition `FreshSemaphores` fails: a broker that opens `/mutex` after
  another one has created it, registered a client and died holding it, starts with a mutex
  of 0. Both must have been started at the same time, since `sem_open` has no `O_EXCL`.
* A start that fails at `listen` has already removed the log of the broker that runs (line
  60).

**Bounds.** `MaxMsgs` messages per publisher and `MaxBacklog` waiting lines; two messages
make a burst and the loss of a message possible, and what the broker reads together with
the handshake is lost in front of a later delivery. `MayStop` allows SIGINT, in `pair`
only: next to a forwarder and a registration, that is, where the order and wholeness of
messages are checked; the state space of the three-client runs leaves no room for it, and
the theorems hold with it. The runs with three clients have at most one message and one
waiting line: what they check is the registration and the choice of rows, and bursts
belong to the pair runs. `TOPICS_NUMBER` is 3 where order and filtering matter (one field
below, between and above), 2 or 1 elsewhere; the code has 6. `LIMIT_CONN_CLIENTS` is 2 to
4 instead of 10, so that full and overrun lists are reached with three clients. `StdinEOF`
says whether the broker was started with a closed standard input. `Sampler`: `MaxProcs` 2
processes per publisher (a process and the child it waits for), `MaxMsgs` 1 in `sampler`:
a round meets the files of an earlier day or of the other publisher's rounds, and rounds
whose message is not sent go on; `RowWords` and `MaxRows`, one row that holds Cpu and
Tasks, or Mem; `MaxFaults` 1 call that fails; the load of the machine only matters to
`sampler_topics`. `Startup`: two processes are enough for every race on a name or on the
port, the broker before them is in the initial state; two addresses, `MaxClients` 2 so
that `sem_control` is posted. `Echo`: `MAXLINE` 4 instead of 8192, so that lines are cut,
and `RIO_BUFSIZE` 2, so that a line needs several reads.

Deadlock is not checked: with bounded messages the system comes to rest with all
threads in `read()`, and after the broker's end with all clients gone; the same
holds for the other modules.

**Fairness.** Weak fairness for every thread and every started process: the scheduler runs
whoever can run, the publisher's loop never ends by itself. No fairness for starting or
ending a client, a broker or a server, or for SIGINT, though a `sig_handler` that has
begun goes on, and in `Startup` none for clients that connect. Weak fairness is enough for
`sem_wait`, because every client registers once. In `Echo` a client's standard input is a
file, so `fgets` returns. `Sampler` has no fairness: its properties are invariants.

## Proofs

`TopicsProofs`, for any subscriptions of at least one level and any content of the stack:
`UnwantedOnlyByFallbackHolds` and `LostOnlyByResidueHolds`. `FilterInv` records what
`subscribed_info` and the row hold after each statement; `KeepsCovered` and
`ExcludesUncovered` compare every branch of `update_sus_info` with the README's meaning of two
levels (`Covers`).

`MQTTProofs`, for any finite set of clients, any names, subscriptions, limits and
bounds (assumptions: the named `ASSUME`s of `Broker` and `MQTT`):

* `TypeCorrect` and `RegistrationExclusive`. `TypeOK` is not inductive: `olds` and `cur`
  are only well-formed because a thread in `split()` has set them (`Shape`), `mutex` only
  stays below 2 because it is 0 while a thread registers (`MutexInv`), and `fd_idx` only
  stays inside the lists because the registration that would leave them has overwritten
  `sem_control` (`BoundInv`).
* `LockFreeReads` and `ForwardingStartsLate`. The row invariant says that counted rows
  belong to clients whose registration is over (`CountedRows`), that row `fd_idx` belongs
  to the thread in the critical section as far as it got (`OpenRow`), that nothing else is
  visible behind it (`NothingBehind`), and that `sem_control` is positive only with two
  clients (`TwoClients`). Of the names it says that they are the clients' own as long as
  `sem_control` has not been overwritten: the registration that does that goes on to
  overwrite names (`OverrunStore`), and descriptors and subscriptions of the rows outlast
  it.
* `OneThreadStaysOut`: the balance of `sem_control`, by cardinality of the set of
  forwarding threads.

`StartupProofs`, for any finite set of broker processes and any address list
(assumptions: the named `ASSUME`s of `Startup`):

* `OneSocketHolds`. `SocketInv` says how many sockets are open at each place of
  `open_listenfd`.
* `FreshSemaphoresHold`. `FreshSemaphores` says nothing of how a broker came to its
  semaphores; `SemInv` follows them. Nobody has a semaphore before its creator
  (`NotYet`); a start that does not overlap is the only one in the set-up (`Apart`),
  so that the name stays free between its unlink and its open (`NameFree`) and it
  opens a semaphore of its own (`Own`); a later start unlinks that name before it
  opens it, so that nobody else ever has the semaphore (`Mine`) and its value is
  untouched until a client is accepted (`Untouched`).

`SamplerProofs`, for any finite set of publishers and any bounds (assumptions: the
named `ASSUME`s of `Sampler`):

* `OneRunnerHolds`. A process waits only for the one it has forked, which has the next
  higher number (`WaitsBelow`), and of a publisher's processes only the last one runs;
  both together are kept when a call of `execv` fails and the child goes on as a second
  publisher.
* `UndisturbedHolds`, with any number of rows and any words in them. `UndisturbedIsWhole`
  speaks of a message that has been sent; `RoundInv` says how an undisturbed round gets
  there: behind `top(1)` the lines in front of the rows are new (`NewTop`); before the
  k-th `grep` the part of info.txt below the offset begins with the new line of the
  processors, has the line of the tasks behind it, and is new as a whole unless a row of
  an older run with Cpu or Tasks in it is left (`Taken`, `StaleRow`); and after the third
  the line of the memory stands behind that (`AllTaken`). The positions of pub_client.c
  all lie in front of the end of that line, those of `cpu/gen` and `cpu/sys` in the first
  line (`TakenTokens`: at least 36 tokens, the last position is 35). That the process with
  that round is the one that makes the step is `OneRunner`. `FileTypes` says what a file
  may hold and `WritesInv` what a helper finds where it writes, in disturbed rounds as
  well: the files they leave behind are those the next undisturbed round starts from.
  `grep` and `strtok` go through a file of any length; the tables of their partial results
  exist by the well-foundedness of the natural numbers (`UpTo`, `Table`), which
  `MatchingUnfolds` and `TokensUnfold` then use.

`ForwarderProofs`, `DeliveryProofs` and `CrashProofs` state their results as long as
`Few`: at most two clients have ever been accepted. `Few` is no assumption on the
constants. The set of clients, their names, subscriptions and topics are any, and a
behaviour counts up to its third `accept`, where `unfiltered` and `crosstalk` show
that the results end. The argument:

1. One thread at a time (`Solo`, lemma `Alone`). `sem_control` is positive only with two
   registered clients (`MQTTProofs`), and then holds 1: one of the two threads
   forwards, the other has left its registration and waits. An overwritten
   `sem_control` stops the registration that did it (`BadInv`).
2. So nobody shares strtok's static pointer (`SplitInv`: it is in the line of the one
   thread that is in `split()`, at the token behind those it has got), the rows are
   those of `update_sus_info` (`TopicInv`), behind the names of the clients the list
   holds NULL or, in its last place, `thread_ID[0]` (`NameInv`), and a forwarder that
   serves a row has the descriptors of that row's publisher and subscriber
   (`ServeInv`).
3. What is in a publisher's socket, behind what was dropped with the `rio_t` of line
   131, is its handshake and then its messages in order (`StreamInv`, with `Off` for
   what has been read), and the line in the forwarder's buffer is older than all of
   them (`BufInv`).
4. What a subscriber has been sent is all of one publisher (`PartnersInv`), every
   message in it is complete except for one that a thread is writing just now, which
   has got as far as the thread's loop over the fields (`ProgressInv`, with `Complete`
   and `Halfway`), and the line about to be forwarded is newer than the last one that
   was sent (`OlderInv`).
5. `TxHolds`: `OnlyWantedTopicsHolds`, `FaithfulFieldsHolds`, `WholeMessagesHold`. The
   write of a field is a `Deliver` of `PubSub` (`WriteDelivers`): the message continues
   from the field written last, or begins when the one before it is complete. Every
   other step is `Publish`, `End` or a stutter: `ServiceProvided`.
6. `CrashCause`: with the row invariants of `MQTTProofs` and 1 to 4, no thread looks up a name
   that is not in the lists, follows a null pointer or leaves the lists
   (`FaultCause`), nothing is ever written to a publisher (`QuietInv`), and a client
   closes its end only when it ends (`EndInv`). What is left is a client that has
   gone. `WellFormed` says which clients this needs: no two names are equal, a
   subscription of two levels is `<node>/#` (the other one is the null pointer
   described above), and the lists have more than two entries.

`EchoProofs`, for any clients, inputs, `MAXLINE` and `RIO_BUFSIZE`:
`FaithfulEchoHolds`, `WaitsForRestHolds` and `OnlyKillsHurtHolds`. None of the three
says where the bytes are between two rounds; `TalkInv` does, as long as the server
runs and for every client that has not been killed: a client is silent (`Nothing`),
or its line is spread over its buffer, the connection and the server's two buffers in
this order (`Asking`), or the rest of the answer over the server's buffer, the
connection and the client's two buffers (`Answering`). A line ends where it is cut and
not before (`IsLine`, `LineReached`), so that both sides agree when a line is
complete; that `fgets` finds such a line uses the well-foundedness of the natural
numbers. A client that leaves by itself has nothing on the way, hence the server
never writes to it and never meets its reset.

Model checked only:

* The liveness properties (`EventuallyRegistered`, `ConstantForwarding`,
  `HeadIsPrinted`, `ClientsFollow`, `RestartSucceeds`, `EveryoneServed`): the prover
  has no rules for fairness and `ENABLED`.

## Plan

1. Which fields are right: `sampler_topics` refutes `FieldsMatchTopics` with every load;
   a run with `Loads = {"normal"}` for the fields that are, and its theorem.
2. The log: lines that a crash leaves in the buffer of stdout.

## Not modelled

* `write_log` and the redirection to `log_broker.txt`: wording and formatting.
* The allocation of `full_info` (pub_client.c:127), five bytes short, and `strcat`
  onto fresh memory: this depends on the allocator.
* Signals to a single process of a publisher's chain, job control, an unwritable
  directory.
* The textbook wrappers of `csapp.c` that nothing calls (processes, signals, mmap,
  stdio, pthreads, `rio_readn`, `rio_readnb`), `common.c` (a copy that is not
  linked), `find_topic_by_name` (never called), `prototypes/trash`.
