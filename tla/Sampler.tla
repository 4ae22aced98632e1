------------------------------ MODULE Sampler ------------------------------
(***************************************************************************)
(* How a publisher comes by its messages (pub_client.c, exec_top.c and     *)
(* exec_grep.c).  In every round of its loop it forks a child that execs   *)
(* ./exec_top, which runs top(1) into top.txt, then one that execs         *)
(* ./exec_grep, which runs grep(1) three times into info.txt; then it      *)
(* picks tokens out of info.txt and writes them to the broker.             *)
(*                                                                         *)
(* The files belong to the directory, hence to all publishers started in   *)
(* it, and are opened without O_TRUNC.  A child whose execv() fails is not *)
(* ended: it returns into the loop of main() as a second publisher on the  *)
(* same connection.  <<p, i>> is the i-th process of publisher p, each one *)
(* a child of the one before it.  The helper programs run while the        *)
(* process that started them is in waitpid(), so their steps are steps of  *)
(* that process.                                                           *)
(*                                                                         *)
(* A file is its sequence of lines, a line its kind, the load it shows,    *)
(* which of the words that exec_grep looks for are in it and whether it is *)
(* from the latest run of top(1); lines that no grep selects are left out. *)
(***************************************************************************)
EXTENDS Integers, Sequences

CONSTANTS
  Pubs,         \* publishers started in one directory
  Loads,        \* loads top(1) may meet, out of "normal", "idle" and "busy"
  ForkFails,    \* places where fork() may fail
  ExecFails,    \* programs whose exec may fail
  RowWords,     \* what the row of a process may hold of the three words
  MaxRows,      \* bound on the rows that hold one
  MaxProcs,     \* bound on the processes of one publisher
  MaxMsgs,      \* bound on the messages of one publisher
  MaxFaults,    \* bound on the forks and execs that fail
  NULL          \* a file that does not exist, no message

ASSUME LoadsAssumption == Loads \subseteq {"normal", "idle", "busy"}
ASSUME FailsAssumption ==
  /\ ForkFails \subseteq {"update", "exec_top", "filter", "exec_grep"}
  /\ ExecFails \subseteq {"exec_top", "top", "exec_grep", "grep"}

ASSUME RowsAssumption == RowWords \subseteq SUBSET {"Cpu", "Tasks", "Mem"} /\ MaxRows \in Nat

\* What a line of the files may be.
Lines ==
  [kind : {"tasks", "cpu", "mem", "swap", "row", "err"},
   load : {"normal", "idle", "busy"},
   words : SUBSET {"Cpu", "Tasks", "Mem"},
   new : BOOLEAN]

\* The mark of a file that does not exist is not a file.
ASSUME NoFileAssumption == NULL \notin Seq(Lines)
ASSUME SamplerBounds == MaxProcs \in Nat \ {0} /\ MaxMsgs \in Nat /\ MaxFaults \in Nat

Procs == Pubs \X (1 .. MaxProcs)
Child(x) == <<x[1], x[2] + 1>>

VARIABLES
  pc,           \* where each process is; "none" if there is no such process
  ret,          \* where a process in waitpid() goes on
  stage,        \* which of its three commands exec_grep runs
  off,          \* the offset of info.txt that the three share
  top_txt, info_txt,
  faults,       \* forks and execs that have failed
  link,         \* connection of a publisher: "up" | "down" | "reset"
  sent,         \* number of messages of a publisher
  full_info,    \* its message between Rio_writen and free
  mine          \* history: in this round p has run the latest top(1), nothing
                \* has failed and nobody else has written into the files

files == <<top_txt, info_txt>>
vars == <<pc, ret, stage, off, files, faults, link, sent, full_info, mine>>

-----------------------------------------------------------------------------
(* Lines and tokens.                                                       *)

\* The words in the lines in front of the rows; "avail Mem" ends the line of
\* the swap space.
WordsIn == [tasks |-> {"Tasks"}, cpu |-> {"Cpu"}, mem |-> {"Mem"}, swap |-> {"Mem"}, err |-> {}]

LineOf(kind, load) == [kind |-> kind, load |-> load, words |-> WordsIn[kind], new |-> TRUE]
Aged(lines) == [k \in DOMAIN lines |-> [lines[k] EXCEPT !.new = FALSE]]

\* What top(1) writes first, and behind it the rows of the processes.
Header(load) ==
  <<LineOf("tasks", load), LineOf("cpu", load), LineOf("mem", load), LineOf("swap", load)>>
Row(load, words) == [kind |-> "row", load |-> load, words |-> words, new |-> TRUE]
Rows(load) ==
  UNION {[1 .. n -> {Row(load, words) : words \in RowWords}] : n \in 0 .. MaxRows}

\* The three commands are "grep Cpu", "grep Tasks" and "grep Mem".
Selects == <<"Cpu", "Tasks", "Mem">>

\* Every line with that word in it, the name of a process included
\* (SelectSeq, as a function that proofs can unfold).
Matching(lines, word) ==
  LET upTo[n \in 0 .. Len(lines)] ==
        CASE n = 0 -> <<>>
          [] n > 0 /\ word \in lines[n].words -> Append(upTo[n - 1], lines[n])
          [] OTHER -> upTo[n - 1]
  IN  upTo[Len(lines)]

\* Mutant of Overwrite: the file is opened with O_APPEND.
AppendTo(file, at, lines) == file \o lines

\* Lines written at an offset of a file that is not truncated.
Overwrite(file, at, lines) ==
  SubSeq(file, 1, at) \o lines \o SubSeq(file, at + Len(lines) + 1, Len(file))

Content(file) == IF file = NULL THEN <<>> ELSE file

\* "label" is any token that is not a number.  A percentage of 100.0 leaves
\* no blank before it, so it is glued to the label in front of it.
Percentage(word, glued) == IF glued THEN <<>> ELSE <<word>>

LineTokens(line) ==
  CASE line.kind = "cpu" ->
         <<"label">> \o Percentage("us", line.load = "busy")
           \o <<"label", "sy", "label", "ni", "label">>
           \o Percentage("id", line.load = "idle")
           \o <<"label", "wa", "label", "hi", "label", "si", "label", "st", "label">>
    [] line.kind = "tasks" ->
         <<"label", "total", "label", "running", "label", "sleeping", "label",
           "stopped", "label", "zombie", "label">>
    [] line.kind = "mem" ->
         <<"label", "label", "label", "memtotal", "label", "memfree", "label",
           "memused", "label", "buffcache", "label">>
    [] line.kind = "swap" ->
         <<"label", "label", "swaptotal", "label", "swapfree", "label",
           "swapused", "label", "avail", "label", "label", "label">>
    [] line.kind = "row" -> [k \in 1 .. 13 |-> "column"]
    [] line.kind = "err" -> [k \in 1 .. 7 |-> "label"]

Tagged(line) ==
  LET words == LineTokens(line)
  IN  [k \in DOMAIN words |-> [what |-> words[k], new |-> line.new]]

\* separar_tokens(read_buffer, " ", info_list): a line break is no delimiter,
\* so the last token of a line and the first of the next are one.  (A blank
\* ends the line of the swap space and starts a row: there the token that the
\* two share is the line break, or the token in front of it.)
separar_tokens(lines) ==
  LET upTo[n \in 0 .. Len(lines)] ==
        CASE n = 0 -> <<>>
          [] n = 1 -> Tagged(lines[1])
          [] OTHER -> upTo[n - 1] \o Tail(Tagged(lines[n]))
  IN  upTo[Len(lines)]

\* The positions of pub_client.c, counted from 0: tasks/gen, tasks/run,
\* tasks/sleep, cpu/gen, cpu/sys, and the two numbers of mem/gen.
Positions == <<17, 21, 23, 1, 5, 35, 29>>

\* What join_full_info puts together; mem/gen is made of two tokens.
Pick(tokens) == [k \in DOMAIN Positions |-> tokens[Positions[k] + 1]]

\* Every position the code looks at was stored by separar_tokens.
Enough(tokens) == \A k \in DOMAIN Positions : Positions[k] < Len(tokens)

Junk == [k \in DOMAIN Positions |-> [what |-> "junk", new |-> FALSE]]

-----------------------------------------------------------------------------
\* The directory may hold the files of an earlier day.
Init ==
  /\ pc = [x \in Procs |-> IF x[2] = 1 THEN "update" ELSE "none"]
  /\ ret = [x \in Procs |-> "none"]
  /\ stage = [x \in Procs |-> 1]
  /\ off = [x \in Procs |-> 0]
  /\ \/ top_txt = NULL /\ info_txt = NULL
     \/ \E rows \in Rows("normal") :
          LET old == Header("normal") \o rows
          IN  /\ top_txt = Aged(old)
              /\ info_txt = Aged(Matching(old, "Cpu") \o Matching(old, "Tasks")
                                   \o Matching(old, "Mem"))
  /\ faults = 0
  /\ link = [p \in Pubs |-> "up"]
  /\ sent = [p \in Pubs |-> 0]
  /\ full_info = [p \in Pubs |-> NULL]
  /\ mine = [p \in Pubs |-> FALSE]

Goes(x, from, to) == pc[x] = from /\ pc' = [pc EXCEPT ![x] = to]

\* The round of p ends, or something fails in it: what it publishes may be
\* older than the round.
Spoils(p) == mine' = [mine EXCEPT ![p] = FALSE]

\* One of the calls that may fail does.
Fails(p, call, calls) ==
  /\ call \in calls
  /\ faults < MaxFaults
  /\ faults' = faults + 1
  /\ Spoils(p)

\* The helpers of p write into a file that the others use too.
Disturbs(p, own) == mine' = [q \in Pubs |-> q = p /\ own]

\* fork() fails in update_top_file or filter_top_file: waitpid(-1) returns at
\* once, there is no child.
ForkFailed(x, at, next) ==
  /\ Goes(x, at, next)
  /\ Fails(x[1], at, ForkFails)
  /\ UNCHANGED <<ret, stage, off, files, link, sent, full_info>>

\* Mutant of Waits: the parent does not wait.
GoesOnAtOnce(x, next) == next

\* The parent is in waitpid().
Waits(x, next) == "wait"

\* execv() fails in the child, which goes on behind its own waitpid(0, ..),
\* an error because it has no child.
ExecFailed(x, at, program, next) ==
  /\ pc[x] = at
  /\ Fails(x[1], program, ExecFails)
  /\ x[2] < MaxProcs
  /\ pc' = [pc EXCEPT ![x] = Waits(x, next), ![Child(x)] = next]
  /\ ret' = [ret EXCEPT ![x] = next]
  /\ UNCHANGED <<stage, off, files, link, sent, full_info>>

\* waitpid() returns: the child has ended.
Resume(x) ==
  /\ pc[x] = "wait"
  /\ pc[Child(x)] = "none"
  /\ pc' = [pc EXCEPT ![x] = ret[x]]
  /\ ret' = [ret EXCEPT ![x] = "none"]
  /\ UNCHANGED <<faults, stage, off, files, link, sent, full_info, mine>>

-----------------------------------------------------------------------------
(* update_top_file and exec_top.c.                                         *)

StartTop(x) ==
  /\ Goes(x, "update", "exec_top")
  /\ link[x[1]] = "up" => sent[x[1]] < MaxMsgs
  /\ UNCHANGED <<faults, ret, stage, off, files, link, sent, full_info, mine>>

\* exec_top cannot fork: its loop around waitpid(-1, ..) never ends.
Spin(x) ==
  /\ Goes(x, "exec_top", "spin")
  /\ Fails(x[1], "exec_top", ForkFails)
  /\ UNCHANGED <<ret, stage, off, files, link, sent, full_info>>

\* No top(1): the child of exec_top prints a line over the first line of
\* top.txt, which no grep selects.
TopMissing(x) ==
  /\ Goes(x, "exec_top", "filter")
  /\ Fails(x[1], "top", ExecFails)
  /\ top_txt' = Content(top_txt)
  /\ UNCHANGED <<ret, stage, off, info_txt, link, sent, full_info>>

TopHeader(x) ==
  /\ Goes(x, "exec_top", "top")
  /\ \E load \in Loads :
       top_txt' = Overwrite(Aged(Content(top_txt)), 0, Header(load))
  /\ info_txt' = IF info_txt = NULL THEN NULL ELSE Aged(info_txt)
  /\ Disturbs(x[1], TRUE)
  /\ UNCHANGED <<faults, ret, stage, off, link, sent, full_info>>

\* The rows behind it; a longer older file keeps its end.
TopRows(x) ==
  /\ Goes(x, "top", "filter")
  /\ \E rows \in Rows(top_txt[1].load) : top_txt' = Overwrite(top_txt, 4, rows)
  /\ Disturbs(x[1], mine[x[1]])
  /\ UNCHANGED <<faults, ret, stage, off, info_txt, link, sent, full_info>>

-----------------------------------------------------------------------------
(* filter_top_file and exec_grep.c.                                        *)

StartGrep(x) ==
  /\ Goes(x, "filter", "grep")
  /\ stage' = [stage EXCEPT ![x] = 1]
  /\ off' = [off EXCEPT ![x] = 0]
  /\ info_txt' = Content(info_txt)
  /\ UNCHANGED <<faults, ret, top_txt, link, sent, full_info, mine>>

NextCommand(x) ==
  /\ Goes(x, "grep", IF stage[x] = 3 THEN "info" ELSE "grep")
  /\ stage' = [stage EXCEPT ![x] = IF @ = 3 THEN 1 ELSE @ + 1]

\* What the command prints; standard error goes to info.txt as well.
Selected(k) ==
  IF top_txt = NULL THEN <<LineOf("err", "normal")>>
  ELSE Matching(top_txt, Selects[k])

\* open_program: fork, execvp and waitpid for one of the three commands.
Grep(x) ==
  /\ NextCommand(x)
  /\ info_txt' = Overwrite(info_txt, off[x], Selected(stage[x]))
  /\ off' = [off EXCEPT ![x] = IF stage[x] = 3 THEN 0 ELSE @ + Len(Selected(stage[x]))]
  /\ Disturbs(x[1], mine[x[1]])
  /\ UNCHANGED <<faults, ret, top_txt, link, sent, full_info>>

\* fork() fails in open_program.
SkipGrep(x) ==
  /\ NextCommand(x)
  /\ Fails(x[1], "exec_grep", ForkFails)
  /\ off' = [off EXCEPT ![x] = IF stage[x] = 3 THEN 0 ELSE @]
  /\ UNCHANGED <<ret, files, link, sent, full_info>>

\* No grep(1): each child goes on with the commands behind its own, and none
\* of them writes anything.
GrepMissing(x) ==
  /\ Goes(x, "grep", "info")
  /\ stage[x] = 1
  /\ Fails(x[1], "grep", ExecFails)
  /\ UNCHANGED <<ret, stage, off, files, link, sent, full_info>>

-----------------------------------------------------------------------------
(* update_send_info and Rio_writen, lines 67-70.                           *)

Tokens == separar_tokens(Content(info_txt))

\* The process ends; its parent, if it has one, is in waitpid().
Dies(x) == Goes(x, "info", "none")

\* A position that separar_tokens did not store is a null pointer or one that
\* an earlier round, or the memory behind the text, left there.
Messages == IF Enough(Tokens) THEN {Pick(Tokens)} ELSE {Junk}

\* A row that the latest top(1) has not reached, which the first two commands
\* have selected: it stands in front of later lines of info.txt.
StaleRow ==
  \E k \in DOMAIN Content(top_txt) :
    ~top_txt[k].new /\ top_txt[k].words \cap {"Cpu", "Tasks"} # {}

Publish(x) ==
  /\ link[x[1]] = "up"
  /\ Goes(x, "info", "sent")
  /\ sent' = [sent EXCEPT ![x[1]] = @ + 1]
  /\ \E m \in Messages :
       full_info' = [full_info EXCEPT ![x[1]] =
                       [tokens |-> m, mine |-> mine[x[1]], stale |-> StaleRow]]
  /\ Spoils(x[1])
  /\ UNCHANGED <<faults, ret, stage, off, files, link>>

\* free(full_info), and round again.
Free(x) ==
  /\ Goes(x, "sent", "update")
  /\ full_info' = [full_info EXCEPT ![x[1]] = NULL]
  /\ UNCHANGED <<faults, ret, stage, off, files, link, sent, mine>>

Segfault(x) ==
  /\ Dies(x)
  /\ ~Enough(Tokens)
  /\ UNCHANGED <<faults, ret, stage, off, files, link, sent, full_info, mine>>

\* The first write to a dead broker is lost and answered by a reset.
PublishLost(x) ==
  /\ link[x[1]] = "down"
  /\ Goes(x, "info", "update")
  /\ link' = [link EXCEPT ![x[1]] = "reset"]
  /\ Spoils(x[1])
  /\ UNCHANGED <<faults, ret, stage, off, files, sent, full_info>>

\* SIGPIPE.
PublishBroken(x) ==
  /\ link[x[1]] = "reset"
  /\ Dies(x)
  /\ UNCHANGED <<faults, ret, stage, off, files, link, sent, full_info, mine>>

\* The broker ends, for all its clients.
BrokerGone ==
  /\ \A p \in Pubs : link[p] = "up"
  /\ link' = [p \in Pubs |-> "down"]
  /\ UNCHANGED <<faults, pc, ret, stage, off, files, sent, full_info, mine>>

-----------------------------------------------------------------------------
Step(x) ==
  \/ StartTop(x) \/ Spin(x) \/ TopMissing(x) \/ TopHeader(x) \/ TopRows(x)
  \/ ForkFailed(x, "update", "filter") \/ ForkFailed(x, "filter", "info")
  \/ ExecFailed(x, "update", "exec_top", "filter")
  \/ ExecFailed(x, "filter", "exec_grep", "info")
  \/ StartGrep(x) \/ Grep(x) \/ SkipGrep(x) \/ GrepMissing(x)
  \/ Publish(x) \/ Free(x) \/ Segfault(x) \/ PublishLost(x) \/ PublishBroken(x)
  \/ Resume(x)

Next == (\E x \in Procs : Step(x)) \/ BrokerGone

Spec == Init /\ [][Next]_vars

-----------------------------------------------------------------------------
(* Properties.                                                             *)

\* A child whose execv() failed goes on in the loop of main(), but every
\* process above it stays in waitpid() (lines 86 and 98): however many
\* processes a publisher has become, exactly one of them is not waiting for
\* another, so one process writes to the connection and nobody is stuck.
OneRunner ==
  \A x, y \in Procs :
    x[1] = y[1] /\ x[2] < y[2] /\ pc[y] # "none" => pc[x] = "wait" /\ ret[x] # "none"

\* If nothing fails and no other publisher of the directory writes meanwhile,
\* the tokens of cpu/gen and cpu/sys are of the round's own run of top(1),
\* whatever longer or broken files earlier rounds have left behind (the files
\* are opened without O_TRUNC, exec_top.c line 43, exec_grep.c line 32); and
\* all tokens are, unless a row that an older run has left at the end of
\* top.txt has "Cpu" or "Tasks" in it.
UndisturbedIsWhole ==
  \A p \in Pubs : full_info[p] # NULL /\ full_info[p].mine =>
    \A k \in DOMAIN Positions :
      Positions[k] \in {1, 5} \/ ~full_info[p].stale => full_info[p].tokens[k].new

\* README: tasks/run are the running tasks, tasks/sleep the sleeping ones,
\* cpu/sys the system usage, mem/gen the usage of the RAM, and so on: what a
\* publisher sends for a topic is the number that belongs to it.
FieldsMatchTopics ==
  \A p \in Pubs : full_info[p] # NULL /\ full_info[p].mine =>
    [k \in DOMAIN Positions |-> full_info[p].tokens[k].what] =
      <<"total", "running", "sleeping", "us", "sy", "memused", "memtotal">>

=============================================================================
