--------------------------- MODULE SamplerProofs ---------------------------
(***************************************************************************)
(* A publisher that has become several processes still runs as one, and    *)
(* what it sends at the end of an undisturbed round is of that round as    *)
(* far as no old row stands in between, for any number of publishers,      *)
(* processes, rows and failures.                                           *)
(***************************************************************************)
EXTENDS Sampler, SequenceTheorems, WellFoundedInduction, TLAPS

Places == {"none", "wait", "update", "exec_top", "top", "spin", "filter", "grep", "info", "sent"}

\* Where a process runs, and where a process goes on behind waitpid().
Running == Places \ {"none", "wait"}

ProcTypes ==
  /\ pc \in [Procs -> Places]
  /\ ret \in [Procs -> {"none", "filter", "info"}]

\* y is a descendant of x.
Above(x, y) == x[1] = y[1] /\ x[2] < y[2]

\* Only a process that has a child waits.
WaitsBelow == \A x \in Procs : pc[x] = "wait" => x[2] < MaxProcs /\ ret[x] # "none"

ChainInv == ProcTypes /\ WaitsBelow /\ OneRunner

-----------------------------------------------------------------------------
\* A process is a publisher's and has a number.
LEMMA ProcFacts ==
  /\ \A x \in Procs : x[1] \in Pubs /\ x[2] \in 1 .. MaxProcs
  /\ \A x, y \in Procs : x[1] = y[1] /\ x[2] = y[2] => x = y
  /\ \A x \in Procs : x[2] < MaxProcs =>
       Child(x) \in Procs /\ Child(x)[1] = x[1] /\ Child(x)[2] = x[2] + 1
BY SamplerBounds DEF Procs, Child

\* A step of a running process that has no effect on the others.
LEMMA MoveChain ==
  ASSUME ChainInv, NEW x \in Procs, NEW to \in Running \cup {"none"},
         pc[x] \in Running, pc' = [pc EXCEPT ![x] = to], ret' = ret
  PROVE  ChainInv'
<1> USE DEF ChainInv, ProcTypes, Running, Places
<1>1. ProcTypes'
  OBVIOUS
<1>2. WaitsBelow'
  BY DEF WaitsBelow
<1>3. OneRunner'
  <2> SUFFICES ASSUME NEW y \in Procs, NEW z \in Procs, Above(y, z), pc'[z] # "none"
               PROVE  pc'[y] = "wait" /\ ret'[y] # "none"
    BY DEF OneRunner, Above
  <2>1. pc[z] # "none"
    OBVIOUS
  <2>2. pc[y] = "wait" /\ ret[y] # "none"
    BY <2>1 DEF OneRunner, Above
  <2> QED BY <2>2
<1> QED BY <1>1, <1>2, <1>3

\* A child that could not exec goes on, its parent waits.
LEMMA ExecFailedChain ==
  ASSUME ChainInv, NEW x \in Procs, NEW at \in Running, NEW program,
         NEW next \in {"filter", "info"}, ExecFailed(x, at, program, next)
  PROVE  ChainInv'
<1> USE DEF ChainInv, ProcTypes, Running, Places
<1>1. /\ x[2] < MaxProcs /\ pc[x] = at
      /\ Child(x) \in Procs /\ Child(x)[1] = x[1] /\ Child(x)[2] = x[2] + 1
      /\ pc' = [pc EXCEPT ![x] = "wait", ![Child(x)] = next]
      /\ ret' = [ret EXCEPT ![x] = next]
  BY ProcFacts DEF ExecFailed, Waits
<1>2. Child(x) # x
  BY <1>1, ProcFacts
<1>3. ProcTypes'
  BY <1>1
<1>4. pc'[x] = "wait" /\ pc'[Child(x)] = next /\ ret'[x] = next
  BY <1>1, <1>2
<1>5. \A y \in Procs : y \notin {x, Child(x)} => pc'[y] = pc[y]
  BY <1>1
<1>6. WaitsBelow'
  BY <1>1, <1>4, <1>5 DEF WaitsBelow
<1>7. OneRunner'
  <2> SUFFICES ASSUME NEW y \in Procs, NEW z \in Procs, Above(y, z), pc'[z] # "none"
               PROVE  pc'[y] = "wait" /\ ret'[y] # "none"
    BY DEF OneRunner, Above
  <2>1. CASE y = x
    BY <1>4, <2>1
  <2>2. CASE y # x
    <3>1. ASSUME z = Child(x) PROVE Above(y, x)
      BY <1>1, <2>2, <3>1, ProcFacts DEF Above
    <3>2. pc[y] = "wait" /\ ret[y] # "none"
      BY <1>1, <1>5, <3>1 DEF OneRunner, Above
    <3>3. y # Child(x)
      <4> SUFFICES ASSUME y = Child(x) PROVE FALSE
        OBVIOUS
      <4>1. Above(x, y)
        BY <1>1, ProcFacts DEF Above
      <4> QED BY <1>1, <3>2, <4>1 DEF OneRunner, Above
    <3> QED BY <1>1, <1>5, <2>2, <3>2, <3>3
  <2> QED BY <2>1, <2>2
<1> QED BY <1>3, <1>6, <1>7

\* A process goes on when its child has ended, and all below it with it.
LEMMA ResumeChain ==
  ASSUME ChainInv, NEW x \in Procs, Resume(x)
  PROVE  ChainInv'
<1> USE DEF ChainInv, ProcTypes, Running, Places
<1>1. /\ pc[x] = "wait" /\ pc[Child(x)] = "none"
      /\ pc' = [pc EXCEPT ![x] = ret[x]]
      /\ ret' = [ret EXCEPT ![x] = "none"]
  BY DEF Resume
<1>2. ProcTypes'
  BY <1>1
<1>3. x[2] < MaxProcs
  BY <1>1 DEF WaitsBelow
<1>4. pc'[x] \notin {"wait"} /\ \A y \in Procs : y # x => pc'[y] = pc[y] /\ ret'[y] = ret[y]
  BY <1>1
<1>5. WaitsBelow'
  BY <1>4 DEF WaitsBelow
<1>6. \A z \in Procs : Above(x, z) => pc[z] = "none"
  <2> SUFFICES ASSUME NEW z \in Procs, Above(x, z) PROVE pc[z] = "none"
    OBVIOUS
  <2>1. z = Child(x) \/ Above(Child(x), z)
    BY <1>3, ProcFacts DEF Above
  <2> QED BY <1>1, <1>3, <2>1, ProcFacts DEF OneRunner, Above
<1>7. OneRunner'
  <2> SUFFICES ASSUME NEW y \in Procs, NEW z \in Procs, Above(y, z), pc'[z] # "none"
               PROVE  pc'[y] = "wait" /\ ret'[y] # "none"
    BY DEF OneRunner, Above
  <2>1. y # z
    BY ProcFacts DEF Above
  <2>2. pc[z] # "none"
    BY <1>1, <1>4
  <2>3. y # x
    BY <1>6, <2>2
  <2> QED BY <1>4, <2>2, <2>3 DEF OneRunner, Above
<1> QED BY <1>2, <1>5, <1>7

\* Every step keeps the chain of processes.
LEMMA StepChain == ChainInv /\ [Next]_vars => ChainInv'
<1> SUFFICES ASSUME ChainInv, [Next]_vars PROVE ChainInv'
  OBVIOUS
<1>1. CASE UNCHANGED vars \/ BrokerGone
  BY <1>1 DEF vars, BrokerGone, ChainInv, ProcTypes, WaitsBelow, OneRunner
<1>2. ASSUME NEW x \in Procs, Step(x) PROVE ChainInv'
  <2>1. CASE \/ ExecFailed(x, "update", "exec_top", "filter")
             \/ ExecFailed(x, "filter", "exec_grep", "info")
    BY <2>1, ExecFailedChain DEF Running, Places
  <2>2. CASE Resume(x)
    BY <2>2, ResumeChain
  <2>3. CASE \/ StartTop(x) \/ Spin(x) \/ TopMissing(x) \/ TopHeader(x) \/ TopRows(x)
             \/ ForkFailed(x, "update", "filter") \/ ForkFailed(x, "filter", "info")
    BY <2>3, MoveChain DEF StartTop, Spin, TopMissing, TopHeader, TopRows, ForkFailed, Goes,
       Running, Places
  <2>4. CASE StartGrep(x) \/ Grep(x) \/ SkipGrep(x) \/ GrepMissing(x)
    <3>1. /\ ret' = ret
          /\ pc[x] \in {"filter", "grep"}
          /\ \E to \in {"grep", "info"} : pc' = [pc EXCEPT ![x] = to]
      BY <2>4 DEF StartGrep, Grep, SkipGrep, GrepMissing, NextCommand, Goes
    <3> QED BY <3>1, MoveChain DEF Running, Places
  <2>5. CASE Publish(x) \/ Free(x) \/ Segfault(x) \/ PublishLost(x) \/ PublishBroken(x)
    BY <2>5, MoveChain DEF Publish, Free, Segfault, PublishLost, PublishBroken, Dies, Goes,
       Running, Places
  <2> QED BY <1>2, <2>1, <2>2, <2>3, <2>4, <2>5 DEF Step
<1> QED BY <1>1, <1>2 DEF Next

\* A publisher starts as one process.
LEMMA InitChain == Init => ChainInv
BY ProcFacts DEF Init, ChainInv, ProcTypes, WaitsBelow, OneRunner, Places

\* However many processes a publisher has become through failed execs, the
\* last of them runs and all others wait for it (lines 86 and 98).
THEOREM OneRunnerHolds == Spec => []OneRunner
<1>1. ChainInv => OneRunner
  BY DEF ChainInv
<1> QED BY <1>1, InitChain, StepChain, PTL DEF Spec

\* What the first four lines are, and what the three commands take first.
Heads == <<"tasks", "cpu", "mem", "swap">>
Kinds == <<"cpu", "tasks", "mem">>

\* A file that top(1) has written from its beginning.
IsTop(file) ==
  /\ file \in Seq(Lines) /\ Len(file) >= 4
  /\ \A k \in 1 .. 4 : file[k].kind = Heads[k] /\ file[k].words = WordsIn[Heads[k]]

FileTypes ==
  /\ off \in [Procs -> Nat] /\ stage \in [Procs -> 1 .. 3]
  /\ link \in [Pubs -> {"up", "down", "reset"}] /\ mine \in [Pubs -> BOOLEAN]
  /\ DOMAIN full_info = Pubs
  /\ top_txt \in {NULL, <<>>} \/ IsTop(top_txt)
  /\ info_txt = NULL \/ info_txt \in Seq(Lines)

\* What is there where a helper program writes.
WritesInv ==
  /\ \A x \in Procs : pc[x] = "top" => IsTop(top_txt)
  /\ \A x \in Procs : pc[x] = "grep" => info_txt # NULL /\ off[x] <= Len(info_txt)

\* The lines in front of the rows are of the latest run of top(1).
NewTop == IsTop(top_txt) /\ \A k \in 1 .. 4 : top_txt[k].new

\* The first n lines of info.txt are those that the first s of the commands
\* "grep Cpu" and "grep Tasks" have taken.
Taken(file, n, s) ==
  /\ file \in Seq(Lines) /\ n \in 0 .. Len(file)
  /\ s = 0 => n = 0
  /\ s >= 1 => n >= 1 /\ file[1].kind = "cpu" /\ file[1].new
  /\ s >= 2 => \E i \in 2 .. n : file[i].kind = "tasks"
  /\ StaleRow \/ \A i \in 1 .. n : file[i].new

\* Behind them stands the line of the memory.
AllTaken(file) ==
  \E j \in 1 .. Len(file) : Taken(file, j - 1, 2) /\ file[j].kind = "mem" /\ file[j].new

\* How far the round of x has got.
Round(x) ==
  /\ NewTop
  /\ \/ pc[x] \in {"top", "filter"}
     \/ pc[x] = "grep" /\ Taken(info_txt, off[x], stage[x] - 1)
     \/ pc[x] = "info" /\ AllTaken(info_txt)

RoundInv ==
  \A p \in Pubs : mine[p] /\ link[p] = "up" => \E x \in Procs : x[1] = p /\ Round(x)

SampleInv == ChainInv /\ FileTypes /\ WritesInv /\ RoundInv /\ UndisturbedIsWhole

-----------------------------------------------------------------------------
(* Recursion over the lines of a file.                                     *)

\* What holds of 0 and goes on from each number to the next one holds up to N.
LEMMA UpTo ==
  ASSUME NEW N \in Nat, NEW S, 0 \in S, \A n \in 0 .. N - 1 : n \in S => n + 1 \in S
  PROVE  0 .. N \subseteq S
<1> DEFINE T == (0 .. N) \ S
           R == OpToRel(<, Nat)
<1> SUFFICES ASSUME T # {} PROVE FALSE
  OBVIOUS
<1>1. T \subseteq Nat
  OBVIOUS
<1>2. IsWellFoundedOn(R, Nat)
  BY NatLessThanWellFounded
<1>3. \E n \in T : \A m \in T : ~(<<m, n>> \in R)
  <2> HIDE DEF T, R
  <2> QED BY <1>1, <1>2, WFMin
<1>4. PICK n \in T : \A m \in T : ~(m < n)
  BY <1>1, <1>3 DEF OpToRel
<1>5. n # 0 /\ n - 1 \in 0 .. N - 1 /\ n - 1 + 1 = n /\ n - 1 < n
  OBVIOUS
<1>6. n - 1 \in S
  <2> SUFFICES ASSUME n - 1 \notin S PROVE FALSE
    OBVIOUS
  <2>1. n - 1 \in T
    BY <1>5
  <2> QED BY <1>4, <1>5, <2>1
<1>7. n \in S
  BY <1>5, <1>6
<1> QED BY <1>7

\* Ways to go on from a value, N times.
Steps(N, V) == [1 .. N -> [V -> V]]

\* The values on the way from a.
Values(N, V, a, t) ==
  {f \in [0 .. N -> V] : f[0] = a /\ \A n \in 1 .. N : f[n] = t[n][f[n - 1]]}

\* There is a table of them.
LEMMA Table ==
  ASSUME NEW N \in Nat, NEW V, NEW a \in V, NEW t \in Steps(N, V)
  PROVE  Values(N, V, a, t) # {}
<1> SUFFICES ASSUME t \in [1 .. N -> [V -> V]]
             PROVE  \E f \in [0 .. N -> V] :
                      f[0] = a /\ \A n \in 1 .. N : f[n] = t[n][f[n - 1]]
  BY DEF Steps, Values
<1> DEFINE good(f, m) == f[0] = a /\ \A n \in 1 .. m : f[n] = t[n][f[n - 1]]
           S == {m \in 0 .. N : \E f \in [0 .. N -> V] : good(f, m)}
<1>1. 0 \in S
  <2> DEFINE f == [n \in 0 .. N |-> a]
  <2>1. f \in [0 .. N -> V] /\ good(f, 0)
    OBVIOUS
  <2>2. 0 \in 0 .. N
    OBVIOUS
  <2> HIDE DEF f, good
  <2> QED BY <2>1, <2>2
<1>2. ASSUME NEW m \in 0 .. N - 1, m \in S PROVE m + 1 \in S
  <2>1. PICK f \in [0 .. N -> V] : good(f, m)
    BY <1>2
  <2>2. m + 1 \in 1 .. N /\ m \in 0 .. N /\ m + 1 \in 0 .. N /\ m + 1 - 1 = m /\ m + 1 # 0
    OBVIOUS
  <2> DEFINE v == t[m + 1][f[m]]
             g == [f EXCEPT ![m + 1] = v]
  <2>3. v \in V
    BY <2>2
  <2>4. g \in [0 .. N -> V] /\ g[m + 1] = v /\ \A n \in 0 .. N : n # m + 1 => g[n] = f[n]
    BY <2>2, <2>3
  <2> HIDE DEF g
  <2>5. g[0] = a /\ g[m] = f[m]
    BY <2>1, <2>2, <2>4
  <2>6. ASSUME NEW n \in 1 .. m + 1 PROVE g[n] = t[n][g[n - 1]]
    <3>1. CASE n = m + 1
      BY <2>2, <2>4, <2>5, <3>1
    <3>2. CASE n # m + 1
      <4>1. n \in 1 .. m /\ n \in 0 .. N /\ n - 1 \in 0 .. N /\ n - 1 # m + 1
        BY <3>2
      <4>2. f[n] = t[n][f[n - 1]] /\ g[n] = f[n] /\ g[n - 1] = f[n - 1]
        BY <2>1, <2>4, <3>2, <4>1
      <4> QED BY <4>2
    <3> QED BY <3>1, <3>2
  <2>7. good(g, m + 1)
    BY <2>5, <2>6
  <2> QED BY <2>2, <2>4, <2>7
<1>3. N \in S
  <2> HIDE DEF S
  <2>1. 0 .. N \subseteq S
    BY <1>1, <1>2, UpTo
  <2> QED BY <2>1
<1> QED BY <1>3

-----------------------------------------------------------------------------
(* Lines.                                                                  *)


\* The program that writes at an offset leaves the lines before it and those
\* behind what it writes.
LEMMA Overwritten ==
  ASSUME NEW f \in Seq(Lines), NEW at \in 0 .. Len(f), NEW g \in Seq(Lines)
  PROVE  /\ Overwrite(f, at, g) \in Seq(Lines)
         /\ Len(Overwrite(f, at, g)) = IF at + Len(g) > Len(f) THEN at + Len(g) ELSE Len(f)
         /\ \A i \in 1 .. at : Overwrite(f, at, g)[i] = f[i]
         /\ \A i \in at + 1 .. at + Len(g) : Overwrite(f, at, g)[i] = g[i - at]
         /\ \A i \in at + Len(g) + 1 .. Len(f) : Overwrite(f, at, g)[i] = f[i]
<1> DEFINE a == SubSeq(f, 1, at)
           b == SubSeq(f, at + Len(g) + 1, Len(f))
<1>1. Len(f) \in Nat /\ Len(g) \in Nat
  OBVIOUS
<1>2. a \in Seq(Lines) /\ Len(a) = at /\ \A i \in 1 .. at : a[i] = f[i]
  <2>1. \A i \in 1 .. at : f[i] \in Lines
    BY <1>1
  <2> QED BY <1>1, <2>1, SubSeqProperties
<1>3. /\ b \in Seq(Lines)
      /\ Len(b) = IF at + Len(g) + 1 <= Len(f) THEN Len(f) - (at + Len(g)) ELSE 0
      /\ \A i \in 1 .. Len(f) - (at + Len(g)) : b[i] = f[at + Len(g) + i]
  <2> DEFINE m == at + Len(g) + 1
  <2>1. m \in Int /\ Len(f) \in Int /\ m = at + Len(g) + 1
    BY <1>1
  <2>2. \A i \in m .. Len(f) : f[i] \in Lines
    BY <1>1
  <2> HIDE DEF m
  <2>3. /\ SubSeq(f, m, Len(f)) \in Seq(Lines)
        /\ Len(SubSeq(f, m, Len(f))) = IF m <= Len(f) THEN Len(f) - m + 1 ELSE 0
        /\ \A i \in 1 .. Len(f) - m + 1 : SubSeq(f, m, Len(f))[i] = f[m + i - 1]
    BY <2>1, <2>2, SubSeqProperties
  <2>4. SubSeq(f, m, Len(f)) = b
    BY <2>1
  <2> QED BY <1>1, <2>1, <2>3, <2>4
<1> HIDE DEF a, b
<1> DEFINE ag == a \o g
           ab == ag \o b
<1>4. PICK p \in Nat : p = at + Len(g)
  BY <1>1
<1>5. /\ ag \in Seq(Lines) /\ Len(ag) = p
      /\ \A i \in 1 .. at : ag[i] = f[i]
      /\ \A i \in at + 1 .. p : ag[i] = g[i - at]
  <2>1. /\ a \o g \in Seq(Lines) /\ Len(a \o g) = Len(a) + Len(g)
        /\ \A i \in 1 .. Len(a) + Len(g) : (a \o g)[i] = IF i <= Len(a) THEN a[i] ELSE g[i - Len(a)]
    BY <1>2, ConcatProperties
  <2>2. /\ a \o g \in Seq(Lines) /\ Len(a \o g) = p
        /\ \A i \in 1 .. p : (a \o g)[i] = IF i <= at THEN a[i] ELSE g[i - at]
    BY <1>2, <1>4, <2>1
  <2>3. /\ \A i \in 1 .. at : i \in 1 .. p /\ i <= at
        /\ \A i \in at + 1 .. p : i \in 1 .. p /\ ~(i <= at)
    BY <1>1, <1>4
  <2> QED BY <1>2, <2>2, <2>3
<1> HIDE DEF ag
<1>6. /\ ab \in Seq(Lines) /\ Len(ab) = p + Len(b)
      /\ \A i \in 1 .. p + Len(b) : ab[i] = IF i <= p THEN ag[i] ELSE b[i - p]
  BY <1>3, <1>5, ConcatProperties
<1>7. Overwrite(f, at, g) = ab
  BY DEF Overwrite, a, b, ag
<1> HIDE DEF ab
<1>8. Len(ab) = IF p > Len(f) THEN p ELSE Len(f)
  <2>1. Len(b) = IF p + 1 <= Len(f) THEN Len(f) - p ELSE 0
    BY <1>3, <1>4
  <2> QED BY <1>1, <1>6, <2>1
<1>9. \A i \in 1 .. p : ab[i] = ag[i]
  <2>1. Len(b) \in Nat
    BY <1>3
  <2> QED BY <1>6, <2>1
<1>10. ASSUME NEW i \in p + 1 .. Len(f) PROVE ab[i] = f[i]
  <2>1. Len(b) = Len(f) - p
    BY <1>1, <1>3, <1>4
  <2>2. i - p \in 1 .. Len(f) - p /\ i \in 1 .. p + Len(b) /\ ~(i <= p) /\ p + (i - p) = i
    BY <1>1, <2>1
  <2>3. ab[i] = b[i - p]
    BY <1>6, <2>2
  <2>4. b[i - p] = f[p + (i - p)]
    BY <1>3, <1>4, <2>2
  <2> QED BY <2>2, <2>3, <2>4
<1>11. (\A i \in 1 .. at : i \in 1 .. p) /\ \A i \in at + 1 .. p : i \in 1 .. p
  BY <1>1, <1>4
<1> QED BY <1>4, <1>5, <1>6, <1>7, <1>8, <1>9, <1>10, <1>11

\* grep takes the lines one by one.
LEMMA MatchingUnfolds ==
  ASSUME NEW lines \in Seq(Lines), NEW word
  PROVE  \E u :
           /\ u[0] = <<>>
           /\ \A n \in 1 .. Len(lines) :
                u[n] = IF word \in lines[n].words THEN Append(u[n - 1], lines[n]) ELSE u[n - 1]
           /\ Matching(lines, word) = u[Len(lines)]
<1> DEFINE N == Len(lines)
           V == Seq(Lines)
           Take(n, s) == IF word \in lines[n].words THEN Append(s, lines[n]) ELSE s
           t == [n \in 1 .. N |-> [s \in V |-> Take(n, s)]]
           Body(f) == [n \in 0 .. N |-> CASE n = 0 -> <<>>
                                          [] n > 0 /\ word \in lines[n].words ->
                                               Append(f[n - 1], lines[n])
                                          [] OTHER -> f[n - 1]]
           u == CHOOSE f : f = Body(f)
<1>1. N \in Nat /\ \A n \in 1 .. N : lines[n] \in Lines
  OBVIOUS
<1>2. <<>> \in V
  BY EmptySeq
<1>3. t \in [1 .. N -> [V -> V]]
  <2>1. ASSUME NEW n \in 1 .. N, NEW s \in V PROVE Take(n, s) \in V
    <3>1. lines[n] \in Lines
      BY <1>1
    <3>2. Append(s, lines[n]) \in V
      BY <3>1, AppendProperties
    <3> QED BY <3>2
  <2> HIDE DEF Take, V
  <2> QED BY <2>1
<1>4. PICK g \in [0 .. N -> V] : g[0] = <<>> /\ \A n \in 1 .. N : g[n] = t[n][g[n - 1]]
  <2> DEFINE none == <<>>
  <2>1. none \in V
    BY <1>2
  <2>2. N \in Nat
    BY <1>1
  <2> HIDE DEF t, V, N, none
  <2>3. t \in Steps(N, V)
    BY <1>3 DEF Steps
  <2>4. Values(N, V, none, t) # {}
    BY <2>1, <2>2, <2>3, Table
  <2>5. PICK g \in Values(N, V, none, t) : TRUE
    BY <2>4
  <2> QED BY <2>5 DEF Values, none
<1>5. ASSUME NEW n \in 1 .. N PROVE g[n] = Take(n, g[n - 1])
  <2>1. n - 1 \in 0 .. N
    BY <1>1
  <2>2. g[n - 1] \in V
    BY <2>1
  <2>3. t[n][g[n - 1]] = Take(n, g[n - 1])
    <3> HIDE DEF Take, V
    <3> QED BY <2>2
  <2> QED BY <1>4, <2>3
<1>6. g = Body(g)
  <2>1. ASSUME NEW n \in 0 .. N PROVE g[n] = Body(g)[n]
    <3>1. CASE n = 0
      BY <1>4, <3>1
    <3>2. CASE n # 0
      <4>1. n \in 1 .. N /\ n > 0
        BY <1>1, <3>2
      <4>2. g[n] = Take(n, g[n - 1])
        BY <1>5, <4>1
      <4>3. Body(g)[n] = Take(n, g[n - 1])
        BY <4>1
      <4> QED BY <4>2, <4>3
    <3> QED BY <3>1, <3>2
  <2>2. DOMAIN Body(g) = 0 .. N /\ DOMAIN g = 0 .. N
    OBVIOUS
  <2>3. Body(g) = [n \in DOMAIN Body(g) |-> Body(g)[n]] /\ g = [n \in DOMAIN g |-> g[n]]
    OBVIOUS
  <2> HIDE DEF Body
  <2> QED BY <2>1, <2>2, <2>3
<1>7. u = Body(u)
  <2> HIDE DEF Body
  <2> QED BY <1>6
<1>8. Matching(lines, word) = u[N]
  BY DEF Matching
<1> HIDE DEF u
<1>9. u[0] = <<>>
  BY <1>1, <1>7
<1>10. ASSUME NEW n \in 1 .. N PROVE u[n] = Take(n, u[n - 1])
  <2>1. n \in 0 .. N /\ n # 0 /\ n > 0
    BY <1>1
  <2> QED BY <1>7, <2>1
<1> QED BY <1>8, <1>9, <1>10

\* What it takes are lines of the file with the word in them, the first of them
\* in front.
LEMMA MatchingOf ==
  ASSUME NEW lines \in Seq(Lines), NEW word
  PROVE  LET m == Matching(lines, word)
         IN  /\ m \in Seq(Lines)
             /\ \A i \in 1 .. Len(m) :
                  \E j \in 1 .. Len(lines) : word \in lines[j].words /\ m[i] = lines[j]
             /\ \A h \in 1 .. Len(lines) :
                  word \in lines[h].words /\ (\A j \in 1 .. h - 1 : word \notin lines[j].words)
                  => Len(m) >= 1 /\ m[1] = lines[h]
<1> DEFINE N == Len(lines)
<1>1. N \in Nat /\ \A n \in 1 .. N : lines[n] \in Lines
  OBVIOUS
<1>2. PICK u :
        /\ u[0] = <<>>
        /\ \A n \in 1 .. N :
             u[n] = IF word \in lines[n].words THEN Append(u[n - 1], lines[n]) ELSE u[n - 1]
        /\ Matching(lines, word) = u[N]
  BY MatchingUnfolds
<1> HIDE DEF N
<1> DEFINE Found(s) ==
             \A i \in 1 .. Len(s) : \E j \in 1 .. N : word \in lines[j].words /\ s[i] = lines[j]
           First(h) == word \in lines[h].words /\ \A j \in 1 .. h - 1 : word \notin lines[j].words
           Fine(n) == /\ u[n] \in Seq(Lines) /\ Found(u[n])
                      /\ \A h \in 1 .. N : First(h) =>
                           IF h <= n THEN Len(u[n]) >= 1 /\ u[n][1] = lines[h]
                                     ELSE Len(u[n]) = 0
           S == {n \in 0 .. N : Fine(n)}
<1>3. 0 \in S
  <2>1. u[0] \in Seq(Lines) /\ Len(u[0]) = 0
    BY <1>2, EmptySeq
  <2>2. Found(u[0])
    BY <2>1
  <2>3. \A h \in 1 .. N : ~(h <= 0)
    BY <1>1
  <2>4. Fine(0)
    <3> HIDE DEF Found, First
    <3> QED BY <2>1, <2>2, <2>3
  <2> HIDE DEF Fine
  <2> QED BY <1>1, <2>4
<1>4. ASSUME NEW n \in 0 .. N - 1, n \in S PROVE n + 1 \in S
  <2>1. /\ u[n] \in Seq(Lines) /\ Found(u[n])
        /\ \A h \in 1 .. N : First(h) =>
             IF h <= n THEN Len(u[n]) >= 1 /\ u[n][1] = lines[h] ELSE Len(u[n]) = 0
    <3> HIDE DEF Found, First
    <3> QED BY <1>4
  <2>2. n + 1 \in 1 .. N /\ n + 1 - 1 = n /\ n + 1 \in 0 .. N /\ n \in Nat
    BY <1>1
  <2>3. u[n + 1] = IF word \in lines[n + 1].words THEN Append(u[n], lines[n + 1]) ELSE u[n]
    BY <1>2, <2>2
  <2>4. CASE word \notin lines[n + 1].words
    <3>1. u[n + 1] = u[n]
      BY <2>3, <2>4
    <3>2. ASSUME NEW h \in 1 .. N, First(h) PROVE h <= n + 1 => h <= n
      <4>1. h # n + 1
        BY <2>4, <3>2
      <4> QED BY <1>1, <2>2, <4>1
    <3>3. ASSUME NEW h \in 1 .. N, First(h)
          PROVE  IF h <= n + 1 THEN Len(u[n + 1]) >= 1 /\ u[n + 1][1] = lines[h]
                               ELSE Len(u[n + 1]) = 0
      <4>1. (h <= n + 1) = (h <= n)
        BY <3>2, <3>3, <1>1, <2>2
      <4> HIDE DEF First
      <4> QED BY <2>1, <3>1, <3>3, <4>1
    <3>4. Fine(n + 1)
      <4> HIDE DEF Found, First
      <4> QED BY <2>1, <3>1, <3>3
    <3> HIDE DEF Fine
    <3> QED BY <2>2, <3>4
  <2>5. CASE word \in lines[n + 1].words
    <3>1. PICK m \in Nat : m = Len(u[n])
      BY <2>1
    <3> DEFINE e == lines[n + 1]
               v == Append(u[n], e)
    <3>2. e \in Lines
      BY <1>1, <2>2
    <3>3. /\ v \in Seq(Lines) /\ Len(v) = m + 1 /\ v[m + 1] = e
          /\ \A i \in 1 .. m : v[i] = u[n][i]
      <4> HIDE DEF e
      <4> QED BY <2>1, <3>1, <3>2, AppendProperties
    <3>4. u[n + 1] = v
      BY <2>3, <2>5
    <3>5. Found(v)
      <4> SUFFICES ASSUME NEW i \in 1 .. m + 1
                   PROVE  \E j \in 1 .. N : word \in lines[j].words /\ v[i] = lines[j]
        BY <3>3
      <4>1. CASE i = m + 1
        BY <2>2, <2>5, <3>3, <4>1
      <4>2. CASE i # m + 1
        <5>1. i \in 1 .. m
          BY <3>1, <4>2
        <5>2. v[i] = u[n][i]
          BY <3>3, <5>1
        <5> QED BY <2>1, <3>1, <5>1, <5>2
      <4> QED BY <4>1, <4>2
    <3>6. ASSUME NEW h \in 1 .. N, First(h)
          PROVE  IF h <= n + 1 THEN Len(v) >= 1 /\ v[1] = lines[h] ELSE Len(v) = 0
      <4>1. h <= n + 1
        <5> SUFFICES ASSUME ~(h <= n + 1) PROVE FALSE
          OBVIOUS
        <5>1. n + 1 \in 1 .. h - 1
          BY <1>1, <2>2
        <5> QED BY <2>5, <3>6, <5>1
      <4>2. CASE h = n + 1
        <5>1. ~(h <= n)
          BY <4>2, <2>2
        <5>2. m = 0
          BY <2>1, <3>1, <3>6, <5>1
        <5> QED BY <3>3, <4>1, <4>2, <5>2
      <4>3. CASE h # n + 1
        <5>1. h <= n
          BY <1>1, <2>2, <4>1, <4>3
        <5>2. m >= 1 /\ u[n][1] = lines[h]
          BY <2>1, <3>1, <3>6, <5>1
        <5>3. 1 \in 1 .. m /\ m + 1 >= 1
          BY <3>1, <5>2
        <5> QED BY <3>3, <4>1, <5>2, <5>3
      <4> QED BY <4>2, <4>3
    <3>7. Fine(n + 1)
      <4> HIDE DEF Found, First, v
      <4> QED BY <3>3, <3>4, <3>5, <3>6
    <3> HIDE DEF Fine
    <3> QED BY <2>2, <3>7
  <2> QED BY <2>4, <2>5
<1>5. N \in S
  <2> HIDE DEF S
  <2>1. 0 .. N \subseteq S
    BY <1>1, <1>3, <1>4, UpTo
  <2> QED BY <1>1, <2>1
<1>6. Fine(N)
  <2> HIDE DEF Fine
  <2> QED BY <1>5
<1>7. \A h \in 1 .. N : h <= N
  BY <1>1
<1>8. /\ u[N] \in Seq(Lines) /\ Found(u[N])
      /\ \A h \in 1 .. N : First(h) => Len(u[N]) >= 1 /\ u[N][1] = lines[h]
  <2> HIDE DEF Found, First
  <2> QED BY <1>6, <1>7
<1> QED BY <1>2, <1>8 DEF N

\* What the three greps find in a file of top(1): the lines of the processors,
\* of the tasks and of the memory in front, and behind the first two of them
\* old lines only if such a row is left in top.txt.
LEMMA SelectedLines ==
  ASSUME top_txt \in {NULL, <<>>} \/ IsTop(top_txt), NEW k \in 1 .. 3
  PROVE  /\ Selected(k) \in Seq(Lines)
         /\ NewTop => /\ Len(Selected(k)) >= 1
                      /\ Selected(k)[1].new /\ Selected(k)[1].kind = Kinds[k]
         /\ (NewTop /\ k < 3 /\ ~StaleRow) =>
              \A i \in 1 .. Len(Selected(k)) : Selected(k)[i].new
<1>1. CASE IsTop(top_txt)
  <2> DEFINE w == Selects[k]
             m == Matching(top_txt, w)
  <2>1. top_txt \in Seq(Lines) /\ top_txt # NULL /\ Len(top_txt) >= 4
    BY <1>1, NoFileAssumption DEF IsTop
  <2>2. Selected(k) = m
    BY <2>1 DEF Selected
  <2>3. /\ m \in Seq(Lines)
        /\ \A i \in 1 .. Len(m) :
             \E j \in 1 .. Len(top_txt) : w \in top_txt[j].words /\ m[i] = top_txt[j]
        /\ \A h \in 1 .. Len(top_txt) :
             w \in top_txt[h].words /\ (\A j \in 1 .. h - 1 : w \notin top_txt[j].words)
             => Len(m) >= 1 /\ m[1] = top_txt[h]
    BY <2>1, MatchingOf
  <2>4. /\ top_txt[1].kind = "tasks" /\ top_txt[1].words = {"Tasks"}
        /\ top_txt[2].kind = "cpu" /\ top_txt[2].words = {"Cpu"}
        /\ top_txt[3].kind = "mem" /\ top_txt[3].words = {"Mem"}
    <3>1. 1 \in 1 .. 4 /\ 2 \in 1 .. 4 /\ 3 \in 1 .. 4
      OBVIOUS
    <3>2. \A i \in 1 .. 4 : top_txt[i].kind = Heads[i] /\ top_txt[i].words = WordsIn[Heads[i]]
      BY <1>1 DEF IsTop
    <3>3. Heads[1] = "tasks" /\ Heads[2] = "cpu" /\ Heads[3] = "mem"
      BY DEF Heads
    <3>4. /\ WordsIn["tasks"] = {"Tasks"} /\ WordsIn["cpu"] = {"Cpu"}
          /\ WordsIn["mem"] = {"Mem"}
      BY DEF WordsIn
    <3> QED BY <3>1, <3>2, <3>3, <3>4
  <2>5. PICK h \in 1 .. 3 : /\ w \in top_txt[h].words /\ top_txt[h].kind = Kinds[k]
                            /\ \A j \in 1 .. h - 1 : w \notin top_txt[j].words
    <3>1. /\ Selects[1] = "Cpu" /\ Selects[2] = "Tasks" /\ Selects[3] = "Mem"
          /\ Kinds[1] = "cpu" /\ Kinds[2] = "tasks" /\ Kinds[3] = "mem"
      BY DEF Selects, Kinds
    <3>2. /\ \A j \in 1 .. 1 - 1 : FALSE
          /\ \A j \in 1 .. 2 - 1 : j = 1
          /\ \A j \in 1 .. 3 - 1 : j = 1 \/ j = 2
      OBVIOUS
    <3>3. CASE k = 1
      BY <2>4, <3>1, <3>2, <3>3
    <3>4. CASE k = 2
      BY <2>4, <3>1, <3>2, <3>4
    <3>5. CASE k = 3
      BY <2>4, <3>1, <3>2, <3>5
    <3> QED BY <3>3, <3>4, <3>5
  <2>6. h \in 1 .. Len(top_txt) /\ h \in 1 .. 4
    <3>1. PICK n \in Nat : n = Len(top_txt)
      BY <2>1
    <3> QED BY <2>1, <3>1
  <2>7. Len(m) >= 1 /\ m[1] = top_txt[h]
    <3> HIDE DEF m, w
    <3> QED BY <2>3, <2>5, <2>6
  <2>8. ASSUME k < 3, ~StaleRow PROVE \A i \in 1 .. Len(m) : m[i].new
    <3>1. w \in {"Cpu", "Tasks"}
      BY <2>8 DEF Selects
    <3>2. \A j \in 1 .. Len(top_txt) : w \in top_txt[j].words => top_txt[j].new
      <4>1. Content(top_txt) = top_txt /\ DOMAIN top_txt = 1 .. Len(top_txt)
        BY <2>1 DEF Content
      <4>2. \A j \in DOMAIN top_txt :
              top_txt[j].new \/ top_txt[j].words \cap {"Cpu", "Tasks"} = {}
        BY <2>8, <4>1 DEF StaleRow
      <4> HIDE DEF w
      <4> QED BY <3>1, <4>1, <4>2
    <3> HIDE DEF m, w
    <3> QED BY <2>3, <3>2
  <2>9. NewTop => top_txt[h].new
    BY <2>6 DEF NewTop
  <2> HIDE DEF m
  <2> QED BY <2>2, <2>3, <2>5, <2>7, <2>8, <2>9
<1>2. CASE top_txt = NULL /\ ~IsTop(top_txt)
  <2>1. LineOf("err", "normal") \in Lines
    BY DEF LineOf, Lines, WordsIn
  <2>2. <<LineOf("err", "normal")>> \in Seq(Lines)
    BY <2>1
  <2> QED BY <1>2, <2>2 DEF Selected, NewTop
<1>3. CASE top_txt = <<>> /\ ~IsTop(top_txt)
  <2>1. top_txt \in Seq(Lines)
    BY <1>3, EmptySeq
  <2>2. Selected(k) = Matching(top_txt, Selects[k])
    BY <2>1, NoFileAssumption DEF Selected
  <2>3. Matching(top_txt, Selects[k]) \in Seq(Lines)
    BY <2>1, MatchingOf
  <2> QED BY <1>3, <2>2, <2>3 DEF NewTop
<1> QED BY <1>1, <1>2, <1>3

-----------------------------------------------------------------------------
(* Tokens.                                                                 *)

\* What strtok finds.
Words ==
  {"label", "us", "sy", "ni", "id", "wa", "hi", "si", "st", "total", "running", "sleeping",
   "stopped", "zombie", "memtotal", "memfree", "memused", "buffcache", "swaptotal", "swapfree",
   "swapused", "avail", "column"}
Token == [what : Words, new : BOOLEAN]

\* One piece of a line behind another.
LEMMA Joined ==
  ASSUME NEW S, NEW a \in Seq(S), NEW b \in Seq(S)
  PROVE  a \o b \in Seq(S) /\ Len(a \o b) = Len(a) + Len(b)
BY ConcatProperties

\* Every line has tokens; the three first ones of info.txt have enough.
LEMMA WordsOf ==
  ASSUME NEW line \in Lines
  PROVE  /\ LineTokens(line) \in Seq(Words) /\ LineTokens(line) # <<>>
         /\ line.kind = "cpu" => Len(LineTokens(line)) >= 16
         /\ line.kind \in {"tasks", "mem"} => Len(LineTokens(line)) = 11
<1> DEFINE five == <<"label", "sy", "label", "ni", "label">>
           nine == <<"label", "wa", "label", "hi", "label", "si", "label", "st", "label">>
<1>0. /\ "label" \in Words /\ "us" \in Words /\ "sy" \in Words /\ "ni" \in Words /\ "id" \in Words
      /\ "wa" \in Words /\ "hi" \in Words /\ "si" \in Words /\ "st" \in Words
      /\ "total" \in Words /\ "running" \in Words /\ "sleeping" \in Words /\ "stopped" \in Words
      /\ "zombie" \in Words /\ "memtotal" \in Words /\ "memfree" \in Words /\ "memused" \in Words
      /\ "buffcache" \in Words /\ "swaptotal" \in Words /\ "swapfree" \in Words
      /\ "swapused" \in Words /\ "avail" \in Words /\ "column" \in Words
  BY DEF Words
<1>1. CASE line.kind = "cpu"
  <2> DEFINE us == Percentage("us", line.load = "busy")
             id == Percentage("id", line.load = "idle")
  <2>1. LineTokens(line) = (((<<"label">> \o us) \o five) \o id) \o nine
    BY <1>1 DEF LineTokens
  <2>2. /\ us \in Seq(Words) /\ id \in Seq(Words) /\ Len(us) \in {0, 1} /\ Len(id) \in {0, 1}
        /\ Len(us) + Len(id) >= 1
    BY <1>0 DEF Percentage
  <2>3. five \in Seq(Words)
    BY <1>0
  <2>4. nine \in Seq(Words)
    BY <1>0
  <2>5. Len(five) = 5 /\ Len(nine) = 9
    OBVIOUS
  <2>6. <<"label">> \in Seq(Words) /\ Len(<<"label">>) = 1
    BY <1>0
  <2> DEFINE c1 == <<"label">> \o us
             c2 == c1 \o five
             c3 == c2 \o id
             c4 == c3 \o nine
  <2>7. LineTokens(line) = c4
    BY <2>1
  <2> HIDE DEF us, id, five, nine
  <2>8. c1 \in Seq(Words) /\ Len(c1) = 1 + Len(us)
    BY <2>2, <2>6, Joined
  <2> HIDE DEF c1
  <2>9. c2 \in Seq(Words) /\ Len(c2) = Len(c1) + Len(five)
    BY <2>3, <2>8, Joined
  <2> HIDE DEF c2
  <2>10. c3 \in Seq(Words) /\ Len(c3) = Len(c2) + Len(id)
    BY <2>2, <2>9, Joined
  <2> HIDE DEF c3
  <2>11. c4 \in Seq(Words) /\ Len(c4) = Len(c3) + Len(nine)
    BY <2>4, <2>10, Joined
  <2> HIDE DEF c4
  <2>12. Len(c4) >= 16
    BY <2>2, <2>5, <2>8, <2>9, <2>10, <2>11
  <2> QED BY <1>1, <2>7, <2>11, <2>12, EmptySeq
<1>2. CASE line.kind = "tasks"
  <2>1. LineTokens(line) = <<"label", "total", "label", "running", "label", "sleeping", "label",
                             "stopped", "label", "zombie", "label">>
    BY <1>2 DEF LineTokens
  <2> QED BY <1>0, <1>2, <2>1
<1>3. CASE line.kind = "mem"
  <2>1. LineTokens(line) = <<"label", "label", "label", "memtotal", "label", "memfree", "label",
                             "memused", "label", "buffcache", "label">>
    BY <1>3 DEF LineTokens
  <2> QED BY <1>0, <1>3, <2>1
<1>4. CASE line.kind = "swap"
  <2>1. LineTokens(line) = <<"label", "label", "swaptotal", "label", "swapfree", "label",
                             "swapused", "label", "avail", "label", "label", "label">>
    BY <1>4 DEF LineTokens
  <2> QED BY <1>0, <1>4, <2>1
<1>5. CASE line.kind = "row"
  <2>1. LineTokens(line) = [k \in 1 .. 13 |-> "column"]
    BY <1>5 DEF LineTokens
  <2> QED BY <1>0, <1>5, <2>1
<1>6. CASE line.kind = "err"
  <2>1. LineTokens(line) = [k \in 1 .. 7 |-> "label"]
    BY <1>6 DEF LineTokens
  <2> QED BY <1>0, <1>6, <2>1
<1> QED BY <1>1, <1>2, <1>3, <1>4, <1>5, <1>6 DEF Lines

\* The tokens of a line are as old as the line.
LEMMA TaggedOf ==
  ASSUME NEW line \in Lines
  PROVE  /\ Tagged(line) \in Seq(Token) /\ Tagged(line) # <<>>
         /\ Len(Tagged(line)) = Len(LineTokens(line))
         /\ \A i \in 1 .. Len(Tagged(line)) : Tagged(line)[i].new = line.new
<1> DEFINE words == LineTokens(line)
           tokens == [k \in DOMAIN words |-> [what |-> words[k], new |-> line.new]]
<1>1. words \in Seq(Words) /\ words # <<>>
  BY WordsOf
<1>2. Tagged(line) = tokens
  BY DEF Tagged
<1>3. line.new \in BOOLEAN
  BY DEF Lines
<1> HIDE DEF words
<1>4. /\ DOMAIN words = 1 .. Len(words) /\ Len(words) \in Nat
      /\ \A k \in 1 .. Len(words) : words[k] \in Words
  BY <1>1
<1>5. tokens \in Seq(Token) /\ Len(tokens) = Len(words)
  BY <1>3, <1>4 DEF Token
<1>6. \A k \in 1 .. Len(words) : tokens[k].new = line.new
  BY <1>4
<1>7. Len(words) # 0
  BY <1>1, EmptySeq
<1>8. tokens # <<>>
  BY <1>5, <1>7, EmptySeq
<1> HIDE DEF tokens
<1> QED BY <1>2, <1>5, <1>6, <1>8 DEF words

\* strtok goes through the lines one by one.
LEMMA TokensUnfold ==
  ASSUME NEW lines \in Seq(Lines)
  PROVE  \E u :
           /\ u[0] = <<>>
           /\ Len(lines) > 0 => u[1] = Tagged(lines[1])
           /\ \A n \in 2 .. Len(lines) : u[n] = u[n - 1] \o Tail(Tagged(lines[n]))
           /\ separar_tokens(lines) = u[Len(lines)]
<1> DEFINE N == Len(lines)
           V == Seq(Token)
           first == Tagged(lines[1])
           More(n, s) == IF n = 1 THEN first ELSE s \o Tail(Tagged(lines[n]))
           t == [n \in 1 .. N |-> [s \in V |-> More(n, s)]]
           Body(f) == [n \in 0 .. N |-> CASE n = 0 -> <<>>
                                          [] n = 1 -> Tagged(lines[1])
                                          [] OTHER -> f[n - 1] \o Tail(Tagged(lines[n]))]
           u == CHOOSE f : f = Body(f)
<1>1. N \in Nat /\ \A n \in 1 .. N : lines[n] \in Lines
  OBVIOUS
<1>2. <<>> \in V
  BY EmptySeq
<1>3. t \in [1 .. N -> [V -> V]]
  <2>1. ASSUME NEW n \in 1 .. N, NEW s \in V PROVE More(n, s) \in V
    <3> DEFINE w == Tagged(lines[n])
    <3>1. w \in Seq(Token) /\ w # <<>>
      BY <1>1, TaggedOf
    <3> HIDE DEF w
    <3>2. Tail(w) \in Seq(Token)
      BY <3>1, HeadTailProperties
    <3>3. s \o Tail(w) \in V
      BY <3>2, ConcatProperties
    <3>4. CASE n = 1
      BY <3>1, <3>4 DEF w
    <3>5. CASE n # 1
      BY <3>3, <3>5 DEF w
    <3> QED BY <3>4, <3>5
  <2> HIDE DEF More, V
  <2> QED BY <2>1
<1>4. PICK g \in [0 .. N -> V] : g[0] = <<>> /\ \A n \in 1 .. N : g[n] = t[n][g[n - 1]]
  <2> DEFINE none == <<>>
  <2>1. none \in V
    BY <1>2
  <2>2. N \in Nat
    BY <1>1
  <2> HIDE DEF t, V, N, none
  <2>3. t \in Steps(N, V)
    BY <1>3 DEF Steps
  <2>4. Values(N, V, none, t) # {}
    BY <2>1, <2>2, <2>3, Table
  <2>5. PICK g \in Values(N, V, none, t) : TRUE
    BY <2>4
  <2> QED BY <2>5 DEF Values, none
<1>5. ASSUME NEW n \in 1 .. N PROVE g[n] = More(n, g[n - 1])
  <2>1. n - 1 \in 0 .. N
    BY <1>1
  <2>2. g[n - 1] \in V
    BY <2>1
  <2>3. t[n][g[n - 1]] = More(n, g[n - 1])
    <3> HIDE DEF More, V
    <3> QED BY <2>2
  <2> QED BY <1>4, <2>3
<1> HIDE DEF t
<1>6. g = Body(g)
  <2>1. ASSUME NEW n \in 0 .. N PROVE g[n] = Body(g)[n]
    <3>1. CASE n = 0
      BY <1>4, <3>1
    <3>2. CASE n = 1
      <4>1. n \in 1 .. N /\ n # 0
        BY <1>1, <3>2
      <4>2. g[n] = first
        BY <1>5, <3>2, <4>1
      <4>3. Body(g)[n] = first
        BY <3>2
      <4> QED BY <4>2, <4>3
    <3>3. CASE n # 0 /\ n # 1
      <4>1. n \in 1 .. N
        BY <1>1, <3>3
      <4>2. g[n] = g[n - 1] \o Tail(Tagged(lines[n]))
        BY <1>5, <3>3, <4>1
      <4>3. Body(g)[n] = g[n - 1] \o Tail(Tagged(lines[n]))
        BY <3>3
      <4> QED BY <4>2, <4>3
    <3> QED BY <3>1, <3>2, <3>3
  <2>2. DOMAIN Body(g) = 0 .. N /\ DOMAIN g = 0 .. N
    OBVIOUS
  <2>3. Body(g) = [n \in DOMAIN Body(g) |-> Body(g)[n]] /\ g = [n \in DOMAIN g |-> g[n]]
    OBVIOUS
  <2> HIDE DEF Body
  <2> QED BY <2>1, <2>2, <2>3
<1>7. u = Body(u)
  <2> HIDE DEF Body
  <2> QED BY <1>6
<1>8. separar_tokens(lines) = u[N]
  BY DEF separar_tokens
<1> HIDE DEF u
<1>9. u[0] = <<>>
  BY <1>1, <1>7
<1>10. ASSUME N > 0 PROVE u[1] = Tagged(lines[1])
  <2>1. 1 \in 0 .. N
    BY <1>1, <1>10
  <2> QED BY <1>7, <2>1
<1>11. ASSUME NEW n \in 2 .. N PROVE u[n] = u[n - 1] \o Tail(Tagged(lines[n]))
  <2>1. n \in 0 .. N /\ n # 0 /\ n # 1
    BY <1>1
  <2> QED BY <1>7, <2>1
<1> QED BY <1>8, <1>9, <1>10, <1>11

\* The first m tokens are of the latest run of top(1).
FirstNew(tokens, m) ==
  tokens \in Seq(Token) /\ m <= Len(tokens) /\ \A i \in 1 .. m : tokens[i].new

\* Further tokens behind those of a file, whether new or old.
LEMMA FirstNewMore ==
  ASSUME NEW a, NEW b \in Seq(Token), NEW m \in Nat, FirstNew(a, m)
  PROVE  /\ FirstNew(a \o b, m)
         /\ m = Len(a) /\ FirstNew(b, Len(b)) => FirstNew(a \o b, m + Len(b))
<1>1. a \in Seq(Token) /\ m <= Len(a) /\ \A i \in 1 .. m : a[i].new
  BY DEF FirstNew
<1>2. Len(a) \in Nat /\ Len(b) \in Nat
  BY <1>1
<1>3. /\ a \o b \in Seq(Token) /\ Len(a \o b) = Len(a) + Len(b)
      /\ \A i \in 1 .. Len(a) + Len(b) : (a \o b)[i] = IF i <= Len(a) THEN a[i] ELSE b[i - Len(a)]
  BY <1>1, ConcatProperties
<1>4. FirstNew(a \o b, m)
  BY <1>1, <1>2, <1>3 DEF FirstNew
<1>5. ASSUME m = Len(a), FirstNew(b, Len(b)) PROVE FirstNew(a \o b, m + Len(b))
  <2>1. ASSUME NEW i \in 1 .. m + Len(b) PROVE (a \o b)[i].new
    <3>1. CASE i <= m
      BY <1>1, <1>2, <1>3, <1>5, <3>1
    <3>2. CASE ~(i <= m)
      <4>1. i - m \in 1 .. Len(b)
        BY <1>2, <3>2
      <4>2. b[i - m].new
        BY <1>5, <4>1 DEF FirstNew
      <4> QED BY <1>2, <1>3, <1>5, <3>2, <4>2
    <3> QED BY <3>1, <3>2
  <2>2. m + Len(b) <= Len(a \o b)
    BY <1>2, <1>3, <1>5
  <2> QED BY <1>3, <2>1, <2>2 DEF FirstNew
<1> QED BY <1>4, <1>5

\* What another line adds to the tokens.
LEMMA TailOf ==
  ASSUME NEW line \in Lines
  PROVE  LET t == Tail(Tagged(line))
         IN  /\ t \in Seq(Token)
             /\ line.kind \in {"tasks", "mem"} => Len(t) >= 10
             /\ line.new => FirstNew(t, Len(t))
<1> DEFINE w == Tagged(line)
           t == Tail(w)
<1>1. /\ w \in Seq(Token) /\ w # <<>> /\ Len(w) = Len(LineTokens(line))
      /\ \A i \in 1 .. Len(w) : w[i].new = line.new
  BY TaggedOf
<1>2. line.kind \in {"tasks", "mem"} => Len(w) = 11
  BY <1>1, WordsOf
<1> HIDE DEF w
<1>3. /\ t \in Seq(Token) /\ Len(t) = Len(w) - 1
      /\ \A i \in 1 .. Len(t) : t[i] = w[i + 1]
  BY <1>1, HeadTailProperties
<1>4. Len(w) \in Nat
  BY <1>1
<1> HIDE DEF t
<1>5. ASSUME line.new PROVE FirstNew(t, Len(t))
  <2>1. Len(t) \in Nat /\ \A i \in 1 .. Len(t) : i + 1 \in 1 .. Len(w)
    BY <1>3, <1>4
  <2>2. \A i \in 1 .. Len(w) : w[i].new
    BY <1>1, <1>5
  <2>3. Len(t) <= Len(t)
    BY <2>1
  <2> QED BY <1>3, <2>1, <2>2, <2>3 DEF FirstNew
<1>6. line.kind \in {"tasks", "mem"} => Len(t) >= 10
  BY <1>2, <1>3
<1> QED BY <1>3, <1>5, <1>6 DEF t, w

\* The lines for the processors, the tasks and the memory hold every position
\* that a message is made of, however many rows stand between them.
LEMMA TakenTokens ==
  ASSUME AllTaken(info_txt)
  PROVE  /\ FirstNew(Tokens, 16) /\ Len(Tokens) >= 36
         /\ ~StaleRow => FirstNew(Tokens, 36)
<1> DEFINE lines == info_txt
           N == Len(lines)
<1>1. PICK j \in 1 .. N : Taken(lines, j - 1, 2) /\ lines[j].kind = "mem" /\ lines[j].new
  BY DEF AllTaken
<1>2. /\ lines \in Seq(Lines) /\ N \in Nat /\ \A n \in 1 .. N : lines[n] \in Lines
      /\ j - 1 >= 1 /\ lines[1].kind = "cpu" /\ lines[1].new
      /\ StaleRow \/ \A n \in 1 .. j - 1 : lines[n].new
  BY <1>1 DEF Taken
<1>3. PICK i \in 2 .. j - 1 : lines[i].kind = "tasks"
  BY <1>1 DEF Taken
<1>4. Tokens = separar_tokens(lines)
  BY <1>2, NoFileAssumption DEF Tokens, Content
<1>5. PICK u :
        /\ N > 0 => u[1] = Tagged(lines[1])
        /\ \A n \in 2 .. N : u[n] = u[n - 1] \o Tail(Tagged(lines[n]))
        /\ separar_tokens(lines) = u[N]
  BY <1>2, TokensUnfold
<1>6. StaleRow \/ \A n \in 1 .. j : lines[n].new
  <2>1. \A n \in 1 .. j : n = j \/ n \in 1 .. j - 1
    BY <1>2
  <2> QED BY <1>1, <1>2, <2>1
<1> HIDE DEF lines, N
<1> DEFINE Sure(n, l) == /\ u[n] \in Seq(Token) /\ l = Len(u[n])
                         /\ l >= 16 /\ FirstNew(u[n], 16)
                         /\ n >= i => l >= 26
                         /\ n >= j => l >= 36
                         /\ ~StaleRow => IF n <= j THEN FirstNew(u[n], l) ELSE FirstNew(u[n], 36)
           S == {n \in 0 .. N : n = 0 \/ \E l \in Nat : Sure(n, l)}
<1>7. \E l \in Nat : Sure(1, l)
  <2> DEFINE w == Tagged(lines[1])
  <2>1. lines[1] \in Lines /\ 1 <= j /\ 1 < i /\ 1 < j /\ N > 0
    BY <1>1, <1>2, <1>3
  <2>2. /\ w \in Seq(Token) /\ Len(w) = Len(LineTokens(lines[1]))
        /\ \A k \in 1 .. Len(w) : w[k].new = lines[1].new
    BY <2>1, TaggedOf
  <2>3. Len(LineTokens(lines[1])) >= 16
    BY <1>2, <2>1, WordsOf
  <2>4. u[1] = w
    BY <1>5, <2>1
  <2> HIDE DEF w
  <2>5. PICK l \in Nat : l = Len(w)
    BY <2>2
  <2>6. l >= 16 /\ \A k \in 1 .. l : w[k].new
    BY <1>2, <2>2, <2>3, <2>5
  <2>7. FirstNew(w, l) /\ FirstNew(w, 16)
    <3>1. l <= l /\ 16 <= l /\ \A k \in 1 .. 16 : k \in 1 .. l
      BY <2>6
    <3> QED BY <2>2, <2>5, <2>6, <3>1 DEF FirstNew
  <2>8. ~(1 >= i) /\ ~(1 >= j)
    BY <2>1
  <2>9. Sure(1, l)
    BY <2>1, <2>2, <2>4, <2>5, <2>6, <2>7, <2>8
  <2> HIDE DEF Sure
  <2> QED BY <2>9
<1>8. ASSUME NEW n \in 1 .. N - 1, NEW l \in Nat, Sure(n, l)
      PROVE  \E m \in Nat : Sure(n + 1, m)
  <2> DEFINE t == Tail(Tagged(lines[n + 1]))
  <2>1. n + 1 \in 2 .. N /\ n + 1 - 1 = n /\ lines[n + 1] \in Lines /\ n \in Nat
    BY <1>2
  <2>2. u[n + 1] = u[n] \o t
    <3>1. PICK p \in 2 .. N : p = n + 1
      BY <2>1
    <3>2. u[p] = u[p - 1] \o Tail(Tagged(lines[p]))
      BY <1>5
    <3>3. p - 1 = n
      BY <2>1, <3>1
    <3> QED BY <3>1, <3>2, <3>3
  <2>3. /\ t \in Seq(Token)
        /\ lines[n + 1].kind \in {"tasks", "mem"} => Len(t) >= 10
        /\ lines[n + 1].new => FirstNew(t, Len(t))
    BY <2>1, TailOf
  <2> HIDE DEF t
  <2>4. PICK d \in Nat : d = Len(t)
    BY <2>3
  <2>5. PICK m \in Nat : m = l + d
    OBVIOUS
  <2>6. u[n + 1] \in Seq(Token) /\ m = Len(u[n + 1])
    BY <1>8, <2>2, <2>3, <2>4, <2>5, Joined
  <2>7. m >= 16 /\ FirstNew(u[n + 1], 16)
    <3>1. 16 \in Nat /\ m >= 16
      BY <1>8, <2>5
    <3> QED BY <1>8, <2>2, <2>3, <3>1, FirstNewMore
  <2>8. n + 1 >= i => m >= 26
    <3>1. CASE n + 1 = i
      BY <1>3, <1>8, <2>3, <2>4, <2>5, <3>1
    <3>2. CASE n + 1 # i
      BY <1>3, <1>8, <2>1, <2>5, <3>2
    <3> QED BY <3>1, <3>2
  <2>9. n + 1 >= j => m >= 36
    <3>1. CASE n + 1 = j
      <4>1. n >= i
        BY <1>2, <1>3, <2>1, <3>1
      <4>2. l >= 26 /\ d >= 10
        BY <1>1, <1>8, <2>3, <2>4, <3>1, <4>1
      <4> QED BY <2>5, <4>2
    <3>2. CASE n + 1 # j
      BY <1>1, <1>8, <2>1, <2>5, <3>2
    <3> QED BY <3>1, <3>2
  <2>10. ASSUME ~StaleRow, n + 1 <= j PROVE FirstNew(u[n + 1], m)
    <3>1. lines[n + 1].new /\ n <= j
      BY <1>1, <1>6, <2>1, <2>10
    <3>2. FirstNew(u[n], l) /\ FirstNew(t, Len(t)) /\ l = Len(u[n])
      BY <1>8, <2>3, <2>10, <3>1
    <3>3. FirstNew(u[n] \o t, l + Len(t))
      BY <2>3, <3>2, FirstNewMore
    <3> QED BY <2>2, <2>4, <2>5, <3>3
  <2>11. ASSUME ~StaleRow, ~(n + 1 <= j) PROVE FirstNew(u[n + 1], 36)
    <3>1. FirstNew(u[n], 36)
      <4>1. CASE n <= j
        <5>1. n >= j
          BY <1>1, <2>1, <2>11, <4>1
        <5>2. FirstNew(u[n], l) /\ l >= 36
          BY <1>8, <2>11, <4>1, <5>1
        <5> QED BY <5>2 DEF FirstNew
      <4>2. CASE ~(n <= j)
        BY <1>8, <2>11, <4>2
      <4> QED BY <4>1, <4>2
    <3>2. 36 \in Nat
      OBVIOUS
    <3> QED BY <2>2, <2>3, <3>1, <3>2, FirstNewMore
  <2>12. Sure(n + 1, m)
    BY <2>6, <2>7, <2>8, <2>9, <2>10, <2>11
  <2> HIDE DEF Sure
  <2> QED BY <2>12
<1>9. N \in S
  <2> HIDE DEF Sure
  <2>1. 0 \in S
    BY <1>2
  <2>2. ASSUME NEW n \in 0 .. N - 1, n \in S PROVE n + 1 \in S
    <3>1. n + 1 \in 0 .. N
      BY <1>2
    <3>2. CASE n = 0
      BY <1>7, <3>1, <3>2
    <3>3. CASE n # 0
      <4>1. PICK l \in Nat : Sure(n, l)
        BY <2>2, <3>3
      <4>2. n \in 1 .. N - 1
        BY <1>2, <3>3
      <4>3. \E m \in Nat : Sure(n + 1, m)
        BY <1>8, <4>1, <4>2
      <4> QED BY <3>1, <4>3
    <3> QED BY <3>2, <3>3
  <2> HIDE DEF S
  <2>3. 0 .. N \subseteq S
    BY <1>2, <2>1, <2>2, UpTo
  <2> QED BY <1>2, <2>3
<1>10. PICK l \in Nat : Sure(N, l)
  <2>1. N # 0
    BY <1>1, <1>2
  <2> HIDE DEF Sure
  <2> QED BY <1>9, <2>1
<1>11. N >= j /\ l >= 36 /\ l = Len(u[N]) /\ FirstNew(u[N], 16)
  <2>1. N >= j
    BY <1>1, <1>2
  <2> QED BY <1>10, <2>1
<1>12. ASSUME ~StaleRow PROVE FirstNew(u[N], 36)
  <2>1. CASE N <= j
    <3>1. FirstNew(u[N], l)
      BY <1>10, <1>12, <2>1
    <3>2. 36 <= l /\ \A q \in 1 .. 36 : q \in 1 .. l
      BY <1>11
    <3> QED BY <1>11, <3>1, <3>2 DEF FirstNew
  <2>2. CASE ~(N <= j)
    BY <1>10, <1>12, <2>2
  <2> QED BY <2>1, <2>2
<1> QED BY <1>4, <1>5, <1>11, <1>12

\* Such a file gives a message, with cpu/gen and cpu/sys from the latest run of
\* top(1), and all of it from there unless an old row has got in between.
LEMMA TakenMessage ==
  ASSUME AllTaken(info_txt)
  PROVE  /\ Enough(Tokens)
         /\ \A k \in DOMAIN Positions : Positions[k] \in {1, 5} \/ ~StaleRow => Pick(Tokens)[k].new
<1>1. /\ FirstNew(Tokens, 16) /\ Len(Tokens) >= 36
      /\ ~StaleRow => FirstNew(Tokens, 36)
  BY TakenTokens
<1>2. DOMAIN Positions = 1 .. 7
  BY DEF Positions
<1>3. \A k \in 1 .. 7 : Positions[k] \in 0 .. 35
  BY DEF Positions
<1>4. Tokens \in Seq(Token) /\ \A i \in 1 .. 16 : Tokens[i].new
  BY <1>1 DEF FirstNew
<1>5. \A k \in 1 .. 7 : Positions[k] < Len(Tokens)
  <2>1. PICK n \in Nat : n = Len(Tokens)
    BY <1>4
  <2>2. 36 <= n
    BY <1>1, <2>1
  <2>3. \A i \in 0 .. 35 : i < n
    BY <2>2
  <2> QED BY <1>3, <2>1, <2>3
<1>6. ASSUME NEW k \in 1 .. 7, Positions[k] \in {1, 5} PROVE Pick(Tokens)[k].new
  <2>1. Positions[k] + 1 \in 1 .. 16
    BY <1>6
  <2>2. Pick(Tokens)[k] = Tokens[Positions[k] + 1]
    BY <1>2 DEF Pick
  <2> QED BY <1>4, <2>1, <2>2
<1>7. ASSUME NEW k \in 1 .. 7, ~StaleRow PROVE Pick(Tokens)[k].new
  <2>1. Positions[k] + 1 \in 1 .. 36
    BY <1>3
  <2>2. Pick(Tokens)[k] = Tokens[Positions[k] + 1]
    BY <1>2 DEF Pick
  <2>3. \A i \in 1 .. 36 : Tokens[i].new
    BY <1>1, <1>7 DEF FirstNew
  <2> QED BY <2>1, <2>2, <2>3
<1> QED BY <1>2, <1>5, <1>6, <1>7 DEF Enough

-----------------------------------------------------------------------------
(* What the helper programs write.                                         *)

\* Another run of top(1) makes lines old, and nothing else.
LEMMA AgedFile ==
  ASSUME NEW f \in Seq(Lines)
  PROVE  /\ Aged(f) \in Seq(Lines) /\ Len(Aged(f)) = Len(f)
         /\ \A k \in 1 .. Len(f) : Aged(f)[k].kind = f[k].kind /\ Aged(f)[k].words = f[k].words
<1> DEFINE g == [k \in DOMAIN f |-> [f[k] EXCEPT !.new = FALSE]]
<1>1. DOMAIN f = 1 .. Len(f) /\ Len(f) \in Nat /\ \A k \in 1 .. Len(f) : f[k] \in Lines
  OBVIOUS
<1>2. \A line \in Lines : /\ [line EXCEPT !.new = FALSE] \in Lines
                          /\ [line EXCEPT !.new = FALSE].kind = line.kind
                          /\ [line EXCEPT !.new = FALSE].words = line.words
  BY DEF Lines
<1>3. g \in Seq(Lines) /\ Len(g) = Len(f)
  BY <1>1, <1>2
<1>4. \A k \in 1 .. Len(f) : g[k].kind = f[k].kind /\ g[k].words = f[k].words
  BY <1>1, <1>2
<1> QED BY <1>3, <1>4 DEF Aged

\* The head of top.txt.
LEMMA HeaderWrites ==
  ASSUME NEW load \in {"normal", "idle", "busy"}
  PROVE  IsTop(Header(load)) /\ Len(Header(load)) = 4 /\ \A k \in 1 .. 4 : Header(load)[k].new
<1>1. ASSUME NEW kind \in {"tasks", "cpu", "mem", "swap"}
      PROVE  /\ LineOf(kind, load) \in Lines /\ LineOf(kind, load).new
             /\ LineOf(kind, load).kind = kind /\ LineOf(kind, load).words = WordsIn[kind]
  BY DEF LineOf, Lines, WordsIn
<1> DEFINE a == LineOf("tasks", load)
           b == LineOf("cpu", load)
           c == LineOf("mem", load)
           d == LineOf("swap", load)
<1>2. a \in Lines /\ b \in Lines /\ c \in Lines /\ d \in Lines
  BY <1>1
<1>3. /\ a.kind = "tasks" /\ b.kind = "cpu" /\ c.kind = "mem" /\ d.kind = "swap"
      /\ a.words = WordsIn["tasks"] /\ b.words = WordsIn["cpu"]
      /\ c.words = WordsIn["mem"] /\ d.words = WordsIn["swap"]
      /\ a.new /\ b.new /\ c.new /\ d.new
  BY <1>1
<1>4. Header(load) = <<a, b, c, d>>
  BY DEF Header
<1> HIDE DEF a, b, c, d
<1>5. /\ <<a, b, c, d>> \in Seq(Lines) /\ Len(<<a, b, c, d>>) = 4
      /\ <<a, b, c, d>>[1] = a /\ <<a, b, c, d>>[2] = b
      /\ <<a, b, c, d>>[3] = c /\ <<a, b, c, d>>[4] = d
  BY <1>2
<1>6. Heads[1] = "tasks" /\ Heads[2] = "cpu" /\ Heads[3] = "mem" /\ Heads[4] = "swap"
  BY DEF Heads
<1> DEFINE h == <<a, b, c, d>>
<1>7. /\ h \in Seq(Lines) /\ Len(h) = 4 /\ h[1] = a /\ h[2] = b /\ h[3] = c /\ h[4] = d
  BY <1>5
<1> HIDE DEF h
<1>8. ASSUME NEW k \in 1 .. 4
      PROVE  h[k].new /\ h[k].kind = Heads[k] /\ h[k].words = WordsIn[Heads[k]]
  <2>1. k = 1 \/ k = 2 \/ k = 3 \/ k = 4
    OBVIOUS
  <2> QED BY <1>3, <1>6, <1>7, <2>1
<1>9. IsTop(h) /\ Len(h) = 4 /\ \A k \in 1 .. 4 : h[k].new
  BY <1>7, <1>8 DEF IsTop
<1> QED BY <1>4, <1>9 DEF h

\* The rows behind it.
LEMMA RowsWrite ==
  ASSUME NEW load \in {"normal", "idle", "busy"}, NEW rows \in Rows(load)
  PROVE  rows \in Seq(Lines)
<1>1. PICK n \in 0 .. MaxRows : rows \in [1 .. n -> {Row(load, words) : words \in RowWords}]
  BY DEF Rows
<1>2. \A words \in RowWords : Row(load, words) \in Lines
  BY RowsAssumption DEF Row, Lines
<1>3. {Row(load, words) : words \in RowWords} \subseteq Lines
  BY <1>2
<1>4. n \in Nat /\ rows \in [1 .. n -> Lines]
  BY <1>1, <1>3, RowsAssumption
<1> QED BY <1>4

\* The head of a new run in front of what is left of an older one.
LEMMA TopFresh ==
  ASSUME NEW f, f \in {NULL, <<>>} \/ IsTop(f), NEW load \in {"normal", "idle", "busy"}
  PROVE  LET g == Overwrite(Aged(Content(f)), 0, Header(load))
         IN  IsTop(g) /\ \A k \in 1 .. 4 : g[k].new
<1> DEFINE o == Aged(Content(f))
           h == Header(load)
           g == Overwrite(o, 0, h)
<1>1. o \in Seq(Lines)
  <2>1. Content(f) \in Seq(Lines)
    <3>1. CASE f \in {NULL, <<>>}
      <4>1. Content(f) = <<>>
        BY <3>1 DEF Content
      <4> QED BY <4>1, EmptySeq
    <3>2. CASE f \notin {NULL, <<>>}
      BY <3>2 DEF Content, IsTop
    <3> QED BY <3>1, <3>2
  <2> QED BY <2>1, AgedFile
<1>2. IsTop(h) /\ Len(h) = 4 /\ \A k \in 1 .. 4 : h[k].new
  BY HeaderWrites
<1> HIDE DEF o, h
<1>3. 0 \in 0 .. Len(o) /\ h \in Seq(Lines)
  BY <1>1, <1>2 DEF IsTop
<1>4. /\ g \in Seq(Lines)
      /\ Len(g) = IF 0 + Len(h) > Len(o) THEN 0 + Len(h) ELSE Len(o)
      /\ \A i \in 0 + 1 .. 0 + Len(h) : g[i] = h[i - 0]
  BY <1>1, <1>3, Overwritten
<1> HIDE DEF g
<1>5. Len(g) >= 4
  <2>1. PICK n \in Nat : n = Len(o)
    BY <1>1
  <2>2. Len(g) = IF 4 > n THEN 4 ELSE n
    BY <1>2, <1>4, <2>1
  <2> QED BY <2>2
<1>6. \A i \in 1 .. 4 : g[i] = h[i]
  <2>1. \A i \in 1 .. 4 : i \in 0 + 1 .. 0 + Len(h) /\ i - 0 = i
    BY <1>2
  <2> QED BY <1>4, <2>1
<1>7. IsTop(g)
  BY <1>2, <1>4, <1>5, <1>6 DEF IsTop
<1>8. \A k \in 1 .. 4 : g[k].new
  BY <1>2, <1>6
<1> QED BY <1>7, <1>8 DEF g, o, h

\* The rows behind the head leave the head as it is.
LEMMA TopKept ==
  ASSUME NEW f, IsTop(f), NEW g \in Seq(Lines)
  PROVE  IsTop(Overwrite(f, 4, g)) /\ \A k \in 1 .. 4 : Overwrite(f, 4, g)[k] = f[k]
<1> DEFINE h == Overwrite(f, 4, g)
<1>1. f \in Seq(Lines) /\ Len(f) >= 4 /\ 4 \in 0 .. Len(f)
  <2>1. f \in Seq(Lines) /\ Len(f) >= 4
    BY DEF IsTop
  <2>2. PICK n \in Nat : n = Len(f)
    BY <2>1
  <2> QED BY <2>1, <2>2
<1>2. /\ h \in Seq(Lines)
      /\ Len(h) = IF 4 + Len(g) > Len(f) THEN 4 + Len(g) ELSE Len(f)
      /\ \A i \in 1 .. 4 : h[i] = f[i]
  BY <1>1, Overwritten
<1> HIDE DEF h
<1>3. Len(h) >= 4
  <2>1. PICK n \in Nat : n = Len(g)
    OBVIOUS
  <2>2. PICK m \in Nat : m = Len(f)
    BY <1>1
  <2>3. Len(h) = IF 4 + n > m THEN 4 + n ELSE m
    BY <1>2, <2>1, <2>2
  <2> QED BY <2>3
<1>4. IsTop(h)
  BY <1>2, <1>3 DEF IsTop
<1> QED BY <1>2, <1>4 DEF h

\* A grep that writes behind the commands before it: info.txt does not get
\* shorter.
LEMMA GrepWrites ==
  ASSUME top_txt \in {NULL, <<>>} \/ IsTop(top_txt), info_txt \in Seq(Lines),
         NEW k \in 1 .. 3, NEW at \in Nat, at <= Len(info_txt)
  PROVE  LET f == Overwrite(info_txt, at, Selected(k))
         IN  /\ f \in Seq(Lines) /\ Len(f) >= Len(info_txt)
             /\ at + Len(Selected(k)) \in Nat /\ at + Len(Selected(k)) <= Len(f)
             /\ \A i \in 1 .. at : f[i] = info_txt[i]
             /\ \A i \in at + 1 .. at + Len(Selected(k)) : f[i] = Selected(k)[i - at]
<1> DEFINE g == Selected(k)
           f == Overwrite(info_txt, at, g)
<1>1. g \in Seq(Lines)
  BY SelectedLines
<1>2. at \in 0 .. Len(info_txt)
  OBVIOUS
<1> HIDE DEF g
<1>3. /\ f \in Seq(Lines)
      /\ Len(f) = IF at + Len(g) > Len(info_txt) THEN at + Len(g) ELSE Len(info_txt)
      /\ \A i \in 1 .. at : f[i] = info_txt[i]
      /\ \A i \in at + 1 .. at + Len(g) : f[i] = g[i - at]
  BY <1>1, <1>2, Overwritten
<1> HIDE DEF f
<1>4. PICK l \in Nat : l = Len(g)
  BY <1>1
<1>5. PICK n \in Nat : n = Len(info_txt)
  OBVIOUS
<1>6. Len(f) = IF at + l > n THEN at + l ELSE n
  BY <1>3, <1>4, <1>5
<1>7. Len(f) >= n /\ at + l <= Len(f)
  BY <1>6
<1> QED BY <1>3, <1>4, <1>5, <1>7 DEF f, g

\* After the k-th grep of an undisturbed round the lines that it has taken stand
\* behind those of the commands before, whatever the file has held.
LEMMA GrepTakes ==
  ASSUME FileTypes, NewTop, NEW k \in 1 .. 3, NEW at \in Nat, Taken(info_txt, at, k - 1)
  PROVE  LET f == Overwrite(info_txt, at, Selected(k))
         IN  /\ k = 3 => AllTaken(f)
             /\ k # 3 => Taken(f, at + Len(Selected(k)), k)
<1> DEFINE g == Selected(k)
           f == Overwrite(info_txt, at, g)
<1>1. /\ info_txt \in Seq(Lines) /\ at \in 0 .. Len(info_txt) /\ at <= Len(info_txt)
      /\ k - 1 >= 1 => at >= 1 /\ info_txt[1].kind = "cpu" /\ info_txt[1].new
      /\ k - 1 >= 2 => \E i \in 2 .. at : info_txt[i].kind = "tasks"
      /\ StaleRow \/ \A i \in 1 .. at : info_txt[i].new
  BY DEF Taken
<1>2. /\ g \in Seq(Lines) /\ Len(g) >= 1 /\ g[1].new /\ g[1].kind = Kinds[k]
      /\ (k < 3 /\ ~StaleRow) => \A i \in 1 .. Len(g) : g[i].new
  <2>1. top_txt \in {NULL, <<>>} \/ IsTop(top_txt)
    BY DEF FileTypes
  <2> QED BY <2>1, SelectedLines
<1>3. /\ f \in Seq(Lines) /\ at + Len(g) <= Len(f)
      /\ \A i \in 1 .. at : f[i] = info_txt[i]
      /\ \A i \in at + 1 .. at + Len(g) : f[i] = g[i - at]
  <2>1. top_txt \in {NULL, <<>>} \/ IsTop(top_txt)
    BY DEF FileTypes
  <2> QED BY <1>1, <2>1, GrepWrites
<1> HIDE DEF g, f
<1>4. PICK l \in Nat : l = Len(g)
  BY <1>2
<1>5. PICK n \in Nat : n = Len(f)
  BY <1>3
<1>6. /\ l >= 1 /\ at + l <= n /\ at + 1 <= n /\ at + 1 \in at + 1 .. at + l /\ at + 1 - at = 1
      /\ at + 1 \in 1 .. n /\ at + l \in 0 .. n /\ at \in 0 .. n
  BY <1>2, <1>3, <1>4, <1>5
<1>7. f[at + 1] = g[1]
  BY <1>3, <1>4, <1>6
<1>8. Kinds[1] = "cpu" /\ Kinds[2] = "tasks" /\ Kinds[3] = "mem"
  BY DEF Kinds
<1>9. CASE k = 3
  <2>1. /\ at >= 1 /\ info_txt[1].kind = "cpu" /\ info_txt[1].new
        /\ \E i \in 2 .. at : info_txt[i].kind = "tasks"
    BY <1>1, <1>9
  <2>2. /\ f[1] = info_txt[1]
        /\ \E i \in 2 .. at : f[i].kind = "tasks"
    BY <1>3, <2>1
  <2>3. Taken(f, at, 2)
    BY <1>1, <1>3, <1>5, <1>6, <2>1, <2>2 DEF Taken
  <2>4. at + 1 \in 1 .. Len(f) /\ at + 1 - 1 = at
    BY <1>5, <1>6
  <2>5. f[at + 1].kind = "mem" /\ f[at + 1].new
    BY <1>2, <1>7, <1>8, <1>9
  <2>6. AllTaken(f)
    BY <2>3, <2>4, <2>5 DEF AllTaken
  <2> QED BY <1>9, <2>6 DEF f, g
<1>10. CASE k # 3
  <2>1. k \in {1, 2} /\ k < 3 /\ k # 0 /\ at + l >= 1
    BY <1>6, <1>10
  <2>2. f[1].kind = "cpu" /\ f[1].new
    <3>1. CASE k = 1
      <4>1. at = 0
        BY <3>1 DEF Taken
      <4>2. at + 1 = 1
        BY <4>1
      <4> QED BY <1>2, <1>7, <1>8, <3>1, <4>2
    <3>2. CASE k = 2
      <4>1. at >= 1 /\ info_txt[1].kind = "cpu" /\ info_txt[1].new
        BY <1>1, <3>2
      <4>2. f[1] = info_txt[1]
        BY <1>3, <4>1
      <4> QED BY <4>1, <4>2
    <3> QED BY <2>1, <3>1, <3>2
  <2>3. ASSUME k >= 2 PROVE \E i \in 2 .. at + l : f[i].kind = "tasks"
    <3>1. k = 2 /\ at >= 1
      BY <1>1, <2>1, <2>3
    <3>2. at + 1 \in 2 .. at + l
      BY <1>6, <3>1
    <3>3. f[at + 1].kind = "tasks"
      BY <1>2, <1>7, <1>8, <3>1
    <3> QED BY <3>2, <3>3
  <2>4. StaleRow \/ \A i \in 1 .. at + l : f[i].new
    <3> SUFFICES ASSUME ~StaleRow, NEW i \in 1 .. at + l PROVE f[i].new
      OBVIOUS
    <3>1. CASE i <= at
      BY <1>1, <1>3, <3>1
    <3>2. CASE ~(i <= at)
      <4>1. i \in at + 1 .. at + l /\ i - at \in 1 .. l
        BY <3>2
      <4>2. g[i - at].new
        BY <1>2, <1>4, <2>1, <4>1
      <4> QED BY <1>3, <1>4, <4>1, <4>2
    <3> QED BY <3>1, <3>2
  <2>5. Taken(f, at + l, k)
    <3>1. at + l \in 0 .. Len(f)
      BY <1>5, <1>6
    <3> QED BY <1>3, <2>1, <2>2, <2>3, <2>4, <3>1 DEF Taken
  <2> QED BY <1>4, <1>10, <2>5 DEF f, g
<1> QED BY <1>9, <1>10

-----------------------------------------------------------------------------
(* The steps.                                                              *)

\* The round is marked in the right way whatever a step does to it.
LEMMA MineTypes ==
  ASSUME mine \in [Pubs -> BOOLEAN], NEW p \in Pubs
  PROVE  /\ Spoils(p) => /\ mine' \in [Pubs -> BOOLEAN] /\ ~mine'[p]
                         /\ \A q \in Pubs : q # p => mine'[q] = mine[q]
         /\ \A own \in BOOLEAN : Disturbs(p, own) =>
              /\ mine' \in [Pubs -> BOOLEAN] /\ mine'[p] = own
              /\ \A q \in Pubs : q # p => ~mine'[q]
<1>1. ASSUME Spoils(p)
      PROVE  /\ mine' \in [Pubs -> BOOLEAN] /\ ~mine'[p]
             /\ \A q \in Pubs : q # p => mine'[q] = mine[q]
  BY <1>1 DEF Spoils
<1>2. ASSUME NEW own \in BOOLEAN, Disturbs(p, own)
      PROVE  /\ mine' \in [Pubs -> BOOLEAN] /\ mine'[p] = own
             /\ \A q \in Pubs : q # p => ~mine'[q]
  <2>1. mine' = [q \in Pubs |-> q = p /\ own]
    BY <1>2 DEF Disturbs
  <2>2. mine' \in [Pubs -> BOOLEAN]
    BY <2>1
  <2>3. \A q \in Pubs : mine'[q] = (q = p /\ own)
    BY <2>1
  <2>4. mine'[p] = (p = p /\ own)
    BY <2>3
  <2>5. mine'[p] = own
    BY <2>4, Zenon
  <2> QED BY <2>2, <2>3, <2>5
<1> QED BY <1>1, <1>2

\* A step that leaves the files alone and starts no helper program.
LEMMA QuietFiles ==
  ASSUME FileTypes, WritesInv,
         UNCHANGED <<stage, off, top_txt, info_txt>>,
         link' \in [Pubs -> {"up", "down", "reset"}], mine' \in [Pubs -> BOOLEAN],
         DOMAIN full_info' = Pubs,
         \A y \in Procs : pc'[y] \in {"top", "grep"} => pc'[y] = pc[y]
  PROVE  FileTypes' /\ WritesInv'
<1>1. FileTypes'
  BY DEF FileTypes, IsTop
<1>2. \A y \in Procs : pc'[y] = "top" => IsTop(top_txt)'
  BY DEF WritesInv, IsTop
<1>3. \A y \in Procs : pc'[y] = "grep" =>
        info_txt' # NULL /\ off'[y] <= Len(info_txt')
  BY DEF WritesInv
<1> QED BY <1>1, <1>2, <1>3 DEF WritesInv

\* A step of x on the files: the head of top.txt stays one, info.txt does not
\* get shorter, and x finds what it needs next.
LEMMA LoudFiles ==
  ASSUME ChainInv, FileTypes, WritesInv, NEW x \in Procs, NEW to \in Running, pc[x] \in Running,
         pc' = [pc EXCEPT ![x] = to], FileTypes',
         IsTop(top_txt) => IsTop(top_txt)',
         info_txt # NULL => info_txt' # NULL /\ Len(info_txt') >= Len(info_txt),
         \A y \in Procs : y # x => off'[y] = off[y] /\ stage'[y] = stage[y],
         to = "top" => IsTop(top_txt)',
         to = "grep" => info_txt' # NULL /\ off'[x] <= Len(info_txt')
  PROVE  WritesInv'
<1>1. pc'[x] = to /\ \A y \in Procs : y # x => pc'[y] = pc[y]
  BY DEF ChainInv, ProcTypes
<1>2. ASSUME NEW y \in Procs, pc'[y] = "top" PROVE IsTop(top_txt)'
  BY <1>1, <1>2 DEF WritesInv
<1>3. ASSUME NEW y \in Procs, pc'[y] = "grep"
      PROVE  info_txt' # NULL /\ off'[y] <= Len(info_txt')
  <2>1. CASE y = x
    BY <1>1, <1>3, <2>1
  <2>2. CASE y # x
    <3>1. pc[y] = "grep"
      BY <1>1, <1>3, <2>2
    <3>2. /\ info_txt # NULL /\ off[y] <= Len(info_txt)
          /\ info_txt' # NULL /\ Len(info_txt') >= Len(info_txt)
      BY <3>1 DEF WritesInv
    <3>3. off[y] \in Nat /\ Len(info_txt) \in Nat /\ Len(info_txt') \in Nat
      BY <3>2 DEF FileTypes
    <3> QED BY <2>2, <3>2, <3>3
  <2> QED BY <2>1, <2>2
<1> QED BY <1>2, <1>3 DEF WritesInv

\* Steps of the processes that do not touch the files.
LEMMA QuietSteps ==
  ASSUME ChainInv, FileTypes, WritesInv, NEW x \in Procs,
         \/ StartTop(x) \/ Spin(x) \/ GrepMissing(x) \/ Resume(x)
         \/ ForkFailed(x, "update", "filter") \/ ForkFailed(x, "filter", "info")
         \/ ExecFailed(x, "update", "exec_top", "filter")
         \/ ExecFailed(x, "filter", "exec_grep", "info")
         \/ Publish(x) \/ Free(x) \/ Segfault(x) \/ PublishLost(x) \/ PublishBroken(x)
  PROVE  FileTypes' /\ WritesInv'
<1>0. x[1] \in Pubs /\ x[2] < MaxProcs => Child(x) \in Procs
  BY ProcFacts
<1>1. UNCHANGED <<stage, off, top_txt, info_txt>>
  BY DEF StartTop, Spin, GrepMissing, Resume, ForkFailed, ExecFailed, Publish, Free, Segfault,
     PublishLost, PublishBroken, files
<1>2. mine' = mine \/ Spoils(x[1])
  BY DEF StartTop, Spin, GrepMissing, Resume, ForkFailed, ExecFailed, Publish, Free, Segfault,
     PublishLost, PublishBroken, Fails
<1>3. mine' \in [Pubs -> BOOLEAN]
  BY <1>2, ProcFacts, MineTypes DEF FileTypes
<1>4. link' = link \/ link' = [link EXCEPT ![x[1]] = "reset"]
  BY DEF StartTop, Spin, GrepMissing, Resume, ForkFailed, ExecFailed, Publish, Free, Segfault,
     PublishLost, PublishBroken
<1>5. link' \in [Pubs -> {"up", "down", "reset"}]
  BY <1>4 DEF FileTypes
<1>6. full_info' = full_info \/ \E m : full_info' = [full_info EXCEPT ![x[1]] = m]
  BY DEF StartTop, Spin, GrepMissing, Resume, ForkFailed, ExecFailed, Publish, Free, Segfault,
     PublishLost, PublishBroken
<1>7. DOMAIN full_info' = Pubs
  BY <1>6 DEF FileTypes
<1>8. \/ \E to \in {"exec_top", "spin", "info", "filter", "sent", "update", "none"} :
           pc' = [pc EXCEPT ![x] = to]
      \/ \E next \in {"filter", "info"} : pc' = [pc EXCEPT ![x] = "wait", ![Child(x)] = next]
  <2>1. CASE \/ StartTop(x) \/ Spin(x) \/ GrepMissing(x)
             \/ ForkFailed(x, "update", "filter") \/ ForkFailed(x, "filter", "info")
    BY <2>1 DEF StartTop, Spin, GrepMissing, ForkFailed, Goes
  <2>2. CASE Publish(x) \/ Free(x) \/ Segfault(x) \/ PublishLost(x) \/ PublishBroken(x)
    BY <2>2 DEF Publish, Free, Segfault, PublishLost, PublishBroken, Dies, Goes
  <2>3. CASE \/ ExecFailed(x, "update", "exec_top", "filter")
             \/ ExecFailed(x, "filter", "exec_grep", "info")
    BY <2>3 DEF ExecFailed, Waits
  <2>4. CASE Resume(x)
    <3>1. ret[x] \in {"none", "filter", "info"}
      BY DEF ChainInv, ProcTypes
    <3> QED BY <2>4, <3>1 DEF Resume
  <2> QED BY <2>1, <2>2, <2>3, <2>4
<1>9. \A y \in Procs : pc'[y] \in {"top", "grep"} => pc'[y] = pc[y]
  BY <1>8 DEF ChainInv, ProcTypes
<1> QED BY <1>1, <1>3, <1>5, <1>7, <1>9, QuietFiles

\* top.txt appears when top(1) is missing.
LEMMA TopMissingFiles ==
  ASSUME ChainInv, FileTypes, WritesInv, NEW x \in Procs, TopMissing(x)
  PROVE  /\ FileTypes' /\ WritesInv'
         /\ NewTop => UNCHANGED top_txt
<1>1. /\ pc[x] = "exec_top" /\ pc' = [pc EXCEPT ![x] = "filter"]
      /\ Spoils(x[1]) /\ top_txt' = Content(top_txt)
      /\ UNCHANGED <<stage, off, info_txt, link, full_info>>
  BY DEF TopMissing, Goes, Fails
<1>2. IsTop(top_txt) => top_txt' = top_txt
  BY <1>1, NoFileAssumption DEF IsTop, Content
<1>3. top_txt' \in {NULL, <<>>} \/ IsTop(top_txt)'
  BY <1>1, <1>2 DEF FileTypes, Content, IsTop
<1>4. mine' \in [Pubs -> BOOLEAN]
  BY <1>1, ProcFacts, MineTypes DEF FileTypes
<1>5. FileTypes'
  BY <1>1, <1>3, <1>4 DEF FileTypes
<1>6. /\ IsTop(top_txt) => IsTop(top_txt)'
      /\ info_txt # NULL => info_txt' # NULL /\ Len(info_txt') >= Len(info_txt)
  <2>1. info_txt # NULL => Len(info_txt) \in Nat
    BY DEF FileTypes
  <2> QED BY <1>1, <1>2, <2>1 DEF IsTop
<1>7. WritesInv'
  BY <1>1, <1>5, <1>6, LoudFiles DEF Running, Places
<1> QED BY <1>2, <1>5, <1>7 DEF NewTop

\* top(1) starts: the head of top.txt is new, whatever the file was.
LEMMA TopHeaderFiles ==
  ASSUME ChainInv, FileTypes, WritesInv, NEW x \in Procs, TopHeader(x)
  PROVE  FileTypes' /\ WritesInv' /\ NewTop'
<1>1. /\ pc[x] = "exec_top" /\ pc' = [pc EXCEPT ![x] = "top"]
      /\ Disturbs(x[1], TRUE) /\ info_txt' = IF info_txt = NULL THEN NULL ELSE Aged(info_txt)
      /\ UNCHANGED <<stage, off, link, full_info>>
  BY DEF TopHeader, Goes
<1>2. NewTop'
  <2>1. PICK load \in Loads : top_txt' = Overwrite(Aged(Content(top_txt)), 0, Header(load))
    BY DEF TopHeader
  <2>2. load \in {"normal", "idle", "busy"} /\ (top_txt \in {NULL, <<>>} \/ IsTop(top_txt))
    BY LoadsAssumption DEF FileTypes
  <2> DEFINE g == Overwrite(Aged(Content(top_txt)), 0, Header(load))
  <2>3. IsTop(g) /\ \A k \in 1 .. 4 : g[k].new
    BY <2>2, TopFresh
  <2>4. top_txt' = g
    BY <2>1
  <2> HIDE DEF g
  <2> QED BY <2>3, <2>4 DEF NewTop, IsTop
<1>3. IsTop(top_txt)'
  BY <1>2 DEF NewTop
<1>4. mine' \in [Pubs -> BOOLEAN]
  BY <1>1, ProcFacts, MineTypes DEF FileTypes
<1>5. /\ info_txt' = NULL \/ info_txt' \in Seq(Lines)
      /\ info_txt # NULL => info_txt' # NULL /\ Len(info_txt') >= Len(info_txt)
  <2>1. CASE info_txt = NULL
    BY <1>1, <2>1
  <2>2. CASE info_txt # NULL
    <3>1. info_txt \in Seq(Lines) /\ Len(info_txt) \in Nat
      BY <2>2 DEF FileTypes
    <3>2. info_txt' \in Seq(Lines) /\ Len(info_txt') = Len(info_txt)
      BY <1>1, <2>2, <3>1, AgedFile
    <3>3. info_txt' # NULL
      BY <3>2, NoFileAssumption
    <3> QED BY <3>1, <3>2, <3>3
  <2> QED BY <2>1, <2>2
<1>6. FileTypes'
  BY <1>1, <1>3, <1>4, <1>5 DEF FileTypes
<1>7. WritesInv'
  BY <1>1, <1>3, <1>5, <1>6, LoudFiles DEF Running, Places
<1> QED BY <1>2, <1>6, <1>7

\* top(1) ends: the head stays.
LEMMA TopRowsFiles ==
  ASSUME ChainInv, FileTypes, WritesInv, NEW x \in Procs, TopRows(x)
  PROVE  FileTypes' /\ WritesInv' /\ (NewTop => NewTop')
<1>1. /\ pc[x] = "top" /\ pc' = [pc EXCEPT ![x] = "filter"]
      /\ Disturbs(x[1], mine[x[1]])
      /\ UNCHANGED <<stage, off, info_txt, link, full_info>>
  BY DEF TopRows, Goes
<1>2. IsTop(top_txt)
  BY <1>1 DEF WritesInv
<1>3. PICK rows \in Rows(top_txt[1].load) : top_txt' = Overwrite(top_txt, 4, rows)
  BY DEF TopRows
<1>4. top_txt[1].load \in {"normal", "idle", "busy"}
  <2>1. \A k \in 1 .. Len(top_txt) : top_txt[k] \in Lines
    BY <1>2 DEF IsTop
  <2>2. 1 \in 1 .. Len(top_txt)
    BY <1>2 DEF IsTop
  <2> QED BY <2>1, <2>2 DEF Lines
<1>5. rows \in Seq(Lines)
  BY <1>4, RowsWrite
<1>6. /\ IsTop(Overwrite(top_txt, 4, rows))
      /\ \A k \in 1 .. 4 : Overwrite(top_txt, 4, rows)[k] = top_txt[k]
  BY <1>2, <1>5, TopKept
<1>7. IsTop(top_txt)' /\ \A k \in 1 .. 4 : top_txt'[k] = top_txt[k]
  BY <1>3, <1>6 DEF IsTop
<1>8. mine' \in [Pubs -> BOOLEAN]
  <2>1. mine[x[1]] \in BOOLEAN /\ x[1] \in Pubs
    BY ProcFacts DEF FileTypes
  <2> QED BY <1>1, <2>1, MineTypes DEF FileTypes
<1>9. FileTypes'
  BY <1>1, <1>7, <1>8 DEF FileTypes
<1>10. info_txt # NULL => info_txt' # NULL /\ Len(info_txt') >= Len(info_txt)
  <2>1. info_txt # NULL => Len(info_txt) \in Nat
    BY DEF FileTypes
  <2> QED BY <1>1, <2>1
<1>11. WritesInv'
  BY <1>1, <1>7, <1>9, <1>10, LoudFiles DEF Running, Places
<1> QED BY <1>7, <1>9, <1>11 DEF NewTop

\* exec_grep starts at the beginning of info.txt.
LEMMA StartGrepFiles ==
  ASSUME ChainInv, FileTypes, WritesInv, NEW x \in Procs, StartGrep(x)
  PROVE  /\ FileTypes' /\ WritesInv'
         /\ info_txt # NULL => info_txt' = info_txt
         /\ off'[x] = 0 /\ stage'[x] = 1 /\ info_txt' \in Seq(Lines)
         /\ \A y \in Procs : y # x => off'[y] = off[y] /\ stage'[y] = stage[y]
<1>1. /\ pc[x] = "filter" /\ pc' = [pc EXCEPT ![x] = "grep"]
      /\ stage' = [stage EXCEPT ![x] = 1] /\ off' = [off EXCEPT ![x] = 0]
      /\ info_txt' = Content(info_txt)
      /\ UNCHANGED <<top_txt, link, full_info, mine>>
  BY DEF StartGrep, Goes
<1>2. info_txt' \in Seq(Lines) /\ info_txt' # NULL /\ (info_txt # NULL => info_txt' = info_txt)
  <2>1. CASE info_txt = NULL
    <3>1. info_txt' = <<>>
      BY <1>1, <2>1 DEF Content
    <3>2. info_txt' \in Seq(Lines) /\ Len(info_txt') = 0
      BY <3>1, EmptySeq
    <3>3. info_txt' # NULL
      BY <3>2, NoFileAssumption
    <3>4. info_txt' \in Seq(Lines)
      BY <3>2
    <3> QED BY <2>1, <3>3, <3>4
  <2>2. CASE info_txt # NULL
    BY <1>1, <2>2 DEF Content, FileTypes
  <2> QED BY <2>1, <2>2
<1>3. /\ off'[x] = 0 /\ stage'[x] = 1
      /\ off' \in [Procs -> Nat] /\ stage' \in [Procs -> 1 .. 3]
      /\ \A y \in Procs : y # x => off'[y] = off[y] /\ stage'[y] = stage[y]
  BY <1>1 DEF FileTypes
<1>4. FileTypes'
  BY <1>1, <1>2, <1>3 DEF FileTypes, IsTop
<1>5. off'[x] <= Len(info_txt')
  <2>1. Len(info_txt') \in Nat
    BY <1>2
  <2> QED BY <1>3, <2>1
<1>6. info_txt # NULL => info_txt' # NULL /\ Len(info_txt') >= Len(info_txt)
  <2>1. info_txt # NULL => Len(info_txt) \in Nat
    BY DEF FileTypes
  <2> QED BY <1>2, <2>1
<1>7. IsTop(top_txt) => IsTop(top_txt)'
  BY <1>1 DEF IsTop
<1>8. WritesInv'
  BY <1>1, <1>2, <1>3, <1>4, <1>5, <1>6, <1>7, LoudFiles DEF Running, Places
<1> QED BY <1>2, <1>3, <1>4, <1>8

\* The command that exec_grep runs is through.
LEMMA CommandDone ==
  ASSUME ChainInv, FileTypes, NEW x \in Procs, NextCommand(x)
  PROVE  /\ pc[x] = "grep" /\ pc' = [pc EXCEPT ![x] = IF stage[x] = 3 THEN "info" ELSE "grep"]
         /\ stage[x] \in 1 .. 3 /\ stage' \in [Procs -> 1 .. 3]
         /\ stage'[x] = IF stage[x] = 3 THEN 1 ELSE stage[x] + 1
         /\ \A y \in Procs : y # x => stage'[y] = stage[y]
<1>1. /\ stage \in [Procs -> 1 .. 3] /\ pc[x] = "grep"
      /\ pc' = [pc EXCEPT ![x] = IF stage[x] = 3 THEN "info" ELSE "grep"]
      /\ stage' = [stage EXCEPT ![x] = IF stage[x] = 3 THEN 1 ELSE stage[x] + 1]
  BY DEF NextCommand, Goes, FileTypes
<1>2. PICK k \in 1 .. 3 : k = stage[x]
  BY <1>1
<1>3. (IF k = 3 THEN 1 ELSE k + 1) \in 1 .. 3
  OBVIOUS
<1> QED BY <1>1, <1>2, <1>3

\* A grep writes what it has selected.
LEMMA GrepFiles ==
  ASSUME ChainInv, FileTypes, WritesInv, NEW x \in Procs, Grep(x)
  PROVE  /\ FileTypes' /\ WritesInv'
         /\ off'[x] = IF stage[x] = 3 THEN 0 ELSE off[x] + Len(Selected(stage[x]))
         /\ UNCHANGED top_txt
<1> DEFINE k == stage[x]
           at == off[x]
           f == Overwrite(info_txt, at, Selected(k))
<1>1. /\ pc[x] = "grep" /\ pc' = [pc EXCEPT ![x] = IF k = 3 THEN "info" ELSE "grep"]
      /\ k \in 1 .. 3 /\ stage' \in [Procs -> 1 .. 3]
      /\ stage'[x] = IF k = 3 THEN 1 ELSE k + 1
      /\ \A y \in Procs : y # x => stage'[y] = stage[y]
  BY CommandDone DEF Grep
<1>2. /\ info_txt' = f
      /\ off' = [off EXCEPT ![x] = IF k = 3 THEN 0 ELSE at + Len(Selected(k))]
      /\ Disturbs(x[1], mine[x[1]])
      /\ UNCHANGED <<top_txt, link, full_info>>
  BY DEF Grep
<1>3. info_txt \in Seq(Lines) /\ at \in Nat /\ at <= Len(info_txt) /\ info_txt # NULL
  BY <1>1 DEF WritesInv, FileTypes
<1>4. top_txt \in {NULL, <<>>} \/ IsTop(top_txt)
  BY DEF FileTypes
<1> DEFINE long == Len(Selected(k))
<1>5. /\ f \in Seq(Lines) /\ Len(f) >= Len(info_txt) /\ at + long \in Nat /\ at + long <= Len(f)
  <2> HIDE DEF k, at
  <2> QED BY <1>1, <1>3, <1>4, GrepWrites
<1> HIDE DEF f, long
<1>6. /\ off' \in [Procs -> Nat] /\ off'[x] = IF k = 3 THEN 0 ELSE at + long
      /\ \A y \in Procs : y # x => off'[y] = off[y]
  <2>1. (IF k = 3 THEN 0 ELSE at + long) \in Nat
    BY <1>5
  <2>2. off' = [off EXCEPT ![x] = IF k = 3 THEN 0 ELSE at + long]
    BY <1>2 DEF long
  <2> QED BY <2>1, <2>2 DEF FileTypes
<1>7. mine' \in [Pubs -> BOOLEAN]
  <2>1. mine[x[1]] \in BOOLEAN /\ x[1] \in Pubs
    BY ProcFacts DEF FileTypes
  <2> QED BY <1>2, <2>1, MineTypes DEF FileTypes
<1>8. FileTypes'
  BY <1>1, <1>2, <1>5, <1>6, <1>7 DEF FileTypes, IsTop
<1>9. info_txt' # NULL /\ Len(info_txt') >= Len(info_txt)
  BY <1>2, <1>5, NoFileAssumption
<1>10. /\ IsTop(top_txt) => IsTop(top_txt)'
       /\ \A y \in Procs : y # x => off'[y] = off[y] /\ stage'[y] = stage[y]
  BY <1>1, <1>2, <1>6 DEF IsTop
<1>11. CASE k = 3
  <2>1. pc' = [pc EXCEPT ![x] = "info"]
    BY <1>1, <1>11
  <2>2. pc[x] \in Running /\ "info" \in Running
    BY <1>1 DEF Running, Places
  <2>3. WritesInv'
    BY <1>8, <1>9, <1>10, <2>1, <2>2, LoudFiles
  <2> QED BY <1>2, <1>6, <1>8, <2>3 DEF long
<1>12. CASE k # 3
  <2>1. pc' = [pc EXCEPT ![x] = "grep"]
    BY <1>1, <1>12
  <2>2. off'[x] <= Len(info_txt')
    BY <1>2, <1>5, <1>6, <1>12
  <2>3. WritesInv'
    BY <1>1, <1>8, <1>9, <1>10, <2>1, <2>2, LoudFiles DEF Running, Places
  <2> QED BY <1>2, <1>6, <1>8, <2>3 DEF long
<1> QED BY <1>11, <1>12

\* A command that could not be forked writes nothing.
LEMMA SkipGrepFiles ==
  ASSUME ChainInv, FileTypes, WritesInv, NEW x \in Procs, SkipGrep(x)
  PROVE  /\ FileTypes' /\ WritesInv' /\ UNCHANGED <<top_txt, info_txt>>
         /\ \A y \in Procs : y # x => off'[y] = off[y] /\ stage'[y] = stage[y]
<1> DEFINE k == stage[x]
<1>1. /\ pc[x] = "grep" /\ pc' = [pc EXCEPT ![x] = IF k = 3 THEN "info" ELSE "grep"]
      /\ k \in 1 .. 3 /\ stage' \in [Procs -> 1 .. 3]
      /\ stage'[x] = IF k = 3 THEN 1 ELSE k + 1
      /\ \A y \in Procs : y # x => stage'[y] = stage[y]
  BY CommandDone DEF SkipGrep
<1>2. /\ off' = [off EXCEPT ![x] = IF k = 3 THEN 0 ELSE off[x]]
      /\ Spoils(x[1])
      /\ UNCHANGED <<top_txt, info_txt, link, full_info>>
  BY DEF SkipGrep, Fails, files
<1>3. /\ info_txt \in Seq(Lines) /\ info_txt # NULL /\ off[x] \in Nat
      /\ off[x] <= Len(info_txt) /\ Len(info_txt) \in Nat
  BY <1>1 DEF WritesInv, FileTypes
<1>4. /\ off' \in [Procs -> Nat] /\ off'[x] = IF k = 3 THEN 0 ELSE off[x]
      /\ \A y \in Procs : y # x => off'[y] = off[y]
  BY <1>2, <1>3 DEF FileTypes
<1>5. mine' \in [Pubs -> BOOLEAN]
  BY <1>2, ProcFacts, MineTypes DEF FileTypes
<1>6. FileTypes'
  BY <1>1, <1>2, <1>4, <1>5 DEF FileTypes, IsTop
<1>7. /\ info_txt' # NULL /\ Len(info_txt') >= Len(info_txt)
      /\ IsTop(top_txt) => IsTop(top_txt)'
      /\ \A y \in Procs : y # x => off'[y] = off[y] /\ stage'[y] = stage[y]
  BY <1>1, <1>2, <1>3, <1>4 DEF IsTop
<1>8. CASE k = 3
  <2>1. pc' = [pc EXCEPT ![x] = "info"]
    BY <1>1, <1>8
  <2>2. pc[x] \in Running /\ "info" \in Running
    BY <1>1 DEF Running, Places
  <2>3. WritesInv'
    BY <1>6, <1>7, <2>1, <2>2, LoudFiles
  <2> QED BY <1>2, <1>6, <1>7, <2>3
<1>9. CASE k # 3
  <2>1. pc' = [pc EXCEPT ![x] = "grep"]
    BY <1>1, <1>9
  <2>2. off'[x] <= Len(info_txt')
    BY <1>1, <1>2, <1>3, <1>4, <1>9
  <2>3. WritesInv'
    BY <1>1, <1>6, <1>7, <2>1, <2>2, LoudFiles DEF Running, Places
  <2> QED BY <1>2, <1>6, <1>7, <2>3
<1> QED BY <1>8, <1>9

\* Every step keeps what is said of the files.
LEMMA StepFiles == ChainInv /\ FileTypes /\ WritesInv /\ [Next]_vars => FileTypes' /\ WritesInv'
<1> SUFFICES ASSUME ChainInv, FileTypes, WritesInv, [Next]_vars PROVE FileTypes' /\ WritesInv'
  OBVIOUS
<1>1. CASE UNCHANGED vars
  BY <1>1, QuietFiles DEF vars, files, FileTypes
<1>2. CASE BrokerGone
  <2>1. UNCHANGED <<pc, stage, off, top_txt, info_txt, full_info, mine>>
    BY <1>2 DEF BrokerGone, files
  <2>2. link' \in [Pubs -> {"up", "down", "reset"}]
    BY <1>2 DEF BrokerGone
  <2> QED BY <2>1, <2>2, QuietFiles DEF FileTypes
<1>3. ASSUME NEW x \in Procs, Step(x) PROVE FileTypes' /\ WritesInv'
  <2>1. CASE \/ StartTop(x) \/ Spin(x) \/ GrepMissing(x) \/ Resume(x)
             \/ ForkFailed(x, "update", "filter") \/ ForkFailed(x, "filter", "info")
             \/ ExecFailed(x, "update", "exec_top", "filter")
             \/ ExecFailed(x, "filter", "exec_grep", "info")
             \/ Publish(x) \/ Free(x) \/ Segfault(x) \/ PublishLost(x) \/ PublishBroken(x)
    BY <2>1, QuietSteps
  <2>2. CASE TopMissing(x)
    BY <2>2, TopMissingFiles
  <2>3. CASE TopHeader(x)
    BY <2>3, TopHeaderFiles
  <2>4. CASE TopRows(x)
    BY <2>4, TopRowsFiles
  <2>5. CASE StartGrep(x)
    BY <2>5, StartGrepFiles
  <2>6. CASE Grep(x)
    BY <2>6, GrepFiles
  <2>7. CASE SkipGrep(x)
    BY <2>7, SkipGrepFiles
  <2> QED BY <1>3, <2>1, <2>2, <2>3, <2>4, <2>5, <2>6, <2>7 DEF Step
<1> QED BY <1>1, <1>2, <1>3 DEF Next

\* One process of a publisher runs, and no other has anything to say about
\* the round.
LEMMA OnlyRunner ==
  ASSUME ChainInv, NEW x \in Procs, NEW y \in Procs, x[1] = y[1],
         pc[x] \in Running, pc[y] \in Running
  PROVE  x = y
<1>1. x[2] \in Int /\ y[2] \in Int
  BY ProcFacts
<1>2. x[2] < y[2] \/ y[2] < x[2] \/ x[2] = y[2]
  BY <1>1
<1>3. pc[x] \notin {"wait", "none"} /\ pc[y] \notin {"wait", "none"}
  BY DEF Running
<1> QED BY <1>2, <1>3, ProcFacts DEF ChainInv, OneRunner

\* Nobody runs below or above a process whose child has just ended.
LEMMA NoRunner ==
  ASSUME ChainInv, NEW x \in Procs, pc[x] = "wait", pc[Child(x)] = "none",
         NEW y \in Procs, x[1] = y[1]
  PROVE  pc[y] \notin Running
<1>1. /\ x[2] < MaxProcs /\ x[2] \in Int /\ y[2] \in Int
      /\ Child(x) \in Procs /\ Child(x)[1] = x[1] /\ Child(x)[2] = x[2] + 1
  BY ProcFacts DEF ChainInv, WaitsBelow
<1>2. CASE y[2] < x[2]
  <2>1. pc[y] = "wait"
    BY <1>2 DEF ChainInv, OneRunner
  <2> QED BY <2>1 DEF Running
<1>3. CASE y[2] = x[2]
  <2>1. y = x
    BY <1>3, ProcFacts
  <2> QED BY <2>1 DEF Running
<1>4. CASE y[2] = x[2] + 1
  <2>1. y = Child(x)
    BY <1>1, <1>4, ProcFacts
  <2> QED BY <2>1 DEF Running
<1>5. CASE x[2] + 1 < y[2]
  <2>1. pc[y] = "none"
    BY <1>1, <1>5 DEF ChainInv, OneRunner
  <2> QED BY <2>1 DEF Running
<1> QED BY <1>1, <1>2, <1>3, <1>4, <1>5

\* The round of a process, as the process that runs sees it.
LEMMA RoundOfRunner ==
  ASSUME ChainInv, RoundInv, NEW x \in Procs, mine[x[1]], link[x[1]] = "up"
  PROVE  /\ pc[x] \in Running => Round(x)
         /\ ~(pc[x] = "wait" /\ pc[Child(x)] = "none")
<1>1. x[1] \in Pubs
  BY ProcFacts
<1>2. PICK y \in Procs : y[1] = x[1] /\ Round(y)
  BY <1>1 DEF RoundInv
<1>3. pc[y] \in Running
  BY <1>2 DEF Round, Running, Places
<1>4. pc[x] \in Running => x = y
  BY <1>2, <1>3, OnlyRunner
<1> QED BY <1>2, <1>3, <1>4, NoRunner

\* A step of another publisher that has not written into the files.
LEMMA OthersRound ==
  ASSUME ChainInv, FileTypes, RoundInv, NEW p \in Pubs, mine[p], link[p] = "up",
         \A y \in Procs : y[1] = p =>
           pc'[y] = pc[y] /\ off'[y] = off[y] /\ stage'[y] = stage[y],
         NewTop => UNCHANGED top_txt, info_txt # NULL => info_txt' = info_txt
  PROVE  \E y \in Procs : y[1] = p /\ Round(y)'
<1>1. PICK y \in Procs : y[1] = p /\ Round(y)
  BY DEF RoundInv
<1>2. pc'[y] = pc[y] /\ off'[y] = off[y] /\ stage'[y] = stage[y]
  BY <1>1
<1>3. UNCHANGED top_txt /\ NewTop'
  BY <1>1 DEF Round, NewTop, IsTop
<1>4. CASE pc[y] \in {"top", "filter"}
  BY <1>1, <1>2, <1>3, <1>4 DEF Round
<1>5. CASE pc[y] = "grep" /\ Taken(info_txt, off[y], stage[y] - 1)
  <2>1. info_txt' = info_txt
    BY <1>5, NoFileAssumption DEF Taken
  <2>2. Taken(info_txt, off[y], stage[y] - 1)'
    BY <1>2, <1>3, <1>5, <2>1 DEF Taken, StaleRow, Content
  <2> QED BY <1>1, <1>2, <1>3, <1>5, <2>2 DEF Round
<1>6. CASE pc[y] = "info" /\ AllTaken(info_txt)
  <2>1. info_txt' = info_txt
    BY <1>6, NoFileAssumption DEF AllTaken, Taken
  <2>2. AllTaken(info_txt)'
    BY <1>3, <1>6, <2>1 DEF AllTaken, Taken, StaleRow, Content
  <2> QED BY <1>1, <1>2, <1>3, <1>6, <2>2 DEF Round
<1> QED BY <1>1, <1>4, <1>5, <1>6 DEF Round

\* A step of another publisher's process.
LEMMA OthersStep ==
  ASSUME ChainInv, FileTypes, WritesInv, RoundInv, NEW x \in Procs, Step(x),
         NEW p \in Pubs, p # x[1], mine'[p], link'[p] = "up"
  PROVE  \E y \in Procs : y[1] = p /\ Round(y)'
<1>1. x[1] \in Pubs
  BY ProcFacts
<1>2. ASSUME NEW y \in Procs, y[1] = p PROVE y # x /\ y # Child(x)
  BY <1>2 DEF Child
<1>3. ASSUME TopHeader(x) \/ TopRows(x) \/ Grep(x) PROVE FALSE
  <2>1. mine[x[1]] \in BOOLEAN
    BY <1>1 DEF FileTypes
  <2>2. \E own \in BOOLEAN : Disturbs(x[1], own)
    BY <1>3, <2>1 DEF TopHeader, TopRows, Grep
  <2> QED BY <1>1, <2>2, MineTypes DEF FileTypes
<1>4. mine' = mine \/ Spoils(x[1])
  BY <1>3 DEF Step, StartTop, Spin, TopMissing, ForkFailed, ExecFailed, StartGrep, SkipGrep,
     GrepMissing, Publish, Free, Segfault, PublishLost, PublishBroken, Resume, Fails
<1>5. mine[p]
  BY <1>1, <1>4, MineTypes DEF FileTypes
<1>6. link' = link \/ link' = [link EXCEPT ![x[1]] = "reset"]
  BY <1>3 DEF Step, StartTop, Spin, TopMissing, ForkFailed, ExecFailed, StartGrep, SkipGrep,
     GrepMissing, Publish, Free, Segfault, PublishLost, PublishBroken, Resume
<1>7. link[p] = "up"
  BY <1>6 DEF FileTypes
<1>8. \/ \E to : pc' = [pc EXCEPT ![x] = to]
      \/ \E to, next : pc' = [pc EXCEPT ![x] = to, ![Child(x)] = next]
  BY <1>3 DEF Step, StartTop, Spin, TopMissing, ForkFailed, ExecFailed, StartGrep, SkipGrep,
     GrepMissing, Publish, Free, Segfault, PublishLost, PublishBroken, Resume,
     NextCommand, Dies, Goes
<1>9. \A y \in Procs : y[1] = p => pc'[y] = pc[y]
  BY <1>2, <1>8 DEF ChainInv, ProcTypes
<1>10. CASE TopMissing(x)
  <2>1. UNCHANGED <<off, stage, info_txt>> /\ (NewTop => UNCHANGED top_txt)
    <3>1. UNCHANGED <<off, stage, info_txt>>
      BY <1>10 DEF TopMissing
    <3> QED BY <1>10, <3>1, TopMissingFiles
  <2> QED BY <1>5, <1>7, <1>9, <2>1, OthersRound
<1>11. CASE StartGrep(x)
  <2>1. UNCHANGED top_txt
    BY <1>11 DEF StartGrep
  <2>2. NewTop => UNCHANGED top_txt
    BY <2>1
  <2>3. /\ \A y \in Procs : y # x => off'[y] = off[y] /\ stage'[y] = stage[y]
        /\ info_txt # NULL => info_txt' = info_txt
    BY <1>11, StartGrepFiles
  <2> QED BY <1>2, <1>5, <1>7, <1>9, <2>2, <2>3, OthersRound
<1>12. CASE SkipGrep(x)
  <2>1. /\ UNCHANGED <<top_txt, info_txt>>
        /\ \A y \in Procs : y # x => off'[y] = off[y] /\ stage'[y] = stage[y]
    BY <1>12, SkipGrepFiles
  <2>2. NewTop => UNCHANGED top_txt
    BY <2>1
  <2> QED BY <1>2, <1>5, <1>7, <1>9, <2>1, <2>2, OthersRound
<1>13. CASE ~TopMissing(x) /\ ~StartGrep(x) /\ ~SkipGrep(x)
  <2>1. UNCHANGED <<off, stage, top_txt, info_txt>>
    BY <1>3, <1>13 DEF Step, StartTop, Spin, ForkFailed, ExecFailed, GrepMissing,
       Publish, Free, Segfault, PublishLost, PublishBroken, Resume, files
  <2>2. NewTop => UNCHANGED top_txt
    BY <2>1
  <2> QED BY <1>5, <1>7, <1>9, <2>1, <2>2, OthersRound
<1> QED BY <1>10, <1>11, <1>12, <1>13

\* A step of the publisher's own process.
LEMMA OwnStep ==
  ASSUME ChainInv, FileTypes, WritesInv, RoundInv, NEW x \in Procs, Step(x),
         mine'[x[1]], link'[x[1]] = "up"
  PROVE  Round(x)'
<1>1. x[1] \in Pubs
  BY ProcFacts
<1>2. ASSUME Spoils(x[1]) PROVE FALSE
  BY <1>1, <1>2, MineTypes DEF FileTypes
<1>3. ASSUME NEW to, pc' = [pc EXCEPT ![x] = to] PROVE pc'[x] = to
  BY <1>3 DEF ChainInv, ProcTypes
<1>4. ASSUME mine[x[1]], link[x[1]] = "up", pc[x] \in Running PROVE Round(x)
  BY <1>4, RoundOfRunner
<1>5. CASE TopHeader(x)
  <2>1. pc' = [pc EXCEPT ![x] = "top"]
    BY <1>5 DEF TopHeader, Goes
  <2>2. NewTop'
    BY <1>5, TopHeaderFiles
  <2>3. pc'[x] = "top"
    BY <1>3, <2>1
  <2> QED BY <2>2, <2>3 DEF Round
<1>6. CASE TopRows(x)
  <2>1. /\ pc' = [pc EXCEPT ![x] = "filter"] /\ pc[x] = "top" /\ link' = link
        /\ Disturbs(x[1], mine[x[1]])
    BY <1>6 DEF TopRows, Goes
  <2>2. mine[x[1]]
    <3>1. mine[x[1]] \in BOOLEAN
      BY <1>1 DEF FileTypes
    <3>2. mine'[x[1]] = mine[x[1]]
      BY <1>1, <2>1, <3>1, MineTypes DEF FileTypes
    <3> QED BY <3>2
  <2>3. Round(x)
    BY <1>4, <2>1, <2>2 DEF Running, Places
  <2>4. NewTop
    BY <2>1, <2>3 DEF Round
  <2>5. NewTop'
    BY <1>6, <2>4, TopRowsFiles
  <2>6. pc'[x] = "filter"
    BY <1>3, <2>1
  <2> QED BY <2>5, <2>6 DEF Round
<1>7. CASE StartGrep(x)
  <2>1. /\ pc' = [pc EXCEPT ![x] = "grep"] /\ pc[x] = "filter"
        /\ UNCHANGED <<link, mine, top_txt>>
    BY <1>7 DEF StartGrep, Goes
  <2>2. Round(x)
    BY <1>4, <2>1 DEF Running, Places
  <2>3. NewTop'
    BY <2>1, <2>2 DEF Round, NewTop, IsTop
  <2>4. off'[x] = 0 /\ stage'[x] = 1 /\ info_txt' \in Seq(Lines)
    BY <1>7, StartGrepFiles
  <2>5. Taken(info_txt, off[x], stage[x] - 1)'
    <3>1. Len(info_txt') \in Nat /\ 0 \in 0 .. Len(info_txt')
      BY <2>4
    <3>2. stage'[x] - 1 = 0
      BY <2>4
    <3>3. (\A i \in 1 .. 0 : FALSE) /\ ~(0 >= 1) /\ ~(0 >= 2)
      OBVIOUS
    <3> QED BY <2>4, <3>1, <3>2, <3>3 DEF Taken
  <2>6. pc'[x] = "grep"
    BY <1>3, <2>1
  <2> QED BY <2>3, <2>5, <2>6 DEF Round
<1>8. CASE Grep(x)
  <2> DEFINE k == stage[x]
  <2>1. /\ pc[x] = "grep" /\ pc' = [pc EXCEPT ![x] = IF k = 3 THEN "info" ELSE "grep"]
        /\ k \in 1 .. 3 /\ stage'[x] = IF k = 3 THEN 1 ELSE k + 1
    BY <1>8, CommandDone DEF Grep
  <2>2. link' = link /\ Disturbs(x[1], mine[x[1]])
    BY <1>8 DEF Grep
  <2>3. mine[x[1]]
    <3>1. mine[x[1]] \in BOOLEAN
      BY <1>1 DEF FileTypes
    <3>2. mine'[x[1]] = mine[x[1]]
      BY <1>1, <2>2, <3>1, MineTypes DEF FileTypes
    <3> QED BY <3>2
  <2>4. Round(x)
    BY <1>4, <2>1, <2>2, <2>3 DEF Running, Places
  <2>5. NewTop /\ Taken(info_txt, off[x], k - 1) /\ off[x] \in Nat
    BY <2>1, <2>4 DEF Round, FileTypes
  <2> DEFINE at == off[x]
             f == Overwrite(info_txt, at, Selected(k))
             long == Len(Selected(k))
  <2>6. (k = 3 => AllTaken(f)) /\ (k # 3 => Taken(f, at + long, k))
    <3>1. PICK c \in 1 .. 3 : c = k
      BY <2>1
    <3>2. PICK a \in Nat : a = at
      BY <2>5
    <3>3. Taken(info_txt, a, c - 1) /\ NewTop
      BY <2>5, <3>1, <3>2
    <3> DEFINE o == Overwrite(info_txt, a, Selected(c))
    <3>4. (c = 3 => AllTaken(o)) /\ (c # 3 => Taken(o, a + Len(Selected(c)), c))
      BY <3>3, GrepTakes
    <3> QED BY <3>1, <3>2, <3>4
  <2>7. info_txt' = f
    BY <1>8 DEF Grep
  <2>8. /\ UNCHANGED top_txt
        /\ off'[x] = IF k = 3 THEN 0 ELSE at + long
    BY <1>8, GrepFiles
  <2>9. NewTop'
    BY <2>5, <2>8 DEF NewTop, IsTop
  <2> HIDE DEF f, long
  <2>10. CASE k = 3
    <3>1. pc'[x] = "info"
      BY <1>3, <2>1, <2>10
    <3>2. AllTaken(info_txt)'
      BY <2>6, <2>7, <2>8, <2>10 DEF AllTaken, Taken, StaleRow, Content
    <3> QED BY <2>9, <3>1, <3>2 DEF Round
  <2>11. CASE k # 3
    <3>1. pc'[x] = "grep"
      BY <1>3, <2>1, <2>11
    <3>2. stage'[x] - 1 = k
      BY <2>1, <2>11
    <3>3. off'[x] = at + long
      BY <2>8, <2>11
    <3>4. Taken(f, at + long, k)
      BY <2>6, <2>11
    <3>5. Taken(info_txt, off[x], stage[x] - 1)'
      <4> HIDE DEF k, at
      <4> QED BY <2>7, <2>8, <3>2, <3>3, <3>4 DEF Taken, StaleRow, Content
    <3> QED BY <2>9, <3>1, <3>5 DEF Round
  <2> QED BY <2>10, <2>11
<1>9. CASE Resume(x)
  <2>1. pc[x] = "wait" /\ pc[Child(x)] = "none" /\ mine' = mine /\ link' = link
    BY <1>9 DEF Resume
  <2> QED BY <2>1, RoundOfRunner
<1>10. CASE StartTop(x) \/ Free(x)
  <2>1. mine' = mine /\ link' = link /\ pc[x] \in {"update", "sent"}
    BY <1>10 DEF StartTop, Free, Goes
  <2>2. Round(x)
    BY <1>4, <2>1 DEF Running, Places
  <2> QED BY <2>1, <2>2 DEF Round
<1>11. CASE Segfault(x)
  <2>1. mine' = mine /\ link' = link /\ pc[x] = "info" /\ ~Enough(Tokens)
    BY <1>11 DEF Segfault, Dies, Goes
  <2>2. Round(x)
    BY <1>4, <2>1 DEF Running, Places
  <2>3. AllTaken(info_txt)
    BY <2>1, <2>2 DEF Round
  <2> QED BY <2>1, <2>3, TakenMessage
<1>12. CASE PublishBroken(x)
  BY <1>12 DEF PublishBroken
<1>13. CASE \/ Spin(x) \/ TopMissing(x) \/ SkipGrep(x) \/ GrepMissing(x)
            \/ Publish(x) \/ PublishLost(x)
            \/ ForkFailed(x, "update", "filter") \/ ForkFailed(x, "filter", "info")
            \/ ExecFailed(x, "update", "exec_top", "filter")
            \/ ExecFailed(x, "filter", "exec_grep", "info")
  <2>1. Spoils(x[1])
    BY <1>13 DEF Spin, TopMissing, SkipGrep, GrepMissing, Publish, PublishLost, ForkFailed,
       ExecFailed, Fails
  <2> QED BY <1>2, <2>1
<1> QED BY <1>5, <1>6, <1>7, <1>8, <1>9, <1>10, <1>11, <1>12, <1>13 DEF Step

\* An undisturbed round goes on until its message is sent.
LEMMA StepRound ==
  ChainInv /\ FileTypes /\ WritesInv /\ RoundInv /\ [Next]_vars => RoundInv'
<1> SUFFICES ASSUME ChainInv, FileTypes, WritesInv, RoundInv, [Next]_vars,
                    NEW p \in Pubs, mine'[p], link'[p] = "up"
             PROVE  \E y \in Procs : y[1] = p /\ Round(y)'
  BY DEF RoundInv
<1>1. CASE UNCHANGED vars
  <2>1. UNCHANGED <<pc, stage, off, top_txt, info_txt, link, mine>>
    BY <1>1 DEF vars, files
  <2>2. NewTop => UNCHANGED top_txt
    BY <2>1
  <2> QED BY <2>1, <2>2, OthersRound
<1>2. CASE BrokerGone
  BY <1>2 DEF BrokerGone
<1>3. ASSUME NEW x \in Procs, Step(x) PROVE \E y \in Procs : y[1] = p /\ Round(y)'
  <2>1. CASE p = x[1]
    BY <1>3, <2>1, OwnStep
  <2>2. CASE p # x[1]
    BY <1>3, <2>2, OthersStep
  <2> QED BY <2>1, <2>2
<1> QED BY <1>1, <1>2, <1>3 DEF Next

\* What is sent at the end of an undisturbed round comes from it.
LEMMA StepWhole ==
  /\ ChainInv /\ FileTypes /\ RoundInv /\ UndisturbedIsWhole /\ [Next]_vars
  => UndisturbedIsWhole'
<1> SUFFICES ASSUME ChainInv, FileTypes, RoundInv, UndisturbedIsWhole, [Next]_vars
             PROVE  UndisturbedIsWhole'
  OBVIOUS
<1>1. CASE full_info' = full_info
  BY <1>1 DEF UndisturbedIsWhole
<1>2. ASSUME NEW x \in Procs, Free(x) PROVE UndisturbedIsWhole'
  <2>1. full_info' = [full_info EXCEPT ![x[1]] = NULL]
    BY <1>2 DEF Free
  <2> QED BY <2>1 DEF UndisturbedIsWhole, FileTypes
<1>3. ASSUME NEW x \in Procs, Publish(x) PROVE UndisturbedIsWhole'
  <2>1. PICK m \in Messages :
          full_info' = [full_info EXCEPT ![x[1]] =
                          [tokens |-> m, mine |-> mine[x[1]], stale |-> StaleRow]]
    BY <1>3 DEF Publish
  <2>2. link[x[1]] = "up" /\ pc[x] = "info"
    BY <1>3 DEF Publish, Goes
  <2>3. ASSUME mine[x[1]]
        PROVE  \A k \in DOMAIN Positions : Positions[k] \in {1, 5} \/ ~StaleRow => m[k].new
    <3>1. Round(x)
      BY <2>2, <2>3, RoundOfRunner DEF Running, Places
    <3>2. AllTaken(info_txt)
      BY <2>2, <3>1 DEF Round
    <3>3. /\ Enough(Tokens)
          /\ \A k \in DOMAIN Positions :
               Positions[k] \in {1, 5} \/ ~StaleRow => Pick(Tokens)[k].new
      BY <3>2, TakenMessage
    <3>4. m = Pick(Tokens)
      BY <3>3 DEF Messages
    <3> QED BY <3>3, <3>4
  <2>4. /\ x[1] \in Pubs /\ full_info'[x[1]].tokens = m
        /\ full_info'[x[1]].mine = mine[x[1]] /\ full_info'[x[1]].stale = StaleRow
        /\ \A q \in Pubs : q # x[1] => full_info'[q] = full_info[q]
    BY <2>1, ProcFacts DEF FileTypes
  <2>5. ASSUME NEW p \in Pubs, full_info'[p] # NULL, full_info'[p].mine,
               NEW k \in DOMAIN Positions, Positions[k] \in {1, 5} \/ ~full_info'[p].stale
        PROVE  full_info'[p].tokens[k].new
    <3>1. CASE p = x[1]
      BY <2>3, <2>4, <2>5, <3>1
    <3>2. CASE p # x[1]
      BY <2>4, <2>5, <3>2 DEF UndisturbedIsWhole
    <3> QED BY <3>1, <3>2
  <2> QED BY <2>5 DEF UndisturbedIsWhole
<1>4. ASSUME NEW x \in Procs, Step(x), ~Free(x), ~Publish(x) PROVE full_info' = full_info
  BY <1>4 DEF Step, StartTop, Spin, TopMissing, TopHeader, TopRows, ForkFailed, ExecFailed,
     StartGrep, Grep, SkipGrep, GrepMissing, Segfault, PublishLost, PublishBroken, Resume
<1>5. UNCHANGED vars \/ BrokerGone => full_info' = full_info
  BY DEF vars, BrokerGone
<1> QED BY <1>1, <1>2, <1>3, <1>4, <1>5 DEF Next

\* The directory is empty or holds the files of an earlier day.
LEMMA InitFiles == Init => FileTypes /\ WritesInv /\ RoundInv /\ UndisturbedIsWhole
<1> SUFFICES ASSUME Init PROVE FileTypes /\ WritesInv /\ RoundInv /\ UndisturbedIsWhole
  OBVIOUS
<1> DEFINE h == Header("normal")
<1>1. IsTop(h) /\ h \in Seq(Lines) /\ Len(h) = 4
  <2>1. "normal" \in {"normal", "idle", "busy"}
    OBVIOUS
  <2> HIDE DEF h
  <2>2. IsTop(h) /\ Len(h) = 4
    BY <2>1, HeaderWrites DEF h
  <2>3. h \in Seq(Lines)
    BY <2>2 DEF IsTop
  <2> QED BY <2>2, <2>3
<1>2. ASSUME NEW rows \in Rows("normal"),
             LET old == h \o rows
             IN  /\ top_txt = Aged(old)
                 /\ info_txt = Aged(Matching(old, "Cpu") \o Matching(old, "Tasks")
                                      \o Matching(old, "Mem"))
      PROVE  IsTop(top_txt) /\ info_txt \in Seq(Lines)
  <2> DEFINE old == h \o rows
             c == Matching(old, "Cpu")
             t == Matching(old, "Tasks")
             m == Matching(old, "Mem")
             ct == c \o t
             ctm == ct \o m
  <2>1. top_txt = Aged(old) /\ info_txt = Aged(ctm)
    BY <1>2
  <2>2. rows \in Seq(Lines)
    BY RowsWrite
  <2> HIDE DEF h
  <2>3. /\ old \in Seq(Lines) /\ Len(old) = 4 + Len(rows)
        /\ \A i \in 1 .. 4 + Len(rows) : old[i] = IF i <= 4 THEN h[i] ELSE rows[i - 4]
    <3>1. /\ old \in Seq(Lines) /\ Len(old) = Len(h) + Len(rows)
          /\ \A i \in 1 .. Len(h) + Len(rows) :
               old[i] = IF i <= Len(h) THEN h[i] ELSE rows[i - Len(h)]
      BY <1>1, <2>2, ConcatProperties
    <3> HIDE DEF old
    <3> QED BY <1>1, <3>1
  <2> HIDE DEF old
  <2>4. PICK n \in Nat : n = Len(rows)
    BY <2>2
  <2>5. Len(old) >= 4 /\ \A i \in 1 .. 4 : i \in 1 .. 4 + n /\ i \in 1 .. Len(old) /\ i <= 4
    BY <2>3, <2>4
  <2>6. \A i \in 1 .. 4 : old[i] = h[i]
    BY <2>3, <2>4, <2>5
  <2>7. c \in Seq(Lines) /\ t \in Seq(Lines) /\ m \in Seq(Lines)
    BY <2>3, MatchingOf
  <2> HIDE DEF c, t, m
  <2>8. ct \in Seq(Lines)
    BY <2>7, ConcatProperties
  <2> HIDE DEF ct
  <2>9. ctm \in Seq(Lines)
    BY <2>7, <2>8, ConcatProperties
  <2> HIDE DEF ctm
  <2>10. info_txt \in Seq(Lines)
    BY <2>1, <2>9, AgedFile
  <2>11. /\ Aged(old) \in Seq(Lines) /\ Len(Aged(old)) = Len(old)
         /\ \A i \in 1 .. Len(old) :
              Aged(old)[i].kind = old[i].kind /\ Aged(old)[i].words = old[i].words
    BY <2>3, AgedFile
  <2>12. IsTop(Aged(old))
    BY <1>1, <2>5, <2>6, <2>11 DEF IsTop
  <2> QED BY <2>1, <2>10, <2>12
<1>3. (top_txt = NULL /\ info_txt = NULL) \/ (IsTop(top_txt) /\ info_txt \in Seq(Lines))
  BY <1>2 DEF Init
<1>4. top_txt \in {NULL, <<>>} \/ IsTop(top_txt)
  BY <1>3
<1>5. info_txt = NULL \/ info_txt \in Seq(Lines)
  BY <1>3
<1>6. FileTypes
  BY <1>4, <1>5 DEF Init, FileTypes
<1>7. WritesInv
  BY DEF Init, WritesInv
<1>8. RoundInv /\ UndisturbedIsWhole
  BY DEF Init, RoundInv, UndisturbedIsWhole
<1> QED BY <1>6, <1>7, <1>8

\* In a message of a round in which nothing has failed and nobody else has
\* written, cpu/gen and cpu/sys are of this round, and everything is unless an
\* older row of top.txt has got into the first two greps: for any number of
\* publishers, processes and rows, whatever words the rows hold and whatever
\* files earlier rounds have left (exec_top.c line 43, exec_grep.c lines 25-32).
THEOREM UndisturbedHolds == Spec => []UndisturbedIsWhole
<1>1. Init => SampleInv
  BY InitFiles, InitChain DEF SampleInv
<1>2. SampleInv /\ [Next]_vars => SampleInv'
  BY StepChain, StepFiles, StepRound, StepWhole DEF SampleInv
<1>3. SampleInv => UndisturbedIsWhole
  BY DEF SampleInv
<1> QED BY <1>1, <1>2, <1>3, PTL DEF Spec
=============================================================================
