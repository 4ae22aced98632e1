------------------------------- MODULE Topics -------------------------------
(***************************************************************************)
(* The topic filter of the broker: how thread() turns the second line of a *)
(* client, "<node>/<level>/<level>", into a row of topic_list.             *)
(*                                                                         *)
(* A subscription is the sequence of the levels after the node name, i.e.  *)
(* suscription[1], suscription[2] of the C code.  A row of topic_list is a *)
(* function from the topic indices 0..5 to integers; an entry different    *)
(* from -1 is forwarded.  The local array subscribed_info is never         *)
(* initialised: `residue' is what the stack held before.                   *)
(***************************************************************************)
EXTENDS Integers, Sequences

CONSTANTS Subscriptions,   \* the subscriptions clients may send
          Residue          \* values an uninitialised int may hold

\* sub_client.c asks for at least one level behind the node.
ASSUME SubscriptionsAssumption == Subscriptions \subseteq Seq(STRING) \ {<<>>}
ASSUME ResidueAssumption == Residue \subseteq Int

TOPICS_NUMBER == 6
Indices == 0 .. TOPICS_NUMBER - 1

\* The topic each index stands for, as its two levels.
string_topics ==
  [j \in Indices |-> CASE j = 0 -> <<"tasks", "gen">>
                       [] j = 1 -> <<"tasks", "run">>
                       [] j = 2 -> <<"tasks", "sleep">>
                       [] j = 3 -> <<"cpu", "gen">>
                       [] j = 4 -> <<"cpu", "sys">>
                       [] j = 5 -> <<"mem", "gen">>]

-----------------------------------------------------------------------------
\* Does update_sus_info dereference suscription[2] for these levels?
ReadsLastLevel(levels) == levels[1] # "#"

\* update_sus_info dereferences a level that split() never stored.
Dereferences(levels) == ReadsLastLevel(levels) /\ Len(levels) < 2

\* The entries that update_sus_info sets to -1; `last' is only looked at
\* where the code looks at suscription[2].
ExcludedBy(topic, last) ==
  CASE topic = "#"     -> {}
    [] topic = "+"     -> IF last = "gen" THEN {1, 2, 4} ELSE {}
    [] topic = "tasks" -> CASE last = "#"   -> {3, 4, 5}
                            [] last = "gen" -> Indices \ {0}
                            [] last = "run" -> Indices \ {1}
                            [] OTHER        -> Indices \ {2}
    [] topic = "cpu"   -> CASE last = "#"   -> {0, 1, 2, 5}
                            [] last = "gen" -> Indices \ {3}
                            [] OTHER        -> Indices \ {4}
    [] OTHER           -> Indices \ {5}

Excluded(levels) ==
  ExcludedBy(levels[1], IF ReadsLastLevel(levels) THEN levels[2] ELSE "")

\* Mutant of update_sus_info: the branches forget the last index.
UpdateForgetsMem(levels, information) ==
  [j \in Indices |-> IF j \in Excluded(levels) \ {5} THEN -1 ELSE information[j]]

\* Mutant of update_sus_info: every branch excludes the index of cpu/sys.
UpdateDropsSys(levels, information) ==
  [j \in Indices |-> IF j \in Excluded(levels) \cup {4} THEN -1 ELSE information[j]]

\* update_sus_info(suscription, information)
update_sus_info(levels, information) ==
  [j \in Indices |-> IF j \in Excluded(levels) THEN -1 ELSE information[j]]

\* The topics forward_message() sends for a row of topic_list.
Forwarded(row) == {j \in Indices : row[j] # -1}

-----------------------------------------------------------------------------
(* What the README says a subscription means.                              *)

LevelMatches(pattern, level) == pattern \in {"+", level}

TopicMatches(levels, topic) ==
  \/ levels = <<"#">>
  \/ Len(levels) = 2 /\ levels[2] = "#" /\ LevelMatches(levels[1], topic[1])
  \/ /\ Len(levels) = 2
     /\ LevelMatches(levels[1], topic[1])
     /\ LevelMatches(levels[2], topic[2])

Interested(levels) == {j \in Indices : TopicMatches(levels, string_topics[j])}

\* "+" above a level other than "gen": update_sus_info excludes nothing.
PlusAbove(levels) ==
  Len(levels) = 2 /\ levels[1] = "+" /\ levels[2] \notin {"gen", "#", "+"}

\* "+" as the last level below a topic: it is not looked for.
PlusBelow(levels) == Len(levels) = 2 /\ levels[2] = "+"

-----------------------------------------------------------------------------
(* thread() between the two semaphore operations, for one client.          *)

VARIABLES levels,       \* suscription[1..]
          residue,      \* what subscribed_info held before (history)
          information,  \* subscribed_info
          topic_row,    \* topic_list[fd_idx]
          step          \* "update" | "copy" | "done" | "crash"

vars == <<levels, residue, information, topic_row, step>>

Init ==
  /\ levels \in Subscriptions
  /\ residue \in [Indices -> Residue]
  /\ information = residue
  /\ topic_row = [j \in Indices |-> 0]
  /\ step = "update"

\* Line 233; a missing level is a null dereference in the shipped build.
Update ==
  /\ step = "update"
  /\ IF Dereferences(levels)
       THEN step' = "crash" /\ UNCHANGED information
       ELSE step' = "copy" /\ information' = update_sus_info(levels, information)
  /\ UNCHANGED <<levels, residue, topic_row>>

\* Lines 236-238.
Copy ==
  /\ step = "copy"
  /\ topic_row' = information
  /\ step' = "done"
  /\ UNCHANGED <<levels, residue, information>>

Next == Update \/ Copy

Spec == Init /\ [][Next]_vars

-----------------------------------------------------------------------------
(* Properties.                                                             *)

\* For every subscription and whatever the stack held in the array that line
\* 228 leaves uninitialised: update_sus_info follows a level that split() did
\* not store only if there is one level, not "#"; and a topic that the README
\* does not promise is selected only in two cases (lines 331-452).  Either the
\* subscription covers no topic at all and ends in a branch that takes it for
\* another one, as the README's own example node1/task/# does (README 44), or
\* it has "+" above a level other than "gen".
UnwantedOnlyByFallback ==
  /\ step = "crash" => Len(levels) = 1 /\ levels # <<"#">>
  /\ step = "done" =>
       \/ Forwarded(topic_row) \subseteq Interested(levels)
       \/ Interested(levels) = {}
       \/ PlusAbove(levels)

\* No branch of update_sus_info removes a topic that the subscription covers,
\* unless "+" is its last level: a topic that is missing from the row was
\* already missing from the uninitialised array of line 228, which held -1
\* there.
LostOnlyByResidue ==
  step = "done" =>
    \A j \in Interested(levels) \ Forwarded(topic_row) :
      residue[j] = -1 \/ PlusBelow(levels)

=============================================================================
