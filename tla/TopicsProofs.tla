---------------------------- MODULE TopicsProofs ----------------------------
(***************************************************************************)
(* What the topic filter makes of every subscription, whatever the         *)
(* uninitialised stack held: which subscriptions let another topic         *)
(* through, and that but for "+" at the end the stack alone can take a     *)
(* topic away.                                                             *)
(***************************************************************************)
EXTENDS Topics, SequenceTheorems, TLAPS

\* What subscribed_info and the row hold after each statement of lines 228-238.
FilterInv ==
  /\ levels \in Seq(STRING) /\ levels # <<>>
  /\ residue \in [Indices -> Int]
  /\ step = "update" => information = residue
  /\ step \in {"copy", "done"} => information = update_sus_info(levels, residue)
  /\ step = "done" => topic_row = information
  /\ step = "crash" => Dereferences(levels)

\* The six topics.
LEMMA IndexCases == Indices = {0, 1, 2, 3, 4, 5}
BY DEF Indices, TOPICS_NUMBER

\* What string_topics holds.
LEMMA TopicNames ==
  /\ string_topics[0] = <<"tasks", "gen">>
  /\ string_topics[1] = <<"tasks", "run">>
  /\ string_topics[2] = <<"tasks", "sleep">>
  /\ string_topics[3] = <<"cpu", "gen">>
  /\ string_topics[4] = <<"cpu", "sys">>
  /\ string_topics[5] = <<"mem", "gen">>
BY IndexCases DEF string_topics

\* The levels of the six topics.
LEMMA TopicLevels ==
  /\ string_topics[0][1] = "tasks" /\ string_topics[0][2] = "gen"
  /\ string_topics[1][1] = "tasks" /\ string_topics[1][2] = "run"
  /\ string_topics[2][1] = "tasks" /\ string_topics[2][2] = "sleep"
  /\ string_topics[3][1] = "cpu" /\ string_topics[3][2] = "gen"
  /\ string_topics[4][1] = "cpu" /\ string_topics[4][2] = "sys"
  /\ string_topics[5][1] = "mem" /\ string_topics[5][2] = "gen"
BY TopicNames

\* The README's meaning of the levels a and b.
Covers(a, b, j) ==
  a \in {"+", string_topics[j][1]} /\ b \in {"#", "+", string_topics[j][2]}

\* A subscription of two levels, "#" not the first of them, covers what its
\* levels say.
LEMMA TwoLevels ==
  ASSUME NEW subscription \in Seq(STRING), Len(subscription) = 2, NEW j \in Indices
  PROVE  TopicMatches(subscription, string_topics[j])
           <=> Covers(subscription[1], subscription[2], j)
<1>1. subscription # <<"#">>
  OBVIOUS
<1> QED BY <1>1 DEF TopicMatches, LevelMatches, Covers

\* Any other subscription covers everything, "#", or nothing.
LEMMA OtherLengths ==
  ASSUME NEW subscription \in Seq(STRING), Len(subscription) # 2, subscription # <<"#">>
  PROVE  Interested(subscription) = {}
BY DEF Interested, TopicMatches

\* A branch of update_sus_info that belongs to a covered topic m keeps no topic
\* that is not covered, but for "+" above a level other than "gen".
LEMMA KeepsCovered ==
  ASSUME NEW a, NEW b, NEW m \in Indices, NEW j \in Indices, a # "#",
         Covers(a, b, m), ~(a = "+" /\ b \notin {"gen", "#", "+"}),
         j \notin ExcludedBy(a, b)
  PROVE  Covers(a, b, j)
<1>1. a \in {"+", "tasks", "cpu", "mem"}
  BY IndexCases, TopicLevels DEF Covers
<1>2. CASE a = "+"
  BY <1>2, IndexCases, TopicLevels DEF Covers, ExcludedBy
<1>3. CASE a = "tasks"
  <2>1. b \in {"#", "+", "gen", "run", "sleep"}
    BY <1>3, IndexCases, TopicLevels DEF Covers
  <2> QED BY <1>3, <2>1, IndexCases, TopicLevels DEF Covers, ExcludedBy
<1>4. CASE a = "cpu"
  <2>1. b \in {"#", "+", "gen", "sys"}
    BY <1>4, IndexCases, TopicLevels DEF Covers
  <2> QED BY <1>4, <2>1, IndexCases, TopicLevels DEF Covers, ExcludedBy
<1>5. CASE a = "mem"
  <2>1. b \in {"#", "+", "gen"}
    BY <1>5, IndexCases, TopicLevels DEF Covers
  <2> QED BY <1>5, <2>1, IndexCases, TopicLevels DEF Covers, ExcludedBy
<1> QED BY <1>1, <1>2, <1>3, <1>4, <1>5

\* No branch excludes a topic that is covered, but for "+" as the last level.
LEMMA ExcludesUncovered ==
  ASSUME NEW a, NEW b, NEW j \in Indices, a # "#", b # "+", Covers(a, b, j)
  PROVE  j \notin ExcludedBy(a, b)
<1>1. CASE a = "+"
  BY <1>1, IndexCases, TopicLevels DEF Covers, ExcludedBy
<1>2. CASE a = string_topics[j][1]
  BY <1>2, IndexCases, TopicLevels DEF Covers, ExcludedBy
<1> QED BY <1>1, <1>2 DEF Covers

\* FilterInv is inductive.
LEMMA FilterInvHolds == Spec => []FilterInv
<1>1. Init => FilterInv
  BY SubscriptionsAssumption, ResidueAssumption DEF Init, FilterInv
<1>2. FilterInv /\ [Next]_vars => FilterInv'
  BY DEF FilterInv, Next, Update, Copy, vars, update_sus_info
<1> QED BY <1>1, <1>2, PTL DEF Spec

\* What a row holds for each topic.
LEMMA RowEntries ==
  ASSUME FilterInv, step = "done", NEW j \in Indices
  PROVE  topic_row[j] = IF j \in Excluded(levels) THEN -1 ELSE residue[j]
BY DEF FilterInv, update_sus_info

\* What update_sus_info excludes for two levels.
LEMMA ExcludedOfTwo ==
  ASSUME Len(levels) = 2, levels[1] # "#"
  PROVE  Excluded(levels) = ExcludedBy(levels[1], levels[2])
BY DEF Excluded, ReadsLastLevel

\* Only a subscription of one level brings the broker down, and a row of
\* topic_list selects a topic that the README does not promise only if the
\* subscription covers none or has "+" above a level other than "gen", for any
\* subscription and any content of the stack.
THEOREM UnwantedOnlyByFallbackHolds == Spec => []UnwantedOnlyByFallback
<1>1. FilterInv => UnwantedOnlyByFallback
  <2> SUFFICES ASSUME FilterInv
               PROVE  UnwantedOnlyByFallback
    OBVIOUS
  <2>1. ASSUME step = "crash"
        PROVE  Len(levels) = 1 /\ levels # <<"#">>
    <3>1. levels \in Seq(STRING) /\ levels # <<>> /\ Len(levels) < 2 /\ levels[1] # "#"
      BY <2>1 DEF FilterInv, Dereferences, ReadsLastLevel
    <3>2. Len(levels) \in Nat \ {0}
      BY <3>1, EmptySeq, Zenon
    <3>3. Len(levels) = 1
      <4>1. \A n \in Nat \ {0} : n < 2 => n = 1
        OBVIOUS
      <4> QED BY <3>1, <3>2, <4>1, Zenon
    <3>4. levels # <<"#">>
      <4>1. <<"#">>[1] = "#"
        OBVIOUS
      <4> QED BY <3>1, <4>1, Zenon
    <3> QED BY <3>3, <3>4
  <2>2. ASSUME step = "done", NEW m \in Interested(levels), ~PlusAbove(levels),
               NEW j \in Forwarded(topic_row)
        PROVE  j \in Interested(levels)
    <3>1. m \in Indices /\ j \in Indices /\ TopicMatches(levels, string_topics[m])
      BY <2>2 DEF Interested, Forwarded
    <3>2. CASE levels = <<"#">>
      BY <3>1, <3>2 DEF Interested, TopicMatches
    <3>3. CASE levels # <<"#">>
      <4>1. levels \in Seq(STRING) /\ Len(levels) = 2
        BY <2>2, <3>3, OtherLengths DEF FilterInv
      <4>2. Covers(levels[1], levels[2], m)
        BY <3>1, <4>1, TwoLevels
      <4>3. levels[1] # "#"
        BY <3>1, <4>2, IndexCases, TopicLevels DEF Covers
      <4>4. j \notin Excluded(levels)
        BY <2>2, <3>1, RowEntries DEF Forwarded
      <4>5. j \notin ExcludedBy(levels[1], levels[2])
        BY <4>1, <4>3, <4>4, ExcludedOfTwo
      <4>6. Covers(levels[1], levels[2], j)
        BY <2>2, <3>1, <4>1, <4>2, <4>3, <4>5, KeepsCovered DEF PlusAbove
      <4> QED BY <3>1, <4>1, <4>6, TwoLevels DEF Interested
    <3> QED BY <3>2, <3>3
  <2> QED BY <2>1, <2>2 DEF UnwantedOnlyByFallback
<1> QED BY <1>1, FilterInvHolds, PTL

\* No branch of the filter takes away a topic that a subscription covers,
\* unless "+" is its last level, for any subscription and any content of the
\* stack: an entry that is missing was -1 before.
THEOREM LostOnlyByResidueHolds == Spec => []LostOnlyByResidue
<1>1. FilterInv => LostOnlyByResidue
  <2> SUFFICES ASSUME FilterInv, step = "done", ~PlusBelow(levels),
                      NEW j \in Interested(levels) \ Forwarded(topic_row)
               PROVE  residue[j] = -1
    BY DEF LostOnlyByResidue
  <2>1. j \in Indices /\ topic_row[j] = -1 /\ TopicMatches(levels, string_topics[j])
    BY DEF Forwarded, Interested
  <2>2. j \notin Excluded(levels)
    <3>1. CASE levels = <<"#">>
      BY <3>1 DEF Excluded, ExcludedBy, ReadsLastLevel
    <3>2. CASE levels # <<"#">>
      <4>1. levels \in Seq(STRING) /\ Len(levels) = 2
        BY <3>2, OtherLengths DEF FilterInv
      <4>2. Covers(levels[1], levels[2], j)
        BY <2>1, <4>1, TwoLevels
      <4>3. levels[1] # "#"
        BY <2>1, <4>2, IndexCases, TopicLevels DEF Covers
      <4>4. j \notin ExcludedBy(levels[1], levels[2])
        BY <2>1, <4>1, <4>2, <4>3, ExcludesUncovered DEF PlusBelow
      <4> QED BY <4>1, <4>3, <4>4, ExcludedOfTwo
    <3> QED BY <3>1, <3>2
  <2> QED BY <2>1, <2>2, RowEntries
<1> QED BY <1>1, FilterInvHolds, PTL
=============================================================================
