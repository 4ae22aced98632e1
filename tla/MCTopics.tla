------------------------------ MODULE MCTopics ------------------------------
(***************************************************************************)
(* The TLC instance of Topics.                                             *)
(***************************************************************************)
EXTENDS Topics

\* The levels of the README and of the usage text of sub_client.c.
MCLevels ==
  {"#", "+", "tasks", "task", "cpu", "mem", "ram", "gen", "run", "sleep", "sys"}

\* All subscriptions of one level and of two, and some of three.
MCSubscriptions ==
  {<<a>> : a \in MCLevels} \cup {<<a, b>> : a \in MCLevels, b \in MCLevels}
    \cup {<<a, "gen", "#">> : a \in MCLevels}

\* An uninitialised entry may or may not hold the value that means "excluded".
MCResidue == {-1, 0}
=============================================================================
