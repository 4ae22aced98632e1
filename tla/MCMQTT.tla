------------------------------- MODULE MCMQTT -------------------------------
(***************************************************************************)
(* TLC instances of MQTT: which clients there are and what they ask for.   *)
(***************************************************************************)
EXTENDS MQTT

CONSTANTS p1, p2, s1, s2,         \* clients; a client's name is itself
          ghost                   \* a node name nobody has

MCName == [c \in Clients |-> c]

\* Publishers publish; s1 and s2 follow p1.
MCSus == [c \in Clients |-> IF c \in {p1, p2} THEN NONE ELSE p1]

\* s2 follows a node that is not connected.
GhostSus == [c \in Clients |-> IF c \in {p1, p2} THEN NONE
                               ELSE IF c = s1 THEN p1 ELSE ghost]

\* s2 follows a subscriber, a node that never publishes.
ChainSus == [c \in Clients |-> IF c \in {p1, p2} THEN NONE
                               ELSE IF c = s1 THEN p1 ELSE s1]

\* A publisher's entry is never used.
WantFirst == [c \in Clients |-> {1}]
WantAll == [c \in Clients |-> Topics]
WantTwoOfThree == [c \in Clients |-> {1, 3}]
=============================================================================
