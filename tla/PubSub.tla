------------------------------- MODULE PubSub -------------------------------
(***************************************************************************)
(* What the system promises its users: a subscriber receives messages of   *)
(* the node it follows, cut down to the topics it wants, in the order they *)
(* were published and each of them whole, topic after topic.  A message    *)
(* may be left out, none is repeated, and nothing arrives after the end of *)
(* the service.                                                            *)
(***************************************************************************)
EXTENDS Integers, Sequences

CONSTANTS
  Publishers, Subscribers,
  Follows(_, _),    \* Follows(s, p): s has subscribed to the node p
  Wanted            \* Wanted[s]: the topics s has asked for

VARIABLES
  published,        \* how many messages each publisher has published
  delivered,        \* the parts of messages each subscriber has been sent
  up                \* the service runs

vars == <<published, delivered, up>>

Init ==
  /\ published = [p \in Publishers |-> 0]
  /\ delivered = [s \in Subscribers |-> <<>>]
  /\ up = TRUE

Publish(p) ==
  /\ up
  /\ published' = [published EXCEPT ![p] = @ + 1]
  /\ UNCHANGED <<delivered, up>>

\* The part with topic k of message n of p.
Part(p, n, k) == [from |-> p, seq |-> n, topic |-> k, value |-> k]

Last(s) == delivered[s][Len(delivered[s])]

\* Message n is the one being delivered to s, or may be begun: the one before
\* it is complete.
MayContinue(s, n) == delivered[s] # <<>> /\ Last(s).seq = n
MayBegin(s, n) ==
  delivered[s] # <<>> =>
    Last(s).seq < n /\ \A k \in Wanted[s] : k <= Last(s).topic

\* k is the first wanted topic behind `after'.
FirstBehind(s, after, k) ==
  k \in Wanted[s] /\ after < k /\ \A m \in Wanted[s] : after < m => k <= m

Deliver(s, p, n, k) ==
  /\ up
  /\ Follows(s, p)
  /\ n \in 1 .. published[p]
  /\ \/ MayContinue(s, n) /\ FirstBehind(s, Last(s).topic, k)
     \/ MayBegin(s, n) /\ FirstBehind(s, 0, k)
  /\ delivered' = [delivered EXCEPT ![s] = Append(@, Part(p, n, k))]
  /\ UNCHANGED <<published, up>>

End ==
  /\ up' = FALSE
  /\ UNCHANGED <<published, delivered>>

Next ==
  \/ \E p \in Publishers : Publish(p)
  \/ \E s \in Subscribers, p \in Publishers : \E n \in 1 .. published[p] :
       \E k \in Wanted[s] : Deliver(s, p, n, k)
  \/ End

Spec == Init /\ [][Next]_vars

=============================================================================
