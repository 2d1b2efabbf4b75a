----------------------------- MODULE LossyFeed ------------------------------
(***************************************************************************)
(* What netping's live event feed promises to a browser tab, independently *)
(* of locks, channels and buffers.                                         *)
(*                                                                         *)
(* Events are numbered in the order they are published.  A listener joins  *)
(* once, is handed some of the events published while it is joined, and    *)
(* leaves once.  The feed may skip events for a listener, but it never     *)
(* repeats one, never reorders two, never hands over an event published    *)
(* before the listener joined, and never hands over anything afterwards.   *)
(***************************************************************************)
EXTENDS Naturals, Sequences

CONSTANT Streams                \* the listeners that may ever join

VARIABLES
  published,                    \* how many events were published so far
  joined,                       \* the listeners that are joined
  left,                         \* the listeners that have left
  feed                          \* feed[s]: what was handed to s, in order

feedVars == <<published, joined, left, feed>>

FeedInit ==
  /\ published = 0
  /\ joined = {}
  /\ left = {}
  /\ feed = [s \in Streams |-> <<>>]

Join(s) ==
  /\ s \notin joined \cup left
  /\ joined' = joined \cup {s}
  /\ UNCHANGED <<published, left, feed>>

(* The next event reaches an arbitrary set R of the joined listeners.      *)
Publish(R) ==
  /\ published' = published + 1
  /\ feed' = [s \in Streams |-> IF s \in R THEN Append(feed[s], published + 1)
                                           ELSE feed[s]]
  /\ UNCHANGED <<joined, left>>

Leave(s) ==
  /\ s \in joined
  /\ joined' = joined \ {s}
  /\ left' = left \cup {s}
  /\ UNCHANGED <<published, feed>>

FeedNext ==
  \/ \E s \in Streams : Join(s) \/ Leave(s)
  \/ \E R \in SUBSET joined : Publish(R)

FeedSpec == FeedInit /\ [][FeedNext]_feedVars
=============================================================================
