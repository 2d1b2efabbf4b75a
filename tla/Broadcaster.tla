---------------------------- MODULE Broadcaster -----------------------------
(***************************************************************************)
(* The event broadcaster of the web dashboard (pkg/web/broadcaster.go) and *)
(* the Server-Sent-Events handlers that read from it (handleStream in      *)
(* pkg/web/server.go).                                                     *)
(*                                                                         *)
(* Every method of Broadcaster holds b.mu from its first to its last       *)
(* statement and never waits while it does, so one method is one action.   *)
(* An event is abstracted to its number in the order of Broadcast calls.   *)
(* A stream is one GET /api/v1/stream request: it owns one channel for its *)
(* whole life, so the channel is named by the stream.                      *)
(***************************************************************************)
EXTENDS Naturals, Sequences

CONSTANTS
  Streams,        \* the stream requests that may arrive
  BufCap,         \* capacity of a subscriber channel (32 in the code)
  DefaultMax,     \* history limit of a new broadcaster (1,000,000)
  HardMax,        \* largest history limit accepted (5,000,000)
  Limits,         \* limits passed to SetMaxHistory, 0 among them
  MaxPublished    \* bound: number of Broadcast calls

ASSUME BroadcasterAssumption ==
  /\ BufCap \in Nat \ {0}
  /\ DefaultMax \in Nat \ {0}
  /\ HardMax \in Nat \ {0}
  /\ DefaultMax <= HardMax
  /\ Limits \subseteq Nat
  /\ MaxPublished \in Nat

VARIABLES
  history,        \* Broadcaster.history, oldest first
  maxHistory,     \* Broadcaster.maxHistory
  subscribers,    \* Broadcaster.subscribers
  buf,            \* buf[s]: what the channel of s holds
  closed,         \* the channels that were closed
  pc,             \* control state of each stream handler
  gone,           \* the streams whose request context is done
  taken,          \* taken[s]: the events the handler of s received
  published,      \* number of Broadcast calls (the number of the last event)
  since           \* since[s]: value of published when s subscribed

vars == <<history, maxHistory, subscribers, buf, closed, pc, gone, taken,
          published, since>>

(* idle: request not arrived; select: blocked in the select statement;     *)
(* write: inside Fprintf/Flush of the last taken event; done: returned.    *)
PC == {"idle", "select", "write", "done"}

Init ==
  /\ history = <<>>
  /\ maxHistory = DefaultMax
  /\ subscribers = {}
  /\ buf = [s \in Streams |-> <<>>]
  /\ closed = {}
  /\ pc = [s \in Streams |-> "idle"]
  /\ gone = {}
  /\ taken = [s \in Streams |-> <<>>]
  /\ published = 0
  /\ since = [s \in Streams |-> 0]
-----------------------------------------------------------------------------
(* Mutant of LastN: the oldest events are kept instead of the newest.      *)
FirstN(seq, n) == IF Len(seq) > n THEN SubSeq(seq, 1, n) ELSE seq

(* The last n elements of a sequence: b.history[len(b.history)-n:].        *)
LastN(seq, n) ==
  IF Len(seq) > n THEN SubSeq(seq, Len(seq) - n + 1, Len(seq)) ELSE seq

(* The limit SetMaxHistory stores for the value it is given.               *)
Clamp(limit) ==
  IF limit = 0 THEN DefaultMax ELSE IF limit > HardMax THEN HardMax ELSE limit

SetMaxHistory(limit) ==
  /\ maxHistory' = Clamp(limit)
  /\ history' = LastN(history, Clamp(limit))
  /\ UNCHANGED <<subscribers, buf, closed, pc, gone, taken, published, since>>

ClearHistory ==
  /\ history' = <<>>
  /\ UNCHANGED <<maxHistory, subscribers, buf, closed, pc, gone, taken,
                 published, since>>

(* Mutant of Receivers: an off-by-one in the capacity test.                *)
ReceiversOffByOne == {s \in subscribers : Len(buf[s]) + 1 < BufCap}

(* The channels that have room: the send of the others takes the default   *)
(* branch of the select and the event is dropped for them.                 *)
Receivers == {s \in subscribers : Len(buf[s]) < BufCap}

Broadcast ==
  /\ published < MaxPublished
  /\ published' = published + 1
  /\ history' = LastN(Append(history, published + 1), maxHistory)
  /\ buf' = [s \in Streams |-> IF s \in Receivers
                               THEN Append(buf[s], published + 1) ELSE buf[s]]
  /\ UNCHANGED <<maxHistory, subscribers, closed, pc, gone, taken, since>>
-----------------------------------------------------------------------------
(* Mutant of Subscribe: the backlog is replayed into the new channel.      *)
SubscribeWithBacklog(s) ==
  /\ pc[s] = "idle"
  /\ subscribers' = subscribers \cup {s}
  /\ since' = [since EXCEPT ![s] = published]
  /\ pc' = [pc EXCEPT ![s] = "select"]
  /\ buf' = [buf EXCEPT ![s] = LastN(history, BufCap)]
  /\ UNCHANGED <<history, maxHistory, closed, gone, taken, published>>

(* handleStream: the headers are flushed and the channel is registered.    *)
Subscribe(s) ==
  /\ pc[s] = "idle"
  /\ subscribers' = subscribers \cup {s}
  /\ since' = [since EXCEPT ![s] = published]
  /\ pc' = [pc EXCEPT ![s] = "select"]
  /\ UNCHANGED <<history, maxHistory, buf, closed, gone, taken, published>>

(* Mutant of Receive: the event stays in the channel.                      *)
ReceivePeeks(s) ==
  /\ pc[s] = "select"
  /\ buf[s] # <<>>
  /\ taken' = [taken EXCEPT ![s] = Append(@, Head(buf[s]))]
  /\ pc' = [pc EXCEPT ![s] = "write"]
  /\ UNCHANGED <<history, maxHistory, subscribers, buf, closed, gone,
                 published, since>>

(* case event := <-ch.  The select may take this branch although the       *)
(* context is done: Go picks one of the ready branches.                    *)
Receive(s) ==
  /\ pc[s] = "select"
  /\ buf[s] # <<>>
  /\ taken' = [taken EXCEPT ![s] = Append(@, Head(buf[s]))]
  /\ buf' = [buf EXCEPT ![s] = Tail(@)]
  /\ pc' = [pc EXCEPT ![s] = "write"]
  /\ UNCHANGED <<history, maxHistory, subscribers, closed, gone, published,
                 since>>

(* Fprintf and Flush return: at once, late (a slow client) or with an      *)
(* error nobody looks at (the client left); the loop goes on in any case.  *)
WriteReturns(s) ==
  /\ pc[s] = "write"
  /\ pc' = [pc EXCEPT ![s] = "select"]
  /\ UNCHANGED <<history, maxHistory, subscribers, buf, closed, gone, taken,
                 published, since>>

(* The client closes the tab or the connection breaks: net/http cancels    *)
(* the request context.                                                    *)
ClientLeaves(s) ==
  /\ pc[s] # "done"
  /\ s \notin gone
  /\ gone' = gone \cup {s}
  /\ UNCHANGED <<history, maxHistory, subscribers, buf, closed, pc, taken,
                 published, since>>

(* Mutant of Unsubscribe: the channel is closed but stays in the map.      *)
UnsubscribeStaysInMap(s) ==
  /\ pc[s] = "select"
  /\ s \in gone
  /\ pc' = [pc EXCEPT ![s] = "done"]
  /\ closed' = closed \cup {s}
  /\ UNCHANGED <<history, maxHistory, subscribers, buf, gone, taken, published,
                 since>>

(* Mutant of Unsubscribe: the loop has no context branch, it only ends     *)
(* when its channel is closed.                                             *)
UnsubscribeOnClose(s) ==
  /\ pc[s] = "select"
  /\ s \in closed
  /\ pc' = [pc EXCEPT ![s] = "done"]
  /\ subscribers' = subscribers \ {s}
  /\ UNCHANGED <<history, maxHistory, buf, closed, gone, taken, published,
                 since>>

(* case <-r.Context().Done(): return, which runs the deferred Unsubscribe. *)
Unsubscribe(s) ==
  /\ pc[s] = "select"
  /\ s \in gone
  /\ pc' = [pc EXCEPT ![s] = "done"]
  /\ subscribers' = subscribers \ {s}
  /\ closed' = IF s \in subscribers THEN closed \cup {s} ELSE closed
  /\ UNCHANGED <<history, maxHistory, buf, gone, taken, published, since>>

Handler(s) == Subscribe(s) \/ Receive(s) \/ WriteReturns(s) \/ Unsubscribe(s)

Next ==
  \/ Broadcast
  \/ ClearHistory
  \/ \E limit \in Limits : SetMaxHistory(limit)
  \/ \E s \in Streams : Handler(s) \/ ClientLeaves(s)

Spec == Init /\ [][Next]_vars

(* The prober keeps broadcasting, and a handler that can move does move:   *)
(* Go schedules every runnable goroutine.  A write to a client that left   *)
(* returns; a write to a client that is slow need not, so WriteReturns is  *)
(* fair only once the client left.  The select of handleStream picks at    *)
(* random among its ready branches, hence strong fairness for the context  *)
(* branch.                                                                 *)
FairSpec ==
  /\ Spec
  /\ WF_vars(Broadcast)
  /\ \A s \in Streams :
       /\ WF_vars(Receive(s))
       /\ WF_vars(s \in gone /\ WriteReturns(s))
       /\ SF_vars(Unsubscribe(s))
-----------------------------------------------------------------------------
(* Everything the channel of s ever carried, in the order it was sent.     *)
Carried(s) == taken[s] \o buf[s]

TypeOK ==
  /\ history \in Seq(Nat)
  /\ maxHistory \in 1..HardMax
  /\ subscribers \subseteq Streams
  /\ buf \in [Streams -> Seq(Nat)]
  /\ closed \subseteq Streams
  /\ pc \in [Streams -> PC]
  /\ gone \subseteq Streams
  /\ taken \in [Streams -> Seq(Nat)]
  /\ published \in 0..MaxPublished
  /\ since \in [Streams -> 0..published]

(* The history a page, an export or a late browser reads has no hole, no   *)
(* duplicate and no stale tail: it is exactly the most recent events, and  *)
(* never more of them than the limit in force (Broadcast, SetMaxHistory).  *)
HistoryIsRecent ==
  /\ Len(history) <= maxHistory
  /\ \A i \in 1..Len(history) : history[i] = published - Len(history) + i

(* A channel is registered exactly while its handler is inside its loop,   *)
(* and is closed exactly when the handler has returned: Broadcast never    *)
(* sends on a closed channel (which would panic) and a returned handler    *)
(* leaves no channel behind in the map (Subscribe, Unsubscribe).  Before   *)
(* that nothing can have been sent.                                        *)
ChannelLifecycle ==
  \A s \in Streams :
    /\ s \in subscribers <=> pc[s] \in {"select", "write"}
    /\ s \in closed <=> pc[s] = "done"
    /\ pc[s] = "idle" => buf[s] = <<>> /\ taken[s] = <<>>

(* A stream sees events in publication order, without repetition, and none *)
(* from before it subscribed: its i-th event is at least the i-th one      *)
(* published since (Broadcast, handleStream).                              *)
StreamInOrder ==
  \A s \in Streams :
    /\ \A i \in 1..Len(Carried(s)) :
         since[s] + i <= Carried(s)[i] /\ Carried(s)[i] <= published
    /\ \A i, j \in 1..Len(Carried(s)) : i < j => Carried(s)[i] < Carried(s)[j]

(* An event is lost only behind a full buffer: as long as the stream is    *)
(* registered, the first BufCap events published after it subscribed all   *)
(* reach it, in place (the non-blocking send of Broadcast).                *)
NoEarlyLoss ==
  \A s \in subscribers : \A k \in 1..BufCap :
    since[s] + k <= published =>
      /\ k <= Len(Carried(s))
      /\ Carried(s)[k] = since[s] + k

(* The feed as its clients may rely on it.                                 *)
Feed == INSTANCE LossyFeed WITH
          joined <- subscribers, left <- closed,
          feed <- [s \in Streams |-> Carried(s)]

(* The broadcaster implements the lossy feed: every step of the code is a  *)
(* step of LossyFeed or leaves it unchanged.                               *)
ImplementsFeed == Feed!FeedSpec

(* A stream whose client left ends and gives its channel back, even when   *)
(* it was stuck in a write (the deferred Unsubscribe of handleStream).     *)
StreamReclaimed ==
  \A s \in Streams : (pc[s] # "idle" /\ s \in gone) ~> (pc[s] = "done")
=============================================================================
