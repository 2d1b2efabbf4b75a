-------------------------- MODULE BroadcasterProofs -------------------------
(***************************************************************************)
(* The broadcaster keeps its promises for every number of streams, every   *)
(* channel capacity, every history limit and any number of events, and it  *)
(* implements LossyFeed.                                                   *)
(*                                                                         *)
(* The invariants of Broadcaster are inductive together.  The argument     *)
(* that carries them: the i-th event of a stream is at least the i-th one  *)
(* published since it subscribed, and never newer than the last one        *)
(* published; so an event that is appended is larger than all before it,   *)
(* and the first BufCap events cannot slip out of place.                   *)
(***************************************************************************)
EXTENDS Broadcaster, SequenceTheorems, TLAPS

(* What Append does, element by element.                                   *)
LEMMA AppendIs ==
  ASSUME NEW seq \in Seq(Nat), NEW e \in Nat
  PROVE  /\ Append(seq, e) \in Seq(Nat)
         /\ Len(Append(seq, e)) = Len(seq) + 1
         /\ Append(seq, e)[Len(seq) + 1] = e
         /\ \A i \in 1..Len(seq) : Append(seq, e)[i] = seq[i]
  OBVIOUS

(* What LastN returns: the last elements, no more than n of them.          *)
LEMMA LastNIs ==
  ASSUME NEW seq \in Seq(Nat), NEW n \in Nat \ {0}
  PROVE  /\ LastN(seq, n) \in Seq(Nat)
         /\ Len(LastN(seq, n)) = IF Len(seq) > n THEN n ELSE Len(seq)
         /\ \A i \in 1..Len(LastN(seq, n)) :
              LastN(seq, n)[i] = seq[Len(seq) - Len(LastN(seq, n)) + i]
<1>1. CASE Len(seq) > n
  <2> DEFINE m == Len(seq) - n + 1
  <2>1. m \in 1..Len(seq) /\ LastN(seq, n) = SubSeq(seq, m, Len(seq))
    BY <1>1 DEF LastN
  <2>2. \A i \in m..Len(seq) : seq[i] \in Nat
    BY <2>1, ElementOfSeq
  <2>3. /\ SubSeq(seq, m, Len(seq)) \in Seq(Nat)
        /\ Len(SubSeq(seq, m, Len(seq))) = n
        /\ \A i \in 1..n : SubSeq(seq, m, Len(seq))[i] = seq[m + i - 1]
    <3>1. Len(seq) \in Nat
      OBVIOUS
    <3> HIDE DEF m
    <3>2. m \in Int /\ Len(seq) \in Int /\ m <= Len(seq) /\ Len(seq) - m + 1 = n
      BY <1>1, <2>1, <3>1 DEF m
    <3>3. /\ SubSeq(seq, m, Len(seq)) \in Seq(Nat)
          /\ Len(SubSeq(seq, m, Len(seq)))
               = IF m <= Len(seq) THEN Len(seq) - m + 1 ELSE 0
          /\ \A i \in 1..(Len(seq) - m + 1) :
               SubSeq(seq, m, Len(seq))[i] = seq[m + i - 1]
      BY <2>2, <3>2, SubSeqProperties
    <3> QED  BY <3>2, <3>3
  <2> QED  BY <1>1, <2>1, <2>3
<1>2. CASE ~(Len(seq) > n)
  BY <1>2 DEF LastN
<1> QED  BY <1>1, <1>2

(* The limit that SetMaxHistory stores is in range.                        *)
LEMMA ClampIs ==
  ASSUME NEW limit \in Limits
  PROVE  Clamp(limit) \in 1..HardMax
  BY BroadcasterAssumption DEF Clamp

(* Moving the head of a buffer to the end of what was taken leaves what    *)
(* the channel carried as it was.                                          *)
LEMMA MoveHead ==
  ASSUME NEW t \in Seq(Nat), NEW b \in Seq(Nat), b # <<>>
  PROVE  /\ Append(t, Head(b)) \in Seq(Nat)
         /\ Tail(b) \in Seq(Nat)
         /\ Append(t, Head(b)) \o Tail(b) = t \o b
<1>1. /\ Head(b) \in Nat /\ Tail(b) \in Seq(Nat) /\ Len(Tail(b)) = Len(b) - 1
      /\ Head(b) = b[1]
      /\ \A i \in 1..Len(Tail(b)) : Tail(b)[i] = b[i + 1]
  BY HeadTailProperties
<1>2. /\ Append(t, Head(b)) \in Seq(Nat)
      /\ Len(Append(t, Head(b))) = Len(t) + 1
      /\ Append(t, Head(b))[Len(t) + 1] = b[1]
      /\ \A i \in 1..Len(t) : Append(t, Head(b))[i] = t[i]
  BY <1>1, AppendIs
<1> DEFINE l == Append(t, Head(b)) \o Tail(b)
           r == t \o b
<1>3. /\ l \in Seq(Nat) /\ Len(l) = Len(t) + 1 + Len(b) - 1
      /\ \A i \in 1..Len(t) + Len(b) :
           l[i] = IF i <= Len(t) + 1 THEN Append(t, Head(b))[i]
                  ELSE Tail(b)[i - (Len(t) + 1)]
  BY <1>1, <1>2, ConcatProperties
<1>4. /\ r \in Seq(Nat) /\ Len(r) = Len(t) + Len(b)
      /\ \A i \in 1..Len(t) + Len(b) :
           r[i] = IF i <= Len(t) THEN t[i] ELSE b[i - Len(t)]
  BY ConcatProperties
<1>5. \A i \in 1..Len(t) + Len(b) : l[i] = r[i]
  <2> SUFFICES ASSUME NEW i \in 1..Len(t) + Len(b)  PROVE l[i] = r[i]
    OBVIOUS
  <2> HIDE DEF l, r
  <2>1. Len(t) \in Nat /\ Len(b) \in Nat
    OBVIOUS
  <2>2. /\ l[i] = IF i <= Len(t) + 1 THEN Append(t, Head(b))[i]
                 ELSE Tail(b)[i - (Len(t) + 1)]
        /\ r[i] = IF i <= Len(t) THEN t[i] ELSE b[i - Len(t)]
    BY <1>3, <1>4
  <2>3. CASE i <= Len(t)
    BY <2>1, <2>2, <2>3, <1>2
  <2>4. CASE i = Len(t) + 1
    <3>1. i - Len(t) = 1 /\ ~(i <= Len(t)) /\ i <= Len(t) + 1
      BY <2>1, <2>4
    <3> QED  BY <2>2, <2>4, <3>1, <1>2
  <2>5. CASE i > Len(t) + 1
    <3>1. /\ i - (Len(t) + 1) \in 1..Len(Tail(b))
          /\ (i - (Len(t) + 1)) + 1 = i - Len(t)
          /\ ~(i <= Len(t)) /\ ~(i <= Len(t) + 1)
      BY <2>1, <2>5, <1>1
    <3>2. Tail(b)[i - (Len(t) + 1)] = b[i - Len(t)]
      BY <3>1, <1>1
    <3> QED  BY <2>2, <3>1, <3>2
  <2>6. i <= Len(t) \/ i = Len(t) + 1 \/ i > Len(t) + 1
    BY <2>1
  <2> QED  BY <2>3, <2>4, <2>5, <2>6
<1>6. l = r
  <2> HIDE DEF l, r
  <2>1. Len(l) = Len(r)
    BY <1>3, <1>4
  <2> QED  BY <1>3, <1>4, <1>5, <2>1, SeqEqual
<1> QED  BY <1>1, <1>2, <1>6

(* Sending to a buffer appends to what the channel carried.                *)
LEMMA SendAppends ==
  ASSUME NEW t \in Seq(Nat), NEW b \in Seq(Nat), NEW e \in Nat
  PROVE  t \o Append(b, e) = Append(t \o b, e)
<1> DEFINE l == t \o Append(b, e)
           r == Append(t \o b, e)
<1>1. t \o b \in Seq(Nat) /\ Len(t \o b) = Len(t) + Len(b)
  BY ConcatProperties
<1>2. Append(b, e) \in Seq(Nat) /\ Len(Append(b, e)) = Len(b) + 1
  OBVIOUS
<1>3. /\ l \in Seq(Nat) /\ Len(l) = Len(t) + (Len(b) + 1)
      /\ \A i \in 1..Len(t) + (Len(b) + 1) :
           l[i] = IF i <= Len(t) THEN t[i] ELSE Append(b, e)[i - Len(t)]
  BY <1>2, ConcatProperties
<1>4. /\ r \in Seq(Nat) /\ Len(r) = Len(t) + Len(b) + 1
      /\ r[Len(t) + Len(b) + 1] = e
      /\ \A i \in 1..Len(t) + Len(b) : r[i] = (t \o b)[i]
  BY <1>1, AppendIs
<1>5. \A i \in 1..Len(t) + Len(b) + 1 : l[i] = r[i]
  <2> SUFFICES ASSUME NEW i \in 1..Len(t) + Len(b) + 1  PROVE l[i] = r[i]
    OBVIOUS
  <2> HIDE DEF l, r
  <2>1. Len(t) \in Nat /\ Len(b) \in Nat
    OBVIOUS
  <2>2. l[i] = IF i <= Len(t) THEN t[i] ELSE Append(b, e)[i - Len(t)]
    <3>1. i \in 1..Len(t) + (Len(b) + 1)
      BY <2>1
    <3> QED  BY <3>1, <1>3
  <2>3. CASE i = Len(t) + Len(b) + 1
    <3>1. i - Len(t) = Len(b) + 1 /\ ~(i <= Len(t))
      BY <2>1, <2>3
    <3> QED  BY <2>2, <2>3, <3>1, <1>4, AppendIs
  <2>4. CASE i <= Len(t) + Len(b)
    <3>1. r[i] = IF i <= Len(t) THEN t[i] ELSE b[i - Len(t)]
      <4>1. i \in 1..Len(t) + Len(b)
        BY <2>1, <2>4
      <4>2. (t \o b)[i] = IF i <= Len(t) THEN t[i] ELSE b[i - Len(t)]
        BY <4>1, ConcatProperties
      <4> QED  BY <4>1, <4>2, <1>4
    <3>2. CASE i <= Len(t)
      BY <2>2, <3>1, <3>2
    <3>3. CASE ~(i <= Len(t))
      <4>1. i - Len(t) \in 1..Len(b)
        BY <2>1, <2>4, <3>3
      <4>2. Append(b, e)[i - Len(t)] = b[i - Len(t)]
        BY <4>1, AppendIs
      <4> QED  BY <2>2, <3>1, <3>3, <4>2
    <3> QED  BY <3>2, <3>3
  <2>5. i = Len(t) + Len(b) + 1 \/ i <= Len(t) + Len(b)
    BY <2>1
  <2> QED  BY <2>3, <2>4, <2>5
<1>6. Len(l) = Len(r)
  BY <1>3, <1>4
<1> HIDE DEF l, r
<1>7. l = r
  BY <1>3, <1>4, <1>5, <1>6, SeqEqual
<1> QED  BY <1>7 DEF l, r
-----------------------------------------------------------------------------
(* The inductive invariant: the five invariants of Broadcaster together.   *)
IInv ==
  /\ TypeOK
  /\ HistoryIsRecent
  /\ ChannelLifecycle
  /\ StreamInOrder
  /\ NoEarlyLoss

LEMMA InitIInv == Init => IInv
<1> SUFFICES ASSUME Init  PROVE IInv
  OBVIOUS
<1> USE BroadcasterAssumption DEF Init
<1>1. TypeOK
  <2>1. <<>> \in Seq(Nat)
    OBVIOUS
  <2>2. \A s \in Streams : pc[s] \in PC
    BY DEF PC
  <2> QED  BY <2>1, <2>2 DEF TypeOK
<1>2. HistoryIsRecent
  BY DEF HistoryIsRecent
<1>3. ChannelLifecycle
  BY DEF ChannelLifecycle
<1>4. \A s \in Streams : 1..Len(Carried(s)) = {}
  <2> TAKE s \in Streams
  <2>1. <<>> \in Seq(Nat)
    OBVIOUS
  <2>2. <<>> \o <<>> = <<>>
    BY <2>1, ConcatEmptySeq
  <2>3. Carried(s) = <<>>
    BY <2>2 DEF Carried
  <2> QED  BY <2>3
<1>5. StreamInOrder
  BY <1>4 DEF StreamInOrder
<1>6. NoEarlyLoss
  BY DEF NoEarlyLoss
<1> QED  BY <1>1, <1>2, <1>3, <1>5, <1>6 DEF IInv

(* A step that neither publishes nor changes what a channel carried nor    *)
(* who is registered since when leaves the two stream invariants alone.    *)
LEMMA StreamsUnchanged ==
  ASSUME IInv, published' = published, since' = since,
         subscribers' \subseteq subscribers,
         \A s \in Streams : Carried(s)' = Carried(s)
  PROVE  StreamInOrder' /\ NoEarlyLoss'
<1>1. StreamInOrder'
  BY DEF IInv, StreamInOrder
<1>2. NoEarlyLoss'
  <2>1. subscribers \subseteq Streams
    BY DEF IInv, TypeOK
  <2> QED  BY <2>1 DEF IInv, NoEarlyLoss
<1> QED  BY <1>1, <1>2

LEMMA CarriedIsSeq ==
  ASSUME TypeOK, NEW s \in Streams
  PROVE  /\ taken[s] \in Seq(Nat) /\ buf[s] \in Seq(Nat)
         /\ Carried(s) \in Seq(Nat)
         /\ Len(Carried(s)) = Len(taken[s]) + Len(buf[s])
  BY ConcatProperties DEF TypeOK, Carried

LEMMA HistoryStep ==
  ASSUME IInv, NEW limit \in Limits, SetMaxHistory(limit)
  PROVE  IInv'
<1> USE DEF IInv
<1>1. Clamp(limit) \in 1..HardMax /\ Clamp(limit) \in Nat \ {0}
  BY ClampIs, BroadcasterAssumption
<1>2. history \in Seq(Nat)
  BY DEF TypeOK
<1>3. /\ history' \in Seq(Nat)
      /\ Len(history') = IF Len(history) > Clamp(limit) THEN Clamp(limit)
                         ELSE Len(history)
      /\ \A i \in 1..Len(history') :
           history'[i] = history[Len(history) - Len(history') + i]
  BY <1>1, <1>2, LastNIs DEF SetMaxHistory
<1>4. TypeOK'
  BY <1>1, <1>3 DEF TypeOK, SetMaxHistory
<1>5. HistoryIsRecent'
  <2>1. Len(history') <= maxHistory'
    BY <1>1, <1>2, <1>3 DEF SetMaxHistory
  <2>2. ASSUME NEW i \in 1..Len(history')
        PROVE history'[i] = published' - Len(history') + i
    <3> DEFINE j == Len(history) - Len(history') + i
    <3>1. Len(history) \in Nat /\ Len(history') \in Nat /\ published \in Nat
      BY <1>2, <1>3 DEF TypeOK
    <3>2. j \in 1..Len(history)
      BY <1>1, <1>3, <3>1
    <3>3. history[j] = published - Len(history) + j
      BY <3>2 DEF HistoryIsRecent
    <3>4. published - Len(history) + j = published - Len(history') + i
      BY <3>1
    <3>5. history'[i] = history[j] /\ published' = published
      BY <1>3 DEF SetMaxHistory
    <3> QED  BY <3>3, <3>4, <3>5
  <2> QED  BY <2>1, <2>2 DEF HistoryIsRecent
<1>6. ChannelLifecycle'
  BY DEF ChannelLifecycle, SetMaxHistory
<1>7. \A s \in Streams : Carried(s)' = Carried(s)
  BY DEF Carried, SetMaxHistory
<1>8. StreamInOrder' /\ NoEarlyLoss'
  BY <1>7, StreamsUnchanged DEF SetMaxHistory
<1> QED  BY <1>4, <1>5, <1>6, <1>8

LEMMA ClearStep ==
  ASSUME IInv, ClearHistory
  PROVE  IInv'
<1> USE DEF IInv
<1>1. TypeOK'
  BY DEF TypeOK, ClearHistory
<1>2. HistoryIsRecent'
  BY DEF HistoryIsRecent, ClearHistory, TypeOK
<1>3. ChannelLifecycle'
  BY DEF ChannelLifecycle, ClearHistory
<1>4. \A s \in Streams : Carried(s)' = Carried(s)
  BY DEF Carried, ClearHistory
<1>5. StreamInOrder' /\ NoEarlyLoss'
  BY <1>4, StreamsUnchanged DEF ClearHistory
<1> QED  BY <1>1, <1>2, <1>3, <1>5

LEMMA SubscribeStep ==
  ASSUME IInv, NEW s \in Streams, Subscribe(s)
  PROVE  IInv'
<1> USE DEF IInv, Subscribe
<1>1. TypeOK'
  BY DEF TypeOK, PC
<1>2. HistoryIsRecent'
  BY DEF HistoryIsRecent
<1>3. ChannelLifecycle'
  BY DEF ChannelLifecycle, TypeOK
<1>4. \A r \in Streams : Carried(r)' = Carried(r)
  BY DEF Carried
<1>5. Carried(s) = <<>>
  <2>1. <<>> \in Seq(Nat) /\ buf[s] = <<>> /\ taken[s] = <<>>
    BY DEF ChannelLifecycle
  <2> QED  BY <2>1, ConcatEmptySeq DEF Carried
<1>6. \A r \in Streams \ {s} : since'[r] = since[r]
  BY DEF TypeOK
<1>7. StreamInOrder'
  <2>1. ASSUME NEW r \in Streams, r # s
        PROVE  StreamInOrder!(r)'
    BY <2>1, <1>4, <1>6 DEF StreamInOrder
  <2>2. 1..Len(Carried(s)') = {}
    BY <1>4, <1>5
  <2>3. StreamInOrder!(s)'
    BY <2>2
  <2> QED  BY <2>1, <2>3 DEF StreamInOrder
<1>8. NoEarlyLoss'
  <2> SUFFICES ASSUME NEW r \in subscribers', NEW k \in 1..BufCap,
                      since'[r] + k <= published
               PROVE  k <= Len(Carried(r)') /\ Carried(r)'[k] = since'[r] + k
    BY DEF NoEarlyLoss
  <2>1. CASE r = s
    <3>1. since'[s] = published /\ published \in Nat /\ k \in Nat \ {0}
      BY BroadcasterAssumption DEF TypeOK
    <3> QED  BY <2>1, <3>1
  <2>2. CASE r # s
    <3>1. r \in subscribers /\ r \in Streams
      BY <2>2 DEF TypeOK
    <3> QED  BY <2>2, <3>1, <1>4, <1>6 DEF NoEarlyLoss
  <2> QED  BY <2>1, <2>2
<1> QED  BY <1>1, <1>2, <1>3, <1>7, <1>8

LEMMA ReceiveStep ==
  ASSUME IInv, NEW s \in Streams, Receive(s)
  PROVE  IInv'
<1> USE DEF IInv, Receive
<1>1. /\ taken[s] \in Seq(Nat) /\ buf[s] \in Seq(Nat)
      /\ Append(taken[s], Head(buf[s])) \in Seq(Nat)
      /\ Tail(buf[s]) \in Seq(Nat)
      /\ Append(taken[s], Head(buf[s])) \o Tail(buf[s]) = Carried(s)
  BY CarriedIsSeq, MoveHead DEF Carried
<1>2. TypeOK'
  BY <1>1 DEF TypeOK, PC
<1>3. HistoryIsRecent'
  BY DEF HistoryIsRecent
<1>4. ChannelLifecycle'
  BY DEF ChannelLifecycle, TypeOK
<1>5. \A r \in Streams : Carried(r)' = Carried(r)
  BY <1>1 DEF Carried, TypeOK
<1>6. StreamInOrder' /\ NoEarlyLoss'
  BY <1>5, StreamsUnchanged
<1> QED  BY <1>2, <1>3, <1>4, <1>6

LEMMA HandlerStep ==
  ASSUME IInv, NEW s \in Streams,
         WriteReturns(s) \/ ClientLeaves(s) \/ Unsubscribe(s)
  PROVE  IInv'
<1> USE DEF IInv, WriteReturns, ClientLeaves, Unsubscribe
<1>1. TypeOK'
  BY DEF TypeOK, PC
<1>2. HistoryIsRecent'
  BY DEF HistoryIsRecent
<1>3. ChannelLifecycle'
  BY DEF ChannelLifecycle, TypeOK
<1>4. \A r \in Streams : Carried(r)' = Carried(r)
  BY DEF Carried
<1>5. StreamInOrder' /\ NoEarlyLoss'
  BY <1>4, StreamsUnchanged
<1> QED  BY <1>1, <1>2, <1>3, <1>5

(* What Broadcast does to one channel: nothing, or one more event.         *)
LEMMA BroadcastCarries ==
  ASSUME TypeOK, Broadcast, NEW s \in Streams
  PROVE  IF s \in Receivers
         THEN /\ Carried(s)' \in Seq(Nat)
              /\ Len(Carried(s)') = Len(Carried(s)) + 1
              /\ Carried(s)'[Len(Carried(s)) + 1] = published + 1
              /\ \A i \in 1..Len(Carried(s)) : Carried(s)'[i] = Carried(s)[i]
         ELSE Carried(s)' = Carried(s)
<1>1. /\ taken[s] \in Seq(Nat) /\ buf[s] \in Seq(Nat) /\ published + 1 \in Nat
      /\ Carried(s) \in Seq(Nat)
  BY CarriedIsSeq DEF TypeOK
<1>2. CASE s \in Receivers
  <2>1. Carried(s)' = Append(Carried(s), published + 1)
    BY <1>1, <1>2, SendAppends DEF Broadcast, Carried
  <2> QED  BY <1>1, <1>2, <2>1, AppendIs
<1>3. CASE s \notin Receivers
  BY <1>3 DEF Broadcast, Carried
<1> QED  BY <1>2, <1>3

LEMMA BroadcastStep ==
  ASSUME IInv, Broadcast
  PROVE  IInv'
<1> USE DEF IInv
<1>0. /\ published \in Nat /\ published' = published + 1 /\ since' = since
      /\ subscribers' = subscribers /\ maxHistory' = maxHistory
      /\ maxHistory \in Nat \ {0} /\ subscribers \subseteq Streams
      /\ \A s \in Streams : since[s] \in Nat /\ since[s] <= published
  BY BroadcasterAssumption DEF TypeOK, Broadcast
<1>1. \A s \in Streams : buf'[s] \in Seq(Nat)
  BY <1>0 DEF Broadcast, TypeOK
<1>2. /\ Append(history, published + 1) \in Seq(Nat)
      /\ Len(Append(history, published + 1)) = Len(history) + 1
      /\ Append(history, published + 1)[Len(history) + 1] = published + 1
      /\ \A i \in 1..Len(history) : Append(history, published + 1)[i] = history[i]
  BY <1>0, AppendIs DEF TypeOK
<1> DEFINE h == Append(history, published + 1)
<1>3. /\ history' \in Seq(Nat)
      /\ Len(history') = IF Len(h) > maxHistory THEN maxHistory ELSE Len(h)
      /\ \A i \in 1..Len(history') : history'[i] = h[Len(h) - Len(history') + i]
  BY <1>0, <1>2, LastNIs DEF Broadcast
<1>4. TypeOK'
  <2>1. buf' \in [Streams -> Seq(Nat)]
    BY <1>1 DEF Broadcast
  <2>2. published' \in 0..MaxPublished
    BY <1>0, BroadcasterAssumption DEF Broadcast
  <2>3. since' \in [Streams -> 0..published']
    BY <1>0 DEF TypeOK
  <2> QED  BY <1>3, <2>1, <2>2, <2>3 DEF TypeOK, Broadcast
<1>5. HistoryIsRecent'
  <2>1. \A i \in 1..Len(h) : h[i] = published + 1 - Len(h) + i
    <3> TAKE i \in 1..Len(h)
    <3>0. Len(history) \in Nat /\ Len(h) = Len(history) + 1
      BY <1>2 DEF TypeOK
    <3>1. CASE i = Len(h)
      BY <1>0, <1>2, <3>0, <3>1
    <3>2. CASE i # Len(h)
      <4>1. i \in 1..Len(history)
        BY <3>0, <3>2
      <4>2. h[i] = history[i] /\ history[i] = published - Len(history) + i
        BY <4>1, <1>2 DEF HistoryIsRecent
      <4> QED  BY <4>2, <3>0, <1>0
    <3> QED  BY <3>1, <3>2
  <2>2. Len(h) \in Nat /\ Len(history') \in Nat
    BY <1>2, <1>3
  <2> HIDE DEF h
  <2>3. Len(history') <= maxHistory'
    BY <1>0, <1>3, <2>2
  <2>4. ASSUME NEW i \in 1..Len(history')
        PROVE history'[i] = published' - Len(history') + i
    <3>1. Len(h) - Len(history') + i \in 1..Len(h)
      BY <1>0, <1>3, <2>2
    <3>2. h[Len(h) - Len(history') + i]
            = published + 1 - Len(h) + (Len(h) - Len(history') + i)
      BY <2>1, <3>1
    <3>3. published + 1 - Len(h) + (Len(h) - Len(history') + i)
            = published' - Len(history') + i
      BY <1>0, <2>2
    <3>4. history'[i] = h[Len(h) - Len(history') + i]
      BY <1>3
    <3> QED  BY <3>2, <3>3, <3>4
  <2> QED  BY <2>3, <2>4 DEF HistoryIsRecent
<1>6. ChannelLifecycle'
  <2>1. \A s \in Streams : pc[s] = "idle" => s \notin Receivers
    BY DEF ChannelLifecycle, Receivers
  <2> QED  BY <2>1 DEF ChannelLifecycle, Broadcast
<1>7. \A s \in Streams :
        /\ Carried(s) \in Seq(Nat) /\ Len(Carried(s)) \in Nat
        /\ \A i \in 1..Len(Carried(s)) : Carried(s)[i] \in Nat
  <2> TAKE s \in Streams
  <2>1. Carried(s) \in Seq(Nat)
    BY CarriedIsSeq
  <2> QED  BY <2>1, ElementOfSeq, LenProperties
<1>8. StreamInOrder'
  <2> SUFFICES ASSUME NEW s \in Streams
               PROVE  /\ \A i \in 1..Len(Carried(s)') :
                           /\ since[s] + i <= Carried(s)'[i]
                           /\ Carried(s)'[i] <= published + 1
                      /\ \A i, j \in 1..Len(Carried(s)') :
                           i < j => Carried(s)'[i] < Carried(s)'[j]
    BY <1>0 DEF StreamInOrder
  <2> DEFINE old == Carried(s)
             new == Carried(s)'
             n == Len(Carried(s))
  <2>1. /\ n \in Nat
        /\ \A i \in 1..n : /\ old[i] \in Nat
                           /\ since[s] + i <= old[i] /\ old[i] <= published
        /\ \A i, j \in 1..n : i < j => old[i] < old[j]
    BY <1>7 DEF StreamInOrder
  <2>2. since[s] \in Nat /\ since[s] <= published
    BY <1>0
  <2>3. CASE s \notin Receivers
    <3>1. new = old
      BY <2>3, BroadcastCarries
    <3> QED  BY <3>1, <2>1, <2>2, <1>0
  <2>4. CASE s \in Receivers
    <3>1. /\ Len(new) = n + 1 /\ new[n + 1] = published + 1
          /\ \A i \in 1..n : new[i] = old[i]
      BY <2>4, BroadcastCarries
    <3> HIDE DEF old, new, n
    <3>2. since[s] + n <= published
      <4>1. CASE n = 0
        BY <4>1, <2>2
      <4>2. CASE n # 0
        <5>1. n \in 1..n
          BY <4>2, <2>1
        <5>2. since[s] + n <= old[n] /\ old[n] <= published /\ old[n] \in Nat
          BY <5>1, <2>1
        <5> QED  BY <5>2, <2>1, <2>2, <1>0
      <4> QED  BY <4>1, <4>2
    <3>3. ASSUME NEW i \in 1..(n + 1)
          PROVE  since[s] + i <= new[i] /\ new[i] <= published + 1
      <4>1. CASE i = n + 1
        BY <4>1, <3>1, <3>2, <2>1, <2>2, <1>0
      <4>2. CASE i # n + 1
        <5>1. i \in 1..n
          BY <4>2, <2>1
        <5>2. new[i] = old[i] /\ old[i] \in Nat
              /\ since[s] + i <= old[i] /\ old[i] <= published
          BY <5>1, <3>1, <2>1
        <5> QED  BY <5>2, <1>0
      <4> QED  BY <4>1, <4>2
    <3>4. ASSUME NEW i \in 1..(n + 1), NEW j \in 1..(n + 1), i < j
          PROVE  new[i] < new[j]
      <4>1. i \in 1..n
        BY <3>4, <2>1
      <4>2. CASE j = n + 1
        <5>1. new[i] = old[i] /\ old[i] <= published /\ old[i] \in Nat
          BY <4>1, <3>1, <2>1
        <5>2. new[j] = published + 1
          BY <4>2, <3>1
        <5> QED  BY <5>1, <5>2, <1>0
      <4>3. CASE j # n + 1
        <5>1. j \in 1..n
          BY <4>3, <2>1
        <5> QED  BY <5>1, <4>1, <3>4, <3>1, <2>1
      <4> QED  BY <4>2, <4>3
    <3>5. /\ \A i \in 1..Len(new) :
               since[s] + i <= new[i] /\ new[i] <= published + 1
          /\ \A i, j \in 1..Len(new) : i < j => new[i] < new[j]
      BY <3>1, <3>3, <3>4
    <3> QED  BY <3>5 DEF new
  <2> QED  BY <2>3, <2>4
<1>9. NoEarlyLoss'
  <2> SUFFICES ASSUME NEW s \in subscribers, NEW k \in 1..BufCap,
                      since[s] + k <= published + 1
               PROVE  k <= Len(Carried(s)') /\ Carried(s)'[k] = since[s] + k
    BY <1>0 DEF NoEarlyLoss
  <2> DEFINE old == Carried(s)
             new == Carried(s)'
             n == Len(Carried(s))
  <2>0. s \in Streams
    BY <1>0
  <2>1. /\ n \in Nat /\ k \in Nat \ {0} /\ since[s] \in Nat
        /\ since[s] <= published
        /\ \A i \in 1..n : /\ old[i] \in Nat
                           /\ since[s] + i <= old[i] /\ old[i] <= published
    BY <1>0, <1>7, <2>0, BroadcasterAssumption DEF StreamInOrder
  <2>2. \A i \in 1..n : i <= Len(new) /\ new[i] = old[i]
    <3>1. CASE s \in Receivers
      BY <3>1, <2>0, <2>1, BroadcastCarries
    <3>2. CASE s \notin Receivers
      BY <3>2, <2>0, <2>1, BroadcastCarries
    <3> QED  BY <3>1, <3>2
  <2>3. CASE since[s] + k <= published
    <3>1. k <= n /\ old[k] = since[s] + k
      BY <2>3 DEF NoEarlyLoss
    <3>2. k \in 1..n
      BY <3>1, <2>1
    <3> QED  BY <3>1, <3>2, <2>2
  <2>4. CASE ~(since[s] + k <= published)
    <3>1. since[s] + k = published + 1
      BY <2>1, <2>4, <1>0
    <3>2. n < k
      <4> SUFFICES ASSUME k \in 1..n  PROVE FALSE
        BY <2>1
      <4>1. since[s] + k <= old[k] /\ old[k] <= published /\ old[k] \in Nat
        BY <2>1
      <4> QED  BY <4>1, <3>1, <2>1, <1>0
    <3>3. k - 1 <= n
      <4>1. CASE k = 1
        BY <4>1, <2>1
      <4>2. CASE k # 1
        <5>1. k - 1 \in 1..BufCap /\ since[s] + (k - 1) <= published
          BY <4>2, <3>1, <2>1, <1>0, BroadcasterAssumption
        <5> QED  BY <5>1 DEF NoEarlyLoss
      <4> QED  BY <4>1, <4>2
    <3>4. n + 1 = k
      BY <3>2, <3>3, <2>1
    <3>5. s \in Receivers
      <4>1. /\ taken[s] \in Seq(Nat) /\ buf[s] \in Seq(Nat)
            /\ n = Len(taken[s]) + Len(buf[s])
        BY <2>0, CarriedIsSeq
      <4>2. Len(taken[s]) \in Nat /\ Len(buf[s]) \in Nat
        BY <4>1, LenProperties
      <4>3. Len(buf[s]) <= n
        <5>1. \A a, b \in Nat : b <= a + b
          OBVIOUS
        <5>2. Len(buf[s]) <= Len(taken[s]) + Len(buf[s])
          BY <4>2, <5>1
        <5> QED  BY <4>1, <5>2
      <4>4. Len(buf[s]) < BufCap
        BY <4>2, <4>3, <3>4, <2>1, BroadcasterAssumption
      <4> QED  BY <4>4 DEF Receivers
    <3>6. Len(new) = n + 1 /\ new[n + 1] = published + 1
      BY <3>5, <2>0, BroadcastCarries
    <3> HIDE DEF n, new, old
    <3>7. k <= Len(new) /\ new[k] = since[s] + k
      BY <3>1, <3>4, <3>6, <2>1
    <3> QED  BY <3>7 DEF new
  <2> QED  BY <2>3, <2>4
<1> QED  BY <1>4, <1>5, <1>6, <1>8, <1>9

(* The five invariants are inductive.                                      *)
LEMMA NextIInv == IInv /\ [Next]_vars => IInv'
<1> SUFFICES ASSUME IInv, [Next]_vars  PROVE IInv'
  OBVIOUS
<1>1. CASE Broadcast
  BY <1>1, BroadcastStep
<1>2. CASE ClearHistory
  BY <1>2, ClearStep
<1>3. ASSUME NEW limit \in Limits, SetMaxHistory(limit)  PROVE IInv'
  BY <1>3, HistoryStep
<1>4. ASSUME NEW s \in Streams, Handler(s) \/ ClientLeaves(s)  PROVE IInv'
  BY <1>4, SubscribeStep, ReceiveStep, HandlerStep DEF Handler
<1>5. CASE UNCHANGED vars
  <2>1. \A s \in Streams : Carried(s)' = Carried(s)
    BY <1>5 DEF vars, Carried
  <2>2. StreamInOrder' /\ NoEarlyLoss'
    BY <1>5, <2>1, StreamsUnchanged DEF vars
  <2> QED  BY <1>5, <2>2 DEF vars, IInv, TypeOK, HistoryIsRecent, ChannelLifecycle
<1> QED  BY <1>1, <1>2, <1>3, <1>4, <1>5 DEF Next

LEMMA SpecIInv == Spec => []IInv
  BY InitIInv, NextIInv, PTL DEF Spec

(* Every variable keeps its type (all of pkg/web/broadcaster.go).          *)
THEOREM TypeCorrect == Spec => []TypeOK
  BY SpecIInv, PTL DEF IInv

(* Pages and exports always see exactly the most recent events, for every  *)
(* limit and every interleaving of Broadcast, SetMaxHistory, ClearHistory. *)
THEOREM HistoryCorrect == Spec => []HistoryIsRecent
  BY SpecIInv, PTL DEF IInv

(* Broadcast never sends on a closed channel, and no returned handler      *)
(* leaves its channel registered (Subscribe, Unsubscribe).                 *)
THEOREM ChannelsCorrect == Spec => []ChannelLifecycle
  BY SpecIInv, PTL DEF IInv

(* Every stream sees events in publication order, without repetition.      *)
THEOREM OrderCorrect == Spec => []StreamInOrder
  BY SpecIInv, PTL DEF IInv

(* Only a stream whose buffer was full loses an event (Broadcast).         *)
THEOREM LossCorrect == Spec => []NoEarlyLoss
  BY SpecIInv, PTL DEF IInv
-----------------------------------------------------------------------------
(* The feed that LossyFeed sees: what each channel carried.                *)
LEMMA InitFeed == Init => Feed!FeedInit
<1> SUFFICES ASSUME Init  PROVE Feed!FeedInit
  OBVIOUS
<1>1. \A s \in Streams : Carried(s) = <<>>
  <2>1. <<>> \in Seq(Nat)
    OBVIOUS
  <2> QED  BY <2>1, ConcatEmptySeq DEF Init, Carried
<1> QED  BY <1>1 DEF Init, Feed!FeedInit

LEMMA NextFeed == IInv /\ [Next]_vars => [Feed!FeedNext]_(Feed!feedVars)
<1> SUFFICES ASSUME IInv, [Next]_vars
             PROVE  [Feed!FeedNext]_(Feed!feedVars)
  OBVIOUS
<1> USE DEF IInv
<1> DEFINE carried == [s \in Streams |-> Carried(s)]
<1>1. CASE Broadcast
  <2>1. Receivers \in SUBSET subscribers
    BY DEF Receivers
  <2>2. \A s \in Streams : Carried(s)' = IF s \in Receivers
                                        THEN Append(Carried(s), published + 1)
                                        ELSE Carried(s)
    <3> TAKE s \in Streams
    <3>1. taken[s] \in Seq(Nat) /\ buf[s] \in Seq(Nat) /\ published + 1 \in Nat
      BY DEF TypeOK
    <3> QED  BY <1>1, <3>1, SendAppends DEF Broadcast, Carried
  <2>3. carried' = [s \in Streams |-> IF s \in Receivers
                                      THEN Append(carried[s], published + 1)
                                      ELSE carried[s]]
    BY <2>2
  <2>4. Feed!Publish(Receivers)
    BY <1>1, <2>3 DEF Feed!Publish, Broadcast
  <2> QED  BY <2>1, <2>4 DEF Feed!FeedNext
<1>2. ASSUME NEW s \in Streams, Subscribe(s)
      PROVE  Feed!FeedNext
  <2>1. carried' = carried
    BY <1>2 DEF Subscribe, Carried
  <2>2. s \notin subscribers \cup closed
    BY <1>2 DEF Subscribe, ChannelLifecycle
  <2>3. Feed!Join(s)
    BY <1>2, <2>1, <2>2 DEF Subscribe, Feed!Join
  <2> QED  BY <2>3 DEF Feed!FeedNext
<1>3. ASSUME NEW s \in Streams, Unsubscribe(s)
      PROVE  Feed!FeedNext
  <2>1. carried' = carried
    BY <1>3 DEF Unsubscribe, Carried
  <2>2. s \in subscribers
    BY <1>3 DEF Unsubscribe, ChannelLifecycle
  <2>3. Feed!Leave(s)
    BY <1>3, <2>1, <2>2 DEF Unsubscribe, Feed!Leave
  <2> QED  BY <2>3 DEF Feed!FeedNext
<1>4. ASSUME NEW s \in Streams, Receive(s)
      PROVE  UNCHANGED Feed!feedVars
  <2>1. /\ taken[s] \in Seq(Nat) /\ buf[s] \in Seq(Nat)
        /\ Append(taken[s], Head(buf[s])) \o Tail(buf[s]) = Carried(s)
    BY <1>4, CarriedIsSeq, MoveHead DEF Receive, Carried
  <2>2. \A r \in Streams : Carried(r)' = Carried(r)
    BY <1>4, <2>1 DEF Receive, Carried, TypeOK
  <2>3. carried' = carried
    BY <2>2
  <2> QED  BY <1>4, <2>3 DEF Receive, Feed!feedVars
<1>5. ASSUME \/ ClearHistory
             \/ \E limit \in Limits : SetMaxHistory(limit)
             \/ \E s \in Streams : WriteReturns(s) \/ ClientLeaves(s)
             \/ UNCHANGED vars
      PROVE  UNCHANGED Feed!feedVars
  <2>1. UNCHANGED <<published, subscribers, closed, taken, buf>>
    BY <1>5 DEF ClearHistory, SetMaxHistory, WriteReturns, ClientLeaves, vars
  <2>2. carried' = carried
    BY <2>1 DEF Carried
  <2> QED  BY <2>1, <2>2 DEF Feed!feedVars
<1> QED  BY <1>1, <1>2, <1>3, <1>4, <1>5 DEF Next, Handler

(* The broadcaster with its stream handlers implements the lossy feed.     *)
THEOREM Refinement == Spec => ImplementsFeed
  BY InitFeed, NextFeed, SpecIInv, PTL DEF Spec, ImplementsFeed, Feed!FeedSpec
=============================================================================
