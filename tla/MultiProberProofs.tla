-------------------------- MODULE MultiProberProofs --------------------------
(***************************************************************************)
(* Proofs about MultiProber: for any number of targets and reset requests, *)
(* and for all options.                                                    *)
(***************************************************************************)
EXTENDS MultiProber, FiniteSetTheorems, TLAPS

(* How far a reset request and the summary table have come.                *)
ProgressInv ==
  /\ \A x \in Resetters : rpc[x] # "done" => next[x] <= N
  /\ main = "wait" => Len(table) = 0
  /\ main = "summary" => Len(table) < N

(* What is known of a worker between its probes: how many it has counted,  *)
(* and how many it began after the cancellation.                           *)
Unlimited == {"check", "acquire", "ping", "backoff", "reping", "release",
              "count", "interval"}

StopInvOf(w) ==
  /\ opts.quit > 0 => Len(log[w]) <= opts.quit
  /\ opts.quit > 0 /\ pc[w] \in Unlimited => Len(log[w]) < opts.quit
  /\ pc[w] = "done" /\ ~cancelled =>
       \/ opts.quit > 0 /\ Len(log[w]) = opts.quit
       \/ /\ opts.maxFails > 0
          /\ Cardinality(Streak(log[w], 1, Len(log[w]))) >= opts.maxFails

StopInv == \A w \in Workers : StopInvOf(w)

LateInv ==
  \A w \in Workers :
    /\ late[w] <= 1
    /\ ~cancelled \/ pc[w] = "acquire" \/ opts.concurrency = 0 => late[w] = 0

ResetInv == \A w \in Workers : resetAt[w] <= Len(log[w])

(* The summary begins when nobody counts any more, so its rows stay true.  *)
SummaryInv ==
  /\ main # "wait" => \A w \in Workers : pc[w] = "done"
  /\ NoReset => \A w \in Workers : resetAt[w] = 0
  /\ NoReset => \A w \in 1 .. Len(table) : table[w] = [ok |-> ok[w], bad |-> bad[w]]

IInv == /\ TypeOK
        /\ ProgressInv
        /\ ProbesBounded
        /\ ResetInv
        /\ CountersFollowLog
        /\ StopInv
        /\ LateInv
        /\ SummaryInv

LEMMA OptsIs ==
  ASSUME TypeOK
  PROVE  /\ opts.concurrency \in Nat /\ opts.quit \in Nat
         /\ opts.maxFails \in Nat /\ opts.retries \in Nat
  BY MultiAssumption DEF TypeOK, Option

LEMMA LabelsIs ==
  /\ {"check", "acquire", "ping", "backoff", "reping", "release"} \subseteq PC
  /\ {"count", "limit", "event", "broadcast", "interval", "done"} \subseteq PC
  BY DEF PC

LEMMA InitType == Init => TypeOK /\ ProgressInv
<1> SUFFICES ASSUME Init  PROVE TypeOK /\ ProgressInv
  OBVIOUS
<1>1. opts \in Options /\ 1 \in 1 .. N + 1
  BY MultiAssumption DEF Init
<1>2. <<>> \in Seq(Outcomes) /\ <<>> \in Seq([ok : Nat, bad : Nat])
      /\ <<>> \in Seq([worker : Workers, verdict : Outcomes, ok : Nat, bad : Nat])
      /\ Len(<<>>) = 0
  OBVIOUS
<1>3. TypeOK
  <2>1. Len(table) <= N /\ Zero \in [ok : Nat, bad : Nat] /\ "ok" \in Outcomes
    BY <1>2, MultiAssumption DEF Init, Zero, Outcomes
  <2> QED  BY <1>1, <1>2, <2>1, LabelsIs DEF Init, TypeOK
<1>4. ProgressInv
  BY <1>2, MultiAssumption DEF Init, ProgressInv
<1> QED  BY <1>3, <1>4

LEMMA GotoType ==
  ASSUME TypeOK, NEW w \in Workers, NEW label \in PC, Goto(w, label)
  PROVE  pc' \in [Workers -> PC]
  BY DEF TypeOK, Goto

(* One worker, one reset request or the summary moves; what each of them   *)
(* leaves alone is common to the steps below.                              *)
LEMMA WorkerType ==
  ASSUME TypeOK, NEW w \in Workers, Worker(w),
         opts.concurrency > 0 /\ pc[w] = "release" => sem > 0
  PROVE  TypeOK'
<1> USE DEF work, counters, summary, resetting, ghosts
<1>1. CASE Check(w) \/ Acquire(w)
  <2>1. pc' \in [Workers -> PC]
    BY <1>1, GotoType, LabelsIs DEF Check, Acquire
  <2>2. late' \in [Workers -> Nat]
    <3>1. late \in [Workers -> Nat]
      BY DEF TypeOK
    <3>2. late' = late \/ Begun(w)
      BY <1>1 DEF Check, Acquire
    <3> QED  BY <3>1, <3>2 DEF Begun
  <2>3. sem' \in Nat
    BY <1>1 DEF Check, Acquire, TypeOK
  <2> QED  BY <1>1, <2>1, <2>2, <2>3 DEF Check, Acquire, TypeOK
<1>2. CASE Ping(w) \/ Reping(w)
  <2>1. PICK from \in {"ping", "reping"}, retry \in Nat : Returns(w, from, retry)
    BY <1>2 DEF Ping, Reping, TypeOK
  <2>2. pc' \in [Workers -> PC]
    BY <2>1, GotoType, LabelsIs DEF Returns
  <2>3. res' \in [Workers -> Outcomes] /\ attempt' \in [Workers -> Nat]
    <3>1. attempt \in [Workers -> Nat] /\ res \in [Workers -> Outcomes]
      BY DEF TypeOK
    <3>2. attempt' = [attempt EXCEPT ![w] = retry + 1] \/ attempt' = [attempt EXCEPT ![w] = 0]
      BY <2>1 DEF Returns
    <3>3. \E o \in Outcomes : res' = [res EXCEPT ![w] = o]
      BY <2>1 DEF Returns
    <3> QED  BY <3>1, <3>2, <3>3
  <2> QED  BY <2>1, <2>2, <2>3 DEF Returns, TypeOK
<1>3. CASE Backoff(w)
  <2>1. pc' \in [Workers -> PC]
    BY <1>3, GotoType, LabelsIs DEF Backoff
  <2>2. attempt' \in [Workers -> Nat]
    <3>1. attempt \in [Workers -> Nat]
      BY DEF TypeOK
    <3>2. attempt' = attempt \/ attempt' = [attempt EXCEPT ![w] = 0]
      BY <1>3 DEF Backoff
    <3> QED  BY <3>1, <3>2
  <2> QED  BY <1>3, <2>1, <2>2 DEF Backoff, TypeOK
<1>4. CASE Release(w)
  <2>1. sem' \in Nat
    BY <1>4, OptsIs DEF Release, TypeOK
  <2>2. pc' \in [Workers -> PC]
    BY <1>4, GotoType, LabelsIs DEF Release
  <2> QED  BY <1>4, <2>1, <2>2 DEF Release, TypeOK
<1>5. CASE Count(w)
  <2>1. log' \in [Workers -> Seq(Outcomes)]
    <3>1. Append(log[w], res[w]) \in Seq(Outcomes)
      BY DEF TypeOK
    <3> QED  BY <1>5, <3>1 DEF Count, TypeOK
  <2>2. pc' \in [Workers -> PC]
    BY <1>5, GotoType, LabelsIs DEF Count
  <2>3. /\ ok' \in [Workers -> Nat] /\ bad' \in [Workers -> Nat]
        /\ streak' \in [Workers -> Nat]
    <3>1. ok \in [Workers -> Nat] /\ bad \in [Workers -> Nat] /\ streak \in [Workers -> Nat]
      BY DEF TypeOK
    <3>2. ok' = ok \/ ok' = [ok EXCEPT ![w] = @ + 1]
      BY <1>5 DEF Count
    <3>3. bad' = bad \/ bad' = [bad EXCEPT ![w] = @ + 1]
      BY <1>5 DEF Count
    <3>4. streak' = [streak EXCEPT ![w] = 0] \/ streak' = [streak EXCEPT ![w] = @ + 1]
      BY <1>5 DEF Count
    <3>5. ok' \in [Workers -> Nat]
      BY <3>1, <3>2
    <3>6. bad' \in [Workers -> Nat]
      BY <3>1, <3>3
    <3>7. streak' \in [Workers -> Nat]
      BY <3>1, <3>4
    <3> QED  BY <3>5, <3>6, <3>7
  <2> QED  BY <1>5, <2>1, <2>2, <2>3 DEF Count, TypeOK
<1>6. CASE Limit(w) \/ Interval(w)
  <2>1. pc' \in [Workers -> PC]
    BY <1>6, GotoType, LabelsIs DEF Limit, Interval
  <2> QED  BY <1>6, <2>1 DEF Limit, Interval, TypeOK
<1>7. CASE TakeSnapshot(w)
  <2>1. pc' \in [Workers -> PC]
    BY <1>7, GotoType, LabelsIs DEF TakeSnapshot
  <2>2. snap' \in [Workers -> [ok : Nat, bad : Nat]]
    BY <1>7 DEF TakeSnapshot, TypeOK
  <2> QED  BY <1>7, <2>1, <2>2 DEF TakeSnapshot, TypeOK
<1>8. CASE Broadcast(w)
  <2>1. [worker |-> w, verdict |-> res[w], ok |-> snap[w].ok, bad |-> snap[w].bad]
          \in [worker : Workers, verdict : Outcomes, ok : Nat, bad : Nat]
    BY DEF TypeOK
  <2>2. history' \in Seq([worker : Workers, verdict : Outcomes, ok : Nat, bad : Nat])
    BY <1>8, <2>1 DEF Broadcast, TypeOK
  <2>3. pc' \in [Workers -> PC]
    BY <1>8, GotoType, LabelsIs DEF Broadcast, AfterEvent
  <2>4. /\ res' \in [Workers -> Outcomes]
        /\ snap' \in [Workers -> [ok : Nat, bad : Nat]]
    BY <1>8 DEF Broadcast, TypeOK, Zero, Outcomes
  <2> QED  BY <1>8, <2>2, <2>3, <2>4 DEF Broadcast, TypeOK
<1> QED  BY <1>1, <1>2, <1>3, <1>4, <1>5, <1>6, <1>7, <1>8 DEF Worker, Probe

LEMMA WorkerLeaves ==
  ASSUME NEW w \in Workers, Worker(w)
  PROVE  UNCHANGED <<opts, cancelled, summary, resetting, resetAt>>
<1> USE DEF work, counters, summary, resetting, ghosts
<1>1. CASE Check(w) \/ Acquire(w) \/ Ping(w) \/ Reping(w) \/ Backoff(w)
  BY <1>1 DEF Check, Acquire, Ping, Reping, Returns, Backoff
<1>2. CASE Release(w) \/ Count(w) \/ Limit(w) \/ TakeSnapshot(w) \/ Broadcast(w)
             \/ Interval(w)
  BY <1>2 DEF Release, Count, Limit, TakeSnapshot, Broadcast, Interval
<1> QED  BY <1>1, <1>2 DEF Worker, Probe

LEMMA RowIs ==
  ASSUME TypeOK, ProgressInv, Row
  PROVE  /\ main = "summary" /\ Len(table) + 1 \in Workers
         /\ table' = Append(table, [ok |-> ok[Len(table) + 1], bad |-> bad[Len(table) + 1]])
         /\ main' = (IF Len(table) + 1 = N THEN "done" ELSE "summary")
         /\ table' \in Seq([ok : Nat, bad : Nat]) /\ Len(table') = Len(table) + 1
         /\ \A k \in 1 .. Len(table) : table'[k] = table[k]
<1>1. Len(table) \in Nat /\ Len(table) < N /\ main = "summary"
  BY DEF Row, TypeOK, ProgressInv
<1>2. Len(table) + 1 \in Workers
  BY <1>1, MultiAssumption DEF Workers
<1>3. [ok |-> ok[Len(table) + 1], bad |-> bad[Len(table) + 1]] \in [ok : Nat, bad : Nat]
  BY <1>2 DEF TypeOK
<1> QED  BY <1>1, <1>2, <1>3 DEF Row, TypeOK

LEMMA OthersType ==
  ASSUME TypeOK, ProgressInv, Cancel \/ Run \/ (\E x \in Resetters : Reset(x)) \/ Exited
                                \/ UNCHANGED vars
  PROVE  TypeOK'
<1> USE DEF TypeOK, work, counters, summary, resetting, ghosts
<1>1. CASE Cancel
  BY <1>1 DEF Cancel
<1>2. CASE Joined
  BY <1>2 DEF Joined
<1>3. CASE Row
  <2>1. Len(table') <= N /\ table' \in Seq([ok : Nat, bad : Nat])
        /\ main' \in {"wait", "summary", "done"}
    <3>1. N \in Nat /\ Len(table) \in Nat
      BY MultiAssumption
    <3>2. Len(table) + 1 \in 1..N /\ Len(table') = Len(table) + 1
      BY <1>3, RowIs DEF Workers
    <3>3. Len(table') <= N
      BY <3>1, <3>2
    <3> QED  BY <1>3, <3>3, RowIs
  <2>2. UNCHANGED <<opts, cancelled, sem, pc, work, counters, history, resetting, ghosts>>
    BY <1>3 DEF Row
  <2> QED  BY <2>1, <2>2
<1>4. ASSUME NEW x \in Resetters, ResetHistory(x)
      PROVE  TypeOK'
  BY <1>4 DEF ResetHistory
<1>5. ASSUME NEW x \in Resetters, ResetStats(x)
      PROVE  TypeOK'
  <2>1. next[x] \in Workers
    BY <1>5, MultiAssumption DEF ResetStats, ProgressInv, Workers
  <2>2. Len(log[next[x]]) \in Nat
    BY <2>1
  <2>3. next[x] + 1 \in 1 .. N + 1
    <3>1. N \in Nat /\ next[x] \in 1..N
      BY <2>1, MultiAssumption DEF Workers
    <3> QED  BY <3>1
  <2> QED  BY <1>5, <2>1, <2>2, <2>3 DEF ResetStats
<1>6. CASE Exited \/ UNCHANGED vars
  BY <1>6 DEF Exited, vars
<1> QED  BY <1>1, <1>2, <1>3, <1>4, <1>5, <1>6 DEF Run, Reset

LEMMA ProgressStep ==
  ASSUME TypeOK, ProgressInv, [Next]_vars
  PROVE  ProgressInv'
<1> USE DEF ProgressInv
<1>1. CASE UNCHANGED <<summary, resetting>>
  BY <1>1 DEF summary, resetting
<1>2. ASSUME NEW w \in Workers, Worker(w)
      PROVE  ProgressInv'
  BY <1>1, <1>2, WorkerLeaves
<1>3. CASE Cancel \/ Exited \/ UNCHANGED vars
  BY <1>1, <1>3 DEF Cancel, Exited, vars, summary, resetting
<1>4. CASE Joined
  <2>1. main' = "summary" /\ UNCHANGED <<table, resetting>> /\ Len(table) = 0
    BY <1>4 DEF Joined, AllDone
  <2> QED  BY <2>1, MultiAssumption DEF resetting
<1>5. CASE Row
  <2>1. UNCHANGED resetting
    BY <1>5 DEF Row
  <2>2. main' # "wait" /\ (main' = "summary" => Len(table') < N)
    BY <1>5, RowIs, MultiAssumption DEF Workers
  <2> QED  BY <2>1, <2>2 DEF resetting
<1>6. ASSUME NEW x \in Resetters, ResetHistory(x)
      PROVE  ProgressInv'
  BY <1>6 DEF ResetHistory, summary
<1>7. ASSUME NEW x \in Resetters, ResetStats(x)
      PROVE  ProgressInv'
  <2>1. next[x] \in 1..N
    BY <1>7, MultiAssumption DEF ResetStats, TypeOK
  <2> QED  BY <1>7, <2>1, MultiAssumption DEF ResetStats, summary, TypeOK
<1> QED  BY <1>2, <1>3, <1>4, <1>5, <1>6, <1>7 DEF Next, Run, Reset
-----------------------------------------------------------------------------
(* A worker that holds a slot is counted, so the semaphore is not empty.   *)
LEMMA WorkersFinite == IsFiniteSet(Workers)
  BY MultiAssumption, FS_Interval DEF Workers

LEMMA HolderCounts ==
  ASSUME TypeOK, ProbesBounded, NEW w \in Workers, pc[w] \in Holding
  PROVE  opts.concurrency > 0 => sem > 0
<1> DEFINE H == {v \in Workers : pc[v] \in Holding}
<1>1. IsFiniteSet(H)
  BY WorkersFinite, FS_Subset
<1>2. H # {}
  OBVIOUS
<1>3. Cardinality(H) \in Nat /\ Cardinality(H) # 0
  BY <1>1, <1>2, FS_EmptySet, FS_CardinalityType
<1> QED  BY <1>3 DEF ProbesBounded

LEMMA SlotsSame ==
  ASSUME ProbesBounded, sem' = sem, opts' = opts,
         \A w \in Workers : pc'[w] \in Holding <=> pc[w] \in Holding
  PROVE  ProbesBounded'
<1>1. {w \in Workers : pc[w] \in Holding}' = {w \in Workers : pc[w] \in Holding}
  OBVIOUS
<1> QED  BY <1>1 DEF ProbesBounded

(* The steps of a worker that neither take nor give back a slot.           *)
LEMMA SlotsKept ==
  ASSUME TypeOK, ProbesBounded, opts' = opts, sem' = sem, NEW w \in Workers,
         NEW label \in PC, Goto(w, label), label \in Holding <=> pc[w] \in Holding
  PROVE  ProbesBounded'
<1>1. \A v \in Workers : pc'[v] = IF v = w THEN label ELSE pc[v]
  BY DEF TypeOK, Goto
<1> QED  BY <1>1, SlotsSame

LEMMA SlotTaken ==
  ASSUME TypeOK, ProbesBounded, NEW w \in Workers, Acquire(w)
  PROVE  ProbesBounded'
<1> DEFINE H == {v \in Workers : pc[v] \in Holding}
<1>1. IsFiniteSet(H) /\ Cardinality(H) \in Nat
  BY WorkersFinite, FS_Subset, FS_CardinalityType
<1>2. w \notin H /\ H' = H \cup {w}
  BY DEF Acquire, Goto, TypeOK, Holding, PC
<1>3. Cardinality(H') = Cardinality(H) + 1
  BY <1>1, <1>2, FS_AddElement
<1>4. opts.concurrency \in Nat /\ sem \in Nat
  BY OptsIs DEF TypeOK
<1>5. opts' = opts /\ sem' = sem + 1 /\ sem < opts.concurrency
  BY DEF Acquire
<1> QED  BY <1>3, <1>4, <1>5 DEF ProbesBounded

LEMMA SlotGivenBack ==
  ASSUME TypeOK, ProbesBounded, NEW w \in Workers, Release(w)
  PROVE  ProbesBounded'
<1> DEFINE H == {v \in Workers : pc[v] \in Holding}
<1>1. IsFiniteSet(H) /\ Cardinality(H) \in Nat
  BY WorkersFinite, FS_Subset, FS_CardinalityType
<1>2. w \in H /\ H' = H \ {w}
  BY DEF Release, Goto, TypeOK, Holding, PC
<1>3. Cardinality(H') = Cardinality(H) - 1
  BY <1>1, <1>2, FS_RemoveElement
<1>4. opts.concurrency \in Nat /\ sem \in Nat
  BY OptsIs DEF TypeOK
<1>5. opts' = opts /\ (opts.concurrency > 0 => sem' = sem - 1)
  BY DEF Release
<1> QED  BY <1>3, <1>4, <1>5 DEF ProbesBounded

(* Between taking a slot and giving it back a worker stays where slots are *)
(* held.                                                                   *)
LEMMA PlaceOf ==
  ASSUME opts.concurrency > 0, NEW w \in Workers, Probe(w), ~Release(w)
  PROVE  \E label \in PC :
           /\ Goto(w, label)
           /\ label \in Holding <=> pc[w] \in Holding
           /\ sem' = sem /\ opts' = opts
<1> USE DEF Holding, counters, work, summary, resetting, ghosts
<1>1. CASE Check(w)
  <2>1. Goto(w, "acquire") \/ Goto(w, "done")
    BY <1>1 DEF Check
  <2> QED  BY <1>1, <2>1, LabelsIs DEF Check
<1>2. CASE Ping(w) \/ Reping(w)
  <2>1. Goto(w, "backoff") \/ Goto(w, "release")
    BY <1>2 DEF Ping, Reping, Returns
  <2> QED  BY <1>2, <2>1, LabelsIs DEF Ping, Reping, Returns
<1>3. CASE Backoff(w)
  <2>1. Goto(w, "reping") \/ Goto(w, "release")
    BY <1>3 DEF Backoff
  <2> QED  BY <1>3, <2>1, LabelsIs DEF Backoff
<1>4. CASE Count(w) \/ TakeSnapshot(w)
  <2>1. Goto(w, "limit") \/ Goto(w, "broadcast")
    BY <1>4 DEF Count, TakeSnapshot
  <2> QED  BY <1>4, <2>1, LabelsIs DEF Count, TakeSnapshot
<1>5. CASE Limit(w)
  <2>1. Goto(w, "done") \/ Goto(w, "event")
    BY <1>5 DEF Limit
  <2> QED  BY <1>5, <2>1, LabelsIs DEF Limit
<1>6. CASE Broadcast(w)
  <2>1. Goto(w, "done") \/ Goto(w, "interval")
    BY <1>6 DEF Broadcast, AfterEvent
  <2> QED  BY <1>6, <2>1, LabelsIs DEF Broadcast
<1>7. CASE Interval(w)
  <2>1. Goto(w, "done") \/ Goto(w, "check")
    BY <1>7 DEF Interval
  <2> QED  BY <1>7, <2>1, LabelsIs DEF Interval
<1> QED  BY <1>1, <1>2, <1>3, <1>4, <1>5, <1>6, <1>7 DEF Probe

LEMMA SlotsStep ==
  ASSUME TypeOK, ProbesBounded, [Next]_vars
  PROVE  ProbesBounded'
<1>1. opts' = opts
  <2>1. ASSUME NEW w \in Workers, Worker(w)
        PROVE  opts' = opts
    BY <2>1, WorkerLeaves
  <2>2. ASSUME NEW x \in Resetters, Reset(x)
        PROVE  opts' = opts
    BY <2>2 DEF Reset, ResetHistory, ResetStats
  <2>3. CASE Cancel \/ Run \/ Exited \/ UNCHANGED vars
    BY <2>3 DEF Cancel, Run, Joined, Row, Exited, vars
  <2> QED  BY <2>1, <2>2, <2>3 DEF Next
<1>2. SUFFICES ASSUME opts.concurrency > 0
               PROVE  ProbesBounded'
  BY <1>1 DEF ProbesBounded
<1>3. CASE UNCHANGED <<pc, sem, opts>>
  BY <1>3, SlotsSame
<1>4. ASSUME NEW w \in Workers, Acquire(w)
      PROVE  ProbesBounded'
  BY <1>4, SlotTaken
<1>5. ASSUME NEW w \in Workers, Release(w)
      PROVE  ProbesBounded'
  BY <1>5, SlotGivenBack
<1>6. ASSUME NEW w \in Workers, Probe(w), ~Release(w)
      PROVE  ProbesBounded'
  BY <1>2, <1>6, PlaceOf, SlotsKept
<1>7. ASSUME NEW x \in Resetters, Reset(x)
      PROVE  ProbesBounded'
  BY <1>3, <1>7 DEF Reset, ResetHistory, ResetStats
<1>8. CASE Cancel \/ Run \/ Exited \/ UNCHANGED vars
  BY <1>3, <1>8 DEF Cancel, Run, Joined, Row, Exited, vars
<1> QED  BY <1>4, <1>5, <1>6, <1>7, <1>8 DEF Next, Worker

LEMMA TypeStep ==
  ASSUME TypeOK, ProgressInv, ProbesBounded, [Next]_vars
  PROVE  TypeOK'
<1>1. ASSUME NEW w \in Workers, Worker(w)
      PROVE  TypeOK'
  <2>1. opts.concurrency > 0 /\ pc[w] = "release" => sem > 0
    BY HolderCounts DEF Holding
  <2> QED  BY <1>1, <2>1, WorkerType
<1> QED  BY <1>1, OthersType DEF Next
-----------------------------------------------------------------------------
(* The sets that CountersFollowLog counts, and what one more entry of the  *)
(* log does to them.                                                       *)
Those(v, l, m, n) == {i \in m + 1 .. n : l[i] = v}
RunOf(l, m, n) == {j \in m + 1 .. n : \A k \in j .. n : l[k] = "fail"}

LEMMA OneMore ==
  ASSUME NEW m \in Nat, NEW n \in Nat, NEW S \in SUBSET (m + 1 .. n)
  PROVE  /\ IsFiniteSet(S) /\ Cardinality(S) \in Nat
         /\ Cardinality(S \cup {n + 1}) = Cardinality(S) + 1
<1>1. IsFiniteSet(m + 1 .. n)
  BY FS_Interval
<1>2. IsFiniteSet(S) /\ Cardinality(S) \in Nat
  BY <1>1, FS_Subset, FS_CardinalityType
<1>3. n + 1 \notin S
  OBVIOUS
<1> QED  BY <1>2, <1>3, FS_AddElement

LEMMA ThoseExtended ==
  ASSUME NEW v, NEW l, NEW l2, NEW m \in Nat, NEW n \in Nat, NEW k1, m <= n, k1 = n + 1,
         \A i \in 1..n : l2[i] = l[i]
  PROVE  Cardinality(Those(v, l2, m, k1)) =
           IF l2[k1] = v THEN Cardinality(Those(v, l, m, n)) + 1
           ELSE Cardinality(Those(v, l, m, n))
<1>1. \A i \in m + 1 .. k1 : (i \in m + 1 .. n /\ l2[i] = l[i]) \/ i = k1
  OBVIOUS
<1>2. k1 \in m + 1 .. k1 /\ k1 \notin m + 1 .. n
  OBVIOUS
<1>3. \A i \in m + 1 .. n : i \in m + 1 .. k1 /\ l2[i] = l[i]
  OBVIOUS
<1>4. Those(v, l2, m, k1) = IF l2[k1] = v THEN Those(v, l, m, n) \cup {n + 1}
                            ELSE Those(v, l, m, n)
  BY <1>1, <1>2, <1>3 DEF Those
<1>5. Those(v, l, m, n) \in SUBSET (m + 1 .. n)
  BY DEF Those
<1> QED  BY <1>4, <1>5, OneMore

LEMMA RunExtended ==
  ASSUME NEW l, NEW l2, NEW m \in Nat, NEW n \in Nat, NEW k1, m <= n, k1 = n + 1,
         \A i \in 1..n : l2[i] = l[i], l2[k1] = "fail"
  PROVE  Cardinality(RunOf(l2, m, k1)) = Cardinality(RunOf(l, m, n)) + 1
<1>1. \A i \in m + 1 .. k1 : (i \in m + 1 .. n /\ l2[i] = l[i]) \/ i = k1
  OBVIOUS
<1>2. k1 \in m + 1 .. k1 /\ k1 \notin m + 1 .. n
  OBVIOUS
<1>3. \A i \in m + 1 .. n : i \in m + 1 .. k1 /\ l2[i] = l[i]
  OBVIOUS
<1>4. ASSUME NEW j \in m + 1 .. n
      PROVE  (\A k \in j .. k1 : l2[k] = "fail") <=> (\A k \in j .. n : l[k] = "fail")
  <2>1. \A k \in j .. k1 : (k \in j .. n /\ l2[k] = l[k]) \/ k = k1
    OBVIOUS
  <2>2. \A k \in j .. n : k \in j .. k1 /\ l2[k] = l[k]
    OBVIOUS
  <2> QED  BY <2>1, <2>2
<1>5. \A k \in k1 .. k1 : l2[k] = "fail"
  OBVIOUS
<1>6. RunOf(l2, m, k1) = RunOf(l, m, n) \cup {n + 1}
  BY <1>1, <1>2, <1>3, <1>4, <1>5 DEF RunOf
<1>7. RunOf(l, m, n) \in SUBSET (m + 1 .. n)
  BY DEF RunOf
<1> QED  BY <1>6, <1>7, OneMore

LEMMA RunEnded ==
  ASSUME NEW l, NEW m \in Nat, NEW n \in Nat, NEW k1, k1 = n + 1, l[k1] # "fail"
  PROVE  Cardinality(RunOf(l, m, k1)) = 0
<1>1. \A j \in m + 1 .. k1 : k1 \in j .. k1
  OBVIOUS
<1>2. RunOf(l, m, k1) = {}
  BY <1>1 DEF RunOf
<1> QED  BY <1>2, FS_EmptySet

(* CountersFollowLog, of one worker.                                       *)
CountersOf(w) ==
  /\ ok[w] = Cardinality(Those("ok", log[w], resetAt[w], Len(log[w])))
  /\ bad[w] = Cardinality(Those("fail", log[w], resetAt[w], Len(log[w])))
  /\ streak[w] = Cardinality(RunOf(log[w], resetAt[w], Len(log[w])))

LEMMA CountersAre == CountersFollowLog <=> \A w \in Workers : CountersOf(w)
  BY DEF CountersFollowLog, CountersOf, Streak, Those, RunOf

LEMMA CountersAreNow == CountersFollowLog' <=> \A w \in Workers : CountersOf(w)'
  BY DEF CountersFollowLog, CountersOf, Streak, Those, RunOf

LEMMA CountersSame ==
  ASSUME NEW w \in Workers, CountersOf(w), ok'[w] = ok[w], bad'[w] = bad[w],
         streak'[w] = streak[w], log'[w] = log[w], resetAt'[w] = resetAt[w]
  PROVE  CountersOf(w)'
  BY DEF CountersOf

(* Only Count and the resets change what is counted or logged.             *)
LEMMA Untouched ==
  ASSUME [Next]_vars,
         ~\E w \in Workers : Count(w),
         ~\E x \in Resetters : ResetStats(x)
  PROVE  UNCHANGED <<counters, log, resetAt>>
<1> USE DEF work, counters, summary, resetting, ghosts
<1>1. ASSUME NEW w \in Workers, Worker(w)
      PROVE  UNCHANGED <<counters, log, resetAt>>
  <2>1. CASE Check(w) \/ Acquire(w) \/ Ping(w) \/ Reping(w) \/ Backoff(w)
    BY <2>1 DEF Check, Acquire, Ping, Reping, Returns, Backoff
  <2>2. CASE Release(w) \/ Limit(w) \/ TakeSnapshot(w) \/ Broadcast(w) \/ Interval(w)
    BY <2>2 DEF Release, Limit, TakeSnapshot, Broadcast, Interval
  <2> QED  BY <1>1, <2>1, <2>2 DEF Worker, Probe
<1>2. ASSUME NEW x \in Resetters, ResetHistory(x)
      PROVE  UNCHANGED <<counters, log, resetAt>>
  BY <1>2 DEF ResetHistory
<1>3. CASE Cancel \/ Run \/ Exited \/ UNCHANGED vars
  BY <1>3 DEF Cancel, Run, Joined, Row, Exited, vars
<1> QED  BY <1>1, <1>2, <1>3 DEF Next, Reset

LEMMA CountIs ==
  ASSUME TypeOK, NEW w \in Workers, Count(w)
  PROVE  /\ Len(log'[w]) = Len(log[w]) + 1 /\ log'[w][Len(log[w]) + 1] = res[w]
         /\ \A i \in 1 .. Len(log[w]) : log'[w][i] = log[w][i]
         /\ \A v \in Workers \ {w} : log'[v] = log[v]
         /\ ok'[w] = (IF res[w] = "ok" THEN ok[w] + 1 ELSE ok[w])
         /\ bad'[w] = (IF res[w] = "fail" THEN bad[w] + 1 ELSE bad[w])
         /\ streak'[w] = (IF res[w] = "fail" THEN streak[w] + 1 ELSE 0)
         /\ \A v \in Workers \ {w} :
              ok'[v] = ok[v] /\ bad'[v] = bad[v] /\ streak'[v] = streak[v]
         /\ resetAt' = resetAt
<1>1. log[w] \in Seq(Outcomes) /\ res[w] \in Outcomes
  BY DEF TypeOK
<1>2. log'[w] = Append(log[w], res[w]) /\ \A v \in Workers \ {w} : log'[v] = log[v]
  BY DEF Count, TypeOK
<1>3. Len(log'[w]) = Len(log[w]) + 1 /\ log'[w][Len(log[w]) + 1] = res[w]
      /\ \A i \in 1 .. Len(log[w]) : log'[w][i] = log[w][i]
  BY <1>1, <1>2
<1>4. res[w] = "fail" <=> res[w] # "ok"
  BY <1>1 DEF Outcomes
<1>5. ok \in [Workers -> Nat] /\ bad \in [Workers -> Nat] /\ streak \in [Workers -> Nat]
  BY DEF TypeOK
<1>6. resetAt' = resetAt
  BY DEF Count
<1>7. CASE res[w] = "ok"
  <2>1. /\ ok' = [ok EXCEPT ![w] = @ + 1] /\ bad' = bad
        /\ streak' = [streak EXCEPT ![w] = 0]
    BY <1>7 DEF Count
  <2> QED  BY <1>2, <1>3, <1>5, <1>6, <1>7, <2>1
<1>8. CASE res[w] # "ok"
  <2>1. /\ ok' = ok /\ bad' = [bad EXCEPT ![w] = @ + 1]
        /\ streak' = [streak EXCEPT ![w] = @ + 1]
    BY <1>8 DEF Count
  <2> QED  BY <1>2, <1>3, <1>4, <1>5, <1>6, <1>8, <2>1
<1> QED  BY <1>7, <1>8

LEMMA CountersCounted ==
  ASSUME TypeOK, NEW w \in Workers, Count(w), CountersOf(w), resetAt[w] <= Len(log[w])
  PROVE  CountersOf(w)'
<1>1. PICK m \in Nat, n \in Nat : m = resetAt[w] /\ n = Len(log[w]) /\ m <= n
  BY DEF TypeOK
<1>2. PICK h, l, k1 : h = log[w] /\ l = log'[w] /\ k1 = n + 1
  OBVIOUS
<1>3. /\ ok[w] = Cardinality(Those("ok", h, m, n))
      /\ bad[w] = Cardinality(Those("fail", h, m, n))
      /\ streak[w] = Cardinality(RunOf(h, m, n))
  BY <1>1, <1>2 DEF CountersOf
<1>4. Len(l) = k1 /\ l[k1] = res[w] /\ (\A i \in 1..n : l[i] = h[i]) /\ resetAt'[w] = m
  BY <1>1, <1>2, CountIs
<1>5. ASSUME NEW v
      PROVE  Cardinality(Those(v, l, m, k1)) =
               IF res[w] = v THEN Cardinality(Those(v, h, m, n)) + 1
               ELSE Cardinality(Those(v, h, m, n))
  <2>1. m <= n /\ k1 = n + 1 /\ \A i \in 1..n : l[i] = h[i]
    BY <1>1, <1>2, <1>4
  <2>2. Cardinality(Those(v, l, m, k1)) =
          IF l[k1] = v THEN Cardinality(Those(v, h, m, n)) + 1
          ELSE Cardinality(Those(v, h, m, n))
    BY <2>1, ThoseExtended
  <2> QED  BY <1>4, <2>2
<1>6. /\ Cardinality(Those("ok", l, m, k1)) =
           IF res[w] = "ok" THEN Cardinality(Those("ok", h, m, n)) + 1
           ELSE Cardinality(Those("ok", h, m, n))
      /\ Cardinality(Those("fail", l, m, k1)) =
           IF res[w] = "fail" THEN Cardinality(Those("fail", h, m, n)) + 1
           ELSE Cardinality(Those("fail", h, m, n))
  BY <1>5
<1>7. Cardinality(RunOf(l, m, k1)) =
        IF res[w] = "fail" THEN Cardinality(RunOf(h, m, n)) + 1 ELSE 0
  <2>1. m <= n /\ k1 = n + 1 /\ \A i \in 1..n : l[i] = h[i]
    BY <1>1, <1>2, <1>4
  <2>2. CASE l[k1] = "fail"
    <3>1. Cardinality(RunOf(l, m, k1)) = Cardinality(RunOf(h, m, n)) + 1
      BY <2>1, <2>2, RunExtended
    <3> QED  BY <1>4, <2>2, <3>1
  <2>3. CASE l[k1] # "fail"
    BY <1>4, <2>1, <2>3, RunEnded
  <2> QED  BY <2>2, <2>3
<1>8. /\ ok'[w] = Cardinality(Those("ok", l, m, k1))
      /\ bad'[w] = Cardinality(Those("fail", l, m, k1))
      /\ streak'[w] = Cardinality(RunOf(l, m, k1))
  BY <1>3, <1>6, <1>7, CountIs
<1> QED  BY <1>2, <1>4, <1>8 DEF CountersOf

LEMMA CountersErased ==
  ASSUME TypeOK, NEW w \in Workers, ok'[w] = 0, bad'[w] = 0, streak'[w] = 0,
         log' = log, resetAt'[w] = Len(log[w])
  PROVE  CountersOf(w)'
<1>1. Len(log[w]) + 1 .. Len(log[w]) = {}
  BY DEF TypeOK
<1>2. /\ Those("ok", log[w], Len(log[w]), Len(log[w])) = {}
      /\ Those("fail", log[w], Len(log[w]), Len(log[w])) = {}
      /\ RunOf(log[w], Len(log[w]), Len(log[w])) = {}
  BY <1>1 DEF Those, RunOf
<1> QED  BY <1>2, FS_EmptySet DEF CountersOf

(* What one step of a reset does to the target whose turn it is.           *)
LEMMA ResetStatsIs ==
  ASSUME TypeOK, ProgressInv, NEW x \in Resetters, ResetStats(x)
  PROVE  /\ next[x] \in Workers
         /\ log' = log
         /\ ok' = [ok EXCEPT ![next[x]] = 0] /\ bad' = [bad EXCEPT ![next[x]] = 0]
         /\ streak' = [streak EXCEPT ![next[x]] = 0]
         /\ resetAt' = [resetAt EXCEPT ![next[x]] = Len(log[next[x]])]
<1>1. next[x] \in 1 .. N + 1 /\ next[x] <= N /\ N \in Nat
  BY MultiAssumption DEF ResetStats, ProgressInv, TypeOK
<1>2. next[x] \in Workers
  BY <1>1 DEF Workers
<1> QED  BY <1>2 DEF ResetStats

LEMMA CountersStep ==
  ASSUME TypeOK, ProgressInv, ResetInv, CountersFollowLog, [Next]_vars
  PROVE  CountersFollowLog' /\ ResetInv'
<1>1. CASE UNCHANGED <<counters, log, resetAt>>
  <2>1. \A w \in Workers : CountersOf(w)'
    BY <1>1, CountersAre, CountersSame DEF counters
  <2> QED  BY <1>1, <2>1, CountersAreNow DEF ResetInv
<1>2. ASSUME NEW w \in Workers, Count(w)
      PROVE  CountersFollowLog' /\ ResetInv'
  <2>1. CountersOf(w)'
    BY <1>2, CountersCounted, CountersAre DEF ResetInv
  <2>2. ASSUME NEW v \in Workers \ {w}
        PROVE  CountersOf(v)'
    BY <1>2, CountIs, CountersSame, CountersAre
  <2>3. \A v \in Workers : resetAt'[v] <= Len(log'[v])
    <3>1. ASSUME NEW v \in Workers
          PROVE  resetAt[v] \in Nat /\ Len(log[v]) \in Nat /\ resetAt[v] <= Len(log[v])
      BY DEF TypeOK, ResetInv
    <3> QED  BY <1>2, <3>1, CountIs
  <2> QED  BY <2>1, <2>2, <2>3, CountersAreNow DEF ResetInv
<1>3. ASSUME NEW x \in Resetters, ResetStats(x)
      PROVE  CountersFollowLog' /\ ResetInv'
  <2>1. PICK w \in Workers : w = next[x]
    BY <1>3, ResetStatsIs
  <2>2. /\ ok \in [Workers -> Nat] /\ bad \in [Workers -> Nat]
        /\ streak \in [Workers -> Nat] /\ resetAt \in [Workers -> Nat]
    BY DEF TypeOK
  <2>3. /\ log' = log /\ ok'[w] = 0 /\ bad'[w] = 0 /\ streak'[w] = 0
        /\ resetAt'[w] = Len(log[w])
    BY <1>3, <2>1, <2>2, ResetStatsIs
  <2>4. \A v \in Workers \ {w} :
          ok'[v] = ok[v] /\ bad'[v] = bad[v] /\ streak'[v] = streak[v]
            /\ resetAt'[v] = resetAt[v]
    BY <1>3, <2>1, <2>2, ResetStatsIs
  <2>5. CountersOf(w)'
    BY <2>3, CountersErased
  <2>6. ASSUME NEW v \in Workers \ {w}
        PROVE  CountersOf(v)'
    BY <2>3, <2>4, CountersSame, CountersAre
  <2>7. \A v \in Workers : resetAt'[v] <= Len(log'[v])
    <3>1. \A v \in Workers : Len(log[v]) \in Nat
      BY DEF TypeOK
    <3> QED  BY <2>3, <2>4, <3>1 DEF ResetInv
  <2> QED  BY <2>5, <2>6, <2>7, CountersAreNow DEF ResetInv
<1> QED  BY <1>1, <1>2, <1>3, Untouched
-----------------------------------------------------------------------------
(* The streak since a reset is part of the run of failures it belongs to.  *)
LEMMA StreakIsRun ==
  ASSUME NEW l, NEW m \in Nat, NEW n \in Nat
  PROVE  Cardinality(Streak(l, m + 1, n)) <= Cardinality(Streak(l, 1, n))
         /\ Cardinality(Streak(l, m + 1, n)) \in Nat
         /\ Cardinality(Streak(l, 1, n)) \in Nat
<1>1. IsFiniteSet(1 .. n)
  BY FS_Interval
<1>2. Streak(l, m + 1, n) \subseteq Streak(l, 1, n) /\ Streak(l, 1, n) \subseteq 1 .. n
  BY DEF Streak
<1>3. IsFiniteSet(Streak(l, 1, n)) /\ IsFiniteSet(Streak(l, m + 1, n))
  BY <1>1, <1>2, FS_Subset
<1> QED  BY <1>2, <1>3, FS_Subset, FS_CardinalityType

(* A worker that others leave alone, or that only moves on in its loop.    *)
LEMMA StopSame ==
  ASSUME NEW w \in Workers, StopInvOf(w), opts' = opts, log'[w] = log[w],
         cancelled => cancelled', pc'[w] = pc[w]
  PROVE  StopInvOf(w)'
  BY DEF StopInvOf

LEMMA StopMoved ==
  ASSUME NEW w \in Workers, StopInvOf(w), opts' = opts, log'[w] = log[w],
         pc'[w] \in Unlimited, pc[w] \in Unlimited
  PROVE  StopInvOf(w)'
  BY DEF StopInvOf, Unlimited

LEMMA StopStep ==
  ASSUME TypeOK, CountersFollowLog, StopInv, [Next]_vars
  PROVE  StopInv'
<1> USE DEF work, counters, summary, resetting, ghosts
<1>1. \A w \in Workers : StopInvOf(w)
  BY DEF StopInv
<1>2. pc \in [Workers -> PC] /\ opts.quit \in Nat /\ opts.maxFails \in Nat
  BY OptsIs DEF TypeOK
<1>3. CASE UNCHANGED <<pc, log, opts>> /\ (cancelled => cancelled')
  BY <1>1, <1>3, StopSame DEF StopInv
<1>4. ASSUME NEW w \in Workers, Worker(w)
      PROVE  StopInv'
  <2>1. opts' = opts /\ cancelled' = cancelled
    BY <1>4, WorkerLeaves
  <2>2. \A v \in Workers \ {w} : pc'[v] = pc[v] /\ log'[v] = log[v]
    <3>1. \E label \in PC : Goto(w, label)
      <4>1. CASE Check(w) \/ Acquire(w) \/ Ping(w) \/ Reping(w) \/ Backoff(w)
        BY <4>1, LabelsIs DEF Check, Acquire, Ping, Reping, Returns, Backoff
      <4>2. CASE Release(w) \/ Count(w) \/ TakeSnapshot(w) \/ Interval(w)
        BY <4>2, LabelsIs DEF Release, Count, TakeSnapshot, Interval
      <4>3. CASE Limit(w) \/ Broadcast(w)
        BY <4>3, LabelsIs DEF Limit, Broadcast, AfterEvent
      <4> QED  BY <1>4, <4>1, <4>2, <4>3 DEF Worker, Probe
    <3>2. \A v \in Workers \ {w} : pc'[v] = pc[v]
      BY <1>2, <3>1 DEF Goto
    <3>3. log' = log \/ Count(w)
      BY <1>4 DEF Worker, Probe, Check, Acquire, Ping, Reping, Returns, Backoff, Release,
                  Limit, TakeSnapshot, Broadcast, Interval
    <3> QED  BY <3>2, <3>3, CountIs
  <2>3. StopInvOf(w)'
    <3>1. CASE Check(w) /\ cancelled
      <4>1. pc'[w] = "done" /\ log'[w] = log[w] /\ pc[w] = "check"
        BY <1>2, <3>1 DEF Check, Goto
      <4> QED  BY <1>1, <1>2, <2>1, <3>1, <4>1 DEF StopInvOf, Unlimited
    <3>2. CASE Check(w) /\ ~cancelled
      <4>1. pc'[w] \in {"acquire", "ping"} /\ log'[w] = log[w] /\ pc[w] = "check"
        BY <1>2, <3>2 DEF Check, Goto
      <4> QED  BY <1>1, <2>1, <4>1, StopMoved DEF Unlimited
    <3>3. CASE Acquire(w) \/ Ping(w) \/ Reping(w) \/ Backoff(w) \/ Release(w)
      <4>1. pc'[w] \in {"ping", "backoff", "reping", "release", "count"}
            /\ pc[w] \in {"acquire", "ping", "reping", "backoff", "release"}
            /\ log'[w] = log[w]
        BY <1>2, <3>3 DEF Acquire, Ping, Reping, Returns, Backoff, Release, Goto
      <4> QED  BY <1>1, <2>1, <4>1, StopMoved DEF Unlimited
    <3>4. CASE Count(w)
      <4>1. pc'[w] = "limit" /\ pc[w] = "count"
        BY <1>2, <3>4 DEF Count, Goto
      <4>2. Len(log'[w]) = Len(log[w]) + 1
        BY <3>4, CountIs
      <4>3. Len(log[w]) \in Nat
        BY DEF TypeOK
      <4> QED  BY <1>1, <1>2, <2>1, <4>1, <4>2, <4>3 DEF StopInvOf, Unlimited
    <3>5. CASE Limit(w)
      <4>1. pc[w] = "limit" /\ log' = log
            /\ pc'[w] = (IF opts.maxFails > 0 /\ streak[w] >= opts.maxFails
                          THEN "done" ELSE "event")
        BY <1>2, <3>5 DEF Limit, Goto
      <4>2. resetAt[w] \in Nat /\ Len(log[w]) \in Nat
        BY DEF TypeOK
      <4>7. PICK l : l = log[w]
        OBVIOUS
      <4>3. PICK m \in Nat, n \in Nat : m = resetAt[w] /\ n = Len(l)
        BY <4>2, <4>7
      <4>4. streak[w] = Cardinality(Streak(l, m + 1, n))
        BY <4>3, <4>7 DEF CountersFollowLog
      <4>5. streak[w] <= Cardinality(Streak(l, 1, n)) /\ streak[w] \in Nat
            /\ Cardinality(Streak(l, 1, n)) \in Nat
        BY <4>4, StreakIsRun
      <4>6. pc'[w] = "done" =>
              opts.maxFails > 0 /\ Cardinality(Streak(l, 1, n)) >= opts.maxFails
        BY <1>2, <4>1, <4>5
      <4> QED  BY <1>1, <2>1, <4>1, <4>3, <4>6, <4>7 DEF StopInvOf, Unlimited
    <3>6. CASE TakeSnapshot(w)
      <4>1. pc'[w] = "broadcast" /\ log'[w] = log[w] /\ pc[w] = "event"
        BY <1>2, <3>6 DEF TakeSnapshot, Goto
      <4> QED  BY <1>1, <2>1, <4>1 DEF StopInvOf, Unlimited
    <3>7. CASE Broadcast(w)
      <4>1. /\ log'[w] = log[w] /\ pc[w] = "broadcast"
            /\ pc'[w] = (IF opts.quit > 0 /\ Len(log[w]) >= opts.quit
                         THEN "done" ELSE "interval")
        BY <1>2, <3>7 DEF Broadcast, AfterEvent, Goto
      <4>2. Len(log[w]) \in Nat
        BY DEF TypeOK
      <4> QED  BY <1>1, <1>2, <2>1, <4>1, <4>2 DEF StopInvOf, Unlimited
    <3>8. CASE Interval(w)
      <4>1. /\ log'[w] = log[w] /\ pc[w] = "interval"
            /\ pc'[w] = "check" \/ (cancelled /\ pc'[w] = "done")
        BY <1>2, <3>8 DEF Interval, Goto
      <4> QED  BY <1>1, <2>1, <4>1 DEF StopInvOf, Unlimited
    <3> QED  BY <1>4, <3>1, <3>2, <3>3, <3>4, <3>5, <3>6, <3>7, <3>8 DEF Worker, Probe
  <2>4. \A v \in Workers \ {w} : StopInvOf(v)'
    BY <1>1, <2>1, <2>2, StopSame
  <2> QED  BY <2>3, <2>4 DEF StopInv
<1>5. ASSUME NEW x \in Resetters, Reset(x)
      PROVE  StopInv'
  BY <1>3, <1>5 DEF Reset, ResetHistory, ResetStats
<1>6. CASE Cancel \/ Run \/ Exited \/ UNCHANGED vars
  BY <1>3, <1>6 DEF Cancel, Run, Joined, Row, Exited, vars
<1> QED  BY <1>4, <1>5, <1>6 DEF Next

LEMMA LateSame ==
  ASSUME LateInv, late' = late, opts' = opts, cancelled => cancelled',
         \A w \in Workers : pc'[w] = "acquire" => pc[w] = "acquire" \/ ~cancelled
  PROVE  LateInv'
  BY DEF LateInv

LEMMA LateStep ==
  ASSUME TypeOK, LateInv, [Next]_vars
  PROVE  LateInv'
<1> USE DEF work, counters, summary, resetting, ghosts
<1>1. pc \in [Workers -> PC] /\ late \in [Workers -> Nat] /\ sem \in Nat
      /\ opts.concurrency \in Nat
  BY OptsIs DEF TypeOK
<1>2. CASE UNCHANGED <<pc, late, opts>> /\ (cancelled => cancelled')
  BY <1>2, LateSame
<1>3. ASSUME NEW w \in Workers, Check(w)
      PROVE  LateInv'
  <2>1. opts' = opts /\ cancelled' = cancelled /\ late' = late
    BY <1>1, <1>3 DEF Check, Begun
  <2>2. cancelled => Goto(w, "done")
    BY <1>3 DEF Check
  <2>3. \A v \in Workers : pc'[v] = "acquire" => pc[v] = "acquire" \/ ~cancelled
    BY <1>1, <2>2 DEF Goto
  <2> QED  BY <2>1, <2>3, LateSame
<1>4. ASSUME NEW w \in Workers, Acquire(w)
      PROVE  LateInv'
  <2>1. /\ opts' = opts /\ cancelled' = cancelled /\ opts.concurrency > 0
        /\ late[w] = 0 /\ pc'[w] = "ping"
        /\ late'[w] = IF cancelled THEN 1 ELSE 0
    BY <1>1, <1>4 DEF Acquire, Begun, Goto, LateInv
  <2>2. \A v \in Workers \ {w} : pc'[v] = pc[v] /\ late'[v] = late[v]
    BY <1>1, <1>4 DEF Acquire, Begun, Goto
  <2> QED  BY <2>1, <2>2 DEF LateInv
<1>5. ASSUME NEW w \in Workers, Probe(w), ~Check(w)
      PROVE  LateInv'
  <2>1. opts' = opts /\ cancelled' = cancelled
    BY <1>5, WorkerLeaves DEF Worker
  <2>2. late' = late
    BY <1>5 DEF Probe, Ping, Reping, Returns, Backoff, Release, Count, Limit, TakeSnapshot,
                Broadcast, Interval
  <2>3. \E label \in PC \ {"acquire"} : Goto(w, label)
    <3>1. CASE Ping(w) \/ Reping(w) \/ Backoff(w)
      BY <3>1, LabelsIs DEF Ping, Reping, Returns, Backoff
    <3>2. CASE Release(w) \/ Count(w) \/ TakeSnapshot(w) \/ Interval(w)
      BY <3>2, LabelsIs DEF Release, Count, TakeSnapshot, Interval
    <3>3. CASE Limit(w) \/ Broadcast(w)
      BY <3>3, LabelsIs DEF Limit, Broadcast, AfterEvent
    <3> QED  BY <1>5, <3>1, <3>2, <3>3 DEF Probe
  <2>4. \A v \in Workers : pc'[v] = "acquire" => pc[v] = "acquire"
    BY <1>1, <2>3 DEF Goto
  <2> QED  BY <2>1, <2>2, <2>4, LateSame
<1>6. ASSUME NEW x \in Resetters, Reset(x)
      PROVE  LateInv'
  BY <1>2, <1>6 DEF Reset, ResetHistory, ResetStats
<1>7. CASE Cancel \/ Run \/ Exited \/ UNCHANGED vars
  BY <1>2, <1>7 DEF Cancel, Run, Joined, Row, Exited, vars
<1> QED  BY <1>3, <1>4, <1>5, <1>6, <1>7 DEF Next, Worker
-----------------------------------------------------------------------------
(* Once Run prints its summary no worker takes a step any more.            *)
LEMMA DoneIsDone ==
  ASSUME NEW w \in Workers, Worker(w)
  PROVE  pc[w] # "done"
  BY DEF Worker, Probe, Check, Acquire, Ping, Reping, Returns, Backoff, Release, Count,
         Limit, TakeSnapshot, Broadcast, Interval

LEMMA SummaryStep ==
  ASSUME TypeOK, ProgressInv, SummaryInv, [Next]_vars
  PROVE  SummaryInv'
<1> USE DEF work, counters, summary, resetting, ghosts
<1>1. CASE UNCHANGED <<pc, main, table, rpc, ok, bad, resetAt>>
  BY <1>1 DEF SummaryInv, NoReset
<1>2. ASSUME NEW w \in Workers, Worker(w)
      PROVE  SummaryInv'
  <2>1. main = "wait" /\ Len(table) = 0
    BY <1>2, DoneIsDone DEF SummaryInv, ProgressInv
  <2>2. UNCHANGED <<main, table, rpc, resetAt>>
    BY <1>2, WorkerLeaves
  <2> QED  BY <2>1, <2>2 DEF SummaryInv, NoReset
<1>3. CASE Joined
  <2>1. /\ \A w \in Workers : pc[w] = "done"
        /\ UNCHANGED <<pc, table, rpc, ok, bad, resetAt>>
    BY <1>3 DEF Joined, AllDone
  <2> QED  BY <2>1 DEF SummaryInv, NoReset
<1>4. CASE Row
  <2>1. UNCHANGED <<pc, rpc, ok, bad, resetAt>> /\ main = "summary"
    BY <1>4 DEF Row
  <2>2. PICK n \in Nat : n = Len(table)
    BY DEF TypeOK
  <2>3. /\ Len(table') = n + 1
        /\ table'[n + 1] = [ok |-> ok[n + 1], bad |-> bad[n + 1]]
        /\ \A k \in 1 .. n : table'[k] = table[k]
    <3>1. table \in Seq([ok : Nat, bad : Nat]) /\ n + 1 \in Workers
          /\ table' = Append(table, [ok |-> ok[n + 1], bad |-> bad[n + 1]])
      BY <1>4, <2>2, RowIs DEF TypeOK
    <3>2. [ok |-> ok[n + 1], bad |-> bad[n + 1]] \in [ok : Nat, bad : Nat]
      BY <3>1 DEF TypeOK
    <3> QED  BY <2>2, <3>1, <3>2
  <2>4. \A k \in 1 .. n + 1 : k \in 1 .. n \/ k = n + 1
    OBVIOUS
  <2>5. NoReset' => \A k \in 1 .. n + 1 : table'[k] = [ok |-> ok[k], bad |-> bad[k]]
    BY <2>1, <2>2, <2>3, <2>4 DEF SummaryInv, NoReset
  <2> QED  BY <2>1, <2>3, <2>5 DEF SummaryInv, NoReset
<1>5. ASSUME NEW x \in Resetters, Reset(x)
      PROVE  SummaryInv'
  <2>1. rpc'[x] # "idle" /\ UNCHANGED <<pc, main>>
    BY <1>5 DEF Reset, ResetHistory, ResetStats, TypeOK
  <2> QED  BY <2>1 DEF SummaryInv, NoReset
<1>6. CASE Cancel \/ Exited \/ UNCHANGED vars
  BY <1>1, <1>6 DEF Cancel, Exited, vars
<1> QED  BY <1>2, <1>3, <1>4, <1>5, <1>6 DEF Next, Run
-----------------------------------------------------------------------------
LEMMA InitIInv == Init => IInv
<1> SUFFICES ASSUME Init  PROVE IInv
  OBVIOUS
<1>1. TypeOK /\ ProgressInv
  BY InitType
<1>2. ProbesBounded
  <2>1. {w \in Workers : pc[w] \in Holding} = {} /\ sem = 0 /\ opts.concurrency \in Nat
    BY <1>1, OptsIs DEF Init, Holding
  <2> QED  BY <2>1, FS_EmptySet DEF ProbesBounded
<1>3. \A w \in Workers : log[w] = <<>> /\ Len(log[w]) = 0 /\ resetAt[w] = 0
  BY DEF Init
<1>4. CountersFollowLog
  <2>1. \A w \in Workers : ok[w] = 0 /\ bad[w] = 0 /\ streak[w] = 0 /\ 0 + 1 .. 0 = {}
    BY DEF Init
  <2>2. \A A : A \subseteq {} => Cardinality(A) = 0
    BY FS_EmptySet
  <2>3. ASSUME NEW w \in Workers
        PROVE  CountersOf(w)
    <3>1. /\ Those("ok", log[w], resetAt[w], Len(log[w])) \subseteq {}
          /\ Those("fail", log[w], resetAt[w], Len(log[w])) \subseteq {}
          /\ RunOf(log[w], resetAt[w], Len(log[w])) \subseteq {}
      BY <1>3, <2>1 DEF Those, RunOf
    <3> QED  BY <2>1, <2>2, <3>1 DEF CountersOf
  <2> QED  BY <2>3, CountersAre
<1>5. StopInv
  BY <1>1, <1>3, OptsIs DEF Init, StopInv, StopInvOf
<1>6. LateInv /\ ResetInv
  BY <1>3 DEF Init, LateInv, ResetInv
<1>7. SummaryInv
  BY <1>3 DEF Init, SummaryInv
<1> QED  BY <1>1, <1>2, <1>4, <1>5, <1>6, <1>7 DEF IInv

LEMMA SpecIInv == Spec => []IInv
<1>1. IInv /\ [Next]_vars => IInv'
  BY TypeStep, ProgressStep, SlotsStep, CountersStep, StopStep, LateStep, SummaryStep
     DEF IInv
<1> QED  BY InitIInv, <1>1, PTL DEF Spec

(* Every variable keeps its type, whatever the fleet, the options, the     *)
(* interrupt and the resets (Run, PrintSummaryTable, handleReset).         *)
THEOREM TypeCorrect == Spec => []TypeOK
<1>1. IInv => TypeOK
  BY DEF IInv
<1> QED  BY SpecIInv, <1>1, PTL

(* However many targets there are and however their retries end, no more   *)
(* than --concurrency of them are probed at once, and no slot leaks (sem). *)
THEOREM SlotsCorrect == Spec => []ProbesBounded
<1>1. IInv => ProbesBounded
  BY DEF IInv
<1> QED  BY SpecIInv, <1>1, PTL

(* Resets that go through the fleet while it is probed neither lose nor    *)
(* double a probe of any target (RecordSuccess, RecordFailure, Reset).     *)
THEOREM CountersCorrect == Spec => []CountersFollowLog
<1>1. IInv => CountersFollowLog
  BY DEF IInv
<1> QED  BY SpecIInv, <1>1, PTL

(* No target stops probing because of another one, each stops on its count *)
(* or its own failures, and after the interrupt it begins one probe more   *)
(* at most, none without --concurrency (Run).                              *)
THEOREM StopsCorrect == Spec => []WorkersStop
<1>1. IInv => WorkersStop
  <2> SUFFICES ASSUME IInv  PROVE WorkersStop
    OBVIOUS
  <2>1. WorkersIndependent
    BY DEF IInv, StopInv, StopInvOf, WorkersIndependent
  <2>2. AtMostOneLateProbe
    BY DEF IInv, LateInv, AtMostOneLateProbe
  <2> QED  BY <2>1, <2>2 DEF WorkersStop
<1> QED  BY SpecIInv, <1>1, PTL
-----------------------------------------------------------------------------
(* Events and summary, as long as nobody resets.  How many probes of w are *)
(* published, and the event of its probe k.                                *)
Published(w) == Cardinality(EventsOf(w))

EventOf(w, k) == [worker |-> w, verdict |-> log[w][k],
                  ok |-> Totals(log[w], k).ok, bad |-> Totals(log[w], k).bad]

Event == [worker : Workers, verdict : Outcomes, ok : Nat, bad : Nat]

Counted == {"limit", "event", "broadcast"}

(* The probe a worker has counted and not yet published is the last of its *)
(* log; everywhere else in the loop all are published.                     *)
PlaceInvOf(w) ==
  /\ pc[w] \in Counted => Published(w) + 1 = Len(log[w]) /\ log[w][Len(log[w])] = res[w]
  /\ pc[w] \notin Counted \cup {"done"} => Published(w) = Len(log[w])
  /\ pc[w] = "broadcast" => snap[w] = [ok |-> ok[w], bad |-> bad[w]]

ToldInvOf(w) ==
  /\ Published(w) <= Len(log[w])
  /\ \A i \in EventsOf(w) : history[i] = EventOf(w, Cardinality(EventsOf(w) \cap 1 .. i))

EventInv == NoReset => \A w \in Workers : PlaceInvOf(w) /\ ToldInvOf(w)

LEMMA EventsAreFinite ==
  ASSUME TypeOK, NEW w
  PROVE  /\ IsFiniteSet(EventsOf(w)) /\ Published(w) \in Nat
         /\ EventsOf(w) \subseteq 1 .. Len(history) /\ Len(history) \in Nat
<1>0. history \in Seq(Event)
  BY DEF TypeOK, Event
<1>1. EventsOf(w) \subseteq 1 .. Len(history) /\ Len(history) \in Nat
  BY <1>0 DEF EventsOf
<1>2. IsFiniteSet(1 .. Len(history))
  BY <1>1, FS_Interval
<1> QED  BY <1>1, <1>2, FS_Subset, FS_CardinalityType DEF Published

(* The rank of an event among those of its worker.                         *)
LEMMA RankIs ==
  ASSUME TypeOK, NEW w, NEW i \in EventsOf(w)
  PROVE  Cardinality(EventsOf(w) \cap 1 .. i) \in 1 .. Published(w)
<1> DEFINE R == EventsOf(w) \cap 1 .. i
<1>1. i \in 1 .. Len(history) /\ Len(history) \in Nat
  BY EventsAreFinite
<1>2. i \in R /\ R \subseteq EventsOf(w)
  BY <1>1
<1>3. IsFiniteSet(R) /\ Cardinality(R) \in Nat /\ Cardinality(R) <= Published(w)
  BY <1>2, EventsAreFinite, FS_Subset, FS_CardinalityType DEF Published
<1>4. Cardinality(R) # 0
  BY <1>2, <1>3, FS_EmptySet
<1>5. Published(w) \in Nat
  BY EventsAreFinite
<1> HIDE DEF R
<1>6. Cardinality(R) \in 1 .. Published(w)
  BY <1>3, <1>4, <1>5
<1> QED  BY <1>6 DEF R

(* A longer log has the same first entries and the same totals of them.    *)
LEMMA TotalsKept ==
  ASSUME NEW l, NEW l2, NEW n \in Nat, \A i \in 1 .. n : l2[i] = l[i], NEW k \in 1 .. n
  PROVE  Totals(l2, k) = Totals(l, k) /\ l2[k] = l[k]
<1>1. \A i \in 1 .. k : l2[i] = l[i]
  OBVIOUS
<1>2. \A v : {i \in 1 .. k : l2[i] = v} = {i \in 1 .. k : l[i] = v}
  BY <1>1
<1> QED  BY <1>2 DEF Totals

LEMMA LogLength ==
  ASSUME TypeOK, NEW w \in Workers
  PROVE  Len(log[w]) \in Nat
<1>1. log[w] \in Seq(Outcomes)
  BY DEF TypeOK
<1> QED  BY <1>1

LEMMA ToldSame ==
  ASSUME NEW w, ToldInvOf(w), history' = history, log'[w] = log[w]
  PROVE  ToldInvOf(w)' /\ Published(w)' = Published(w)
  BY DEF ToldInvOf, Published, EventsOf, EventOf

LEMMA ToldCounted ==
  ASSUME TypeOK, NEW w \in Workers, ToldInvOf(w), history' = history,
         Len(log'[w]) = Len(log[w]) + 1, \A i \in 1 .. Len(log[w]) : log'[w][i] = log[w][i]
  PROVE  ToldInvOf(w)' /\ Published(w)' = Published(w)
<1>1. EventsOf(w)' = EventsOf(w) /\ Published(w)' = Published(w)
  BY DEF EventsOf, Published
<1>2. Len(log[w]) \in Nat /\ Published(w) \in Nat /\ Published(w) <= Len(log[w])
  BY EventsAreFinite, LogLength DEF ToldInvOf
<1>3. ASSUME NEW i \in EventsOf(w)
      PROVE  history[i] = EventOf(w, Cardinality(EventsOf(w) \cap 1 .. i))'
  <2>1. PICK k \in 1 .. Published(w) : k = Cardinality(EventsOf(w) \cap 1 .. i)
    BY RankIs
  <2>2. k \in 1 .. Len(log[w])
    BY <1>2
  <2>3. PICK l, l2 : l = log[w] /\ l2 = log'[w]
    OBVIOUS
  <2>4. Totals(l2, k) = Totals(l, k) /\ l2[k] = l[k]
    BY <1>2, <2>2, <2>3, TotalsKept
  <2>5. history[i] = EventOf(w, k)
    BY <2>1 DEF ToldInvOf
  <2>6. EventOf(w, k)' = EventOf(w, k)
    BY <2>3, <2>4 DEF EventOf
  <2> QED  BY <1>1, <2>1, <2>5, <2>6
<1>4. Published(w)' <= Len(log'[w])
  BY <1>1, <1>2
<1> QED  BY <1>1, <1>3, <1>4 DEF ToldInvOf

(* An event is appended: its worker has one more, the others as many.      *)
LEMMA EventsAppended ==
  ASSUME TypeOK, NEW e \in Event, history' = Append(history, e), NEW w
  PROVE  /\ e.worker = w => /\ EventsOf(w)' = EventsOf(w) \cup {Len(history) + 1}
                            /\ Published(w)' = Published(w) + 1
         /\ e.worker # w => EventsOf(w)' = EventsOf(w)
         /\ history'[Len(history) + 1] = e
         /\ \A i \in EventsOf(w) : history'[i] = history[i] /\ i \in 1 .. Len(history)
<1> DEFINE n == Len(history) + 1
<1>1. history \in Seq(Event)
  BY DEF TypeOK, Event
<1>2. /\ history'[n] = e /\ \A i \in 1 .. Len(history) : history'[i] = history[i]
      /\ DOMAIN history' = (1 .. Len(history)) \cup {n} /\ DOMAIN history = 1 .. Len(history)
      /\ n \notin 1 .. Len(history)
  BY <1>1
<1>3. ASSUME e.worker = w  PROVE EventsOf(w)' = EventsOf(w) \cup {n}
  BY <1>2, <1>3 DEF EventsOf
<1>4. ASSUME e.worker # w  PROVE EventsOf(w)' = EventsOf(w)
  BY <1>2, <1>4 DEF EventsOf
<1>5. n \notin EventsOf(w)
  BY <1>2 DEF EventsOf
<1>6. Cardinality(EventsOf(w) \cup {n}) = Published(w) + 1
  BY <1>5, EventsAreFinite, FS_AddElement DEF Published
<1>7. e.worker = w => Published(w)' = Published(w) + 1
  BY <1>3, <1>6 DEF Published
<1> QED  BY <1>2, <1>3, <1>4, <1>7, EventsAreFinite

LEMMA ToldOfOthers ==
  ASSUME TypeOK, NEW e \in Event, history' = Append(history, e), NEW w, e.worker # w,
         ToldInvOf(w), log'[w] = log[w]
  PROVE  ToldInvOf(w)' /\ Published(w)' = Published(w)
<1>1. EventsOf(w)' = EventsOf(w) /\ Published(w)' = Published(w)
  BY EventsAppended DEF Published
<1>2. \A i \in EventsOf(w) : history'[i] = history[i]
  BY EventsAppended
<1> QED  BY <1>1, <1>2 DEF ToldInvOf, EventOf

LEMMA ToldPublished ==
  ASSUME TypeOK, NEW w \in Workers, ToldInvOf(w), log' = log,
         Published(w) + 1 = Len(log[w]), EventOf(w, Len(log[w])) \in Event,
         history' = Append(history, EventOf(w, Len(log[w])))
  PROVE  ToldInvOf(w)' /\ Published(w)' = Len(log[w])
<1> DEFINE n == Len(history) + 1
<1>1. EventOf(w, Len(log[w])).worker = w
  BY DEF EventOf
<1>2. /\ EventsOf(w)' = EventsOf(w) \cup {n} /\ Published(w)' = Len(log[w])
      /\ history'[n] = EventOf(w, Len(log[w]))
      /\ \A i \in EventsOf(w) : history'[i] = history[i] /\ i \in 1 .. Len(history)
  BY <1>1, EventsAppended
<1>3. EventsOf(w) \subseteq 1 .. Len(history) /\ Len(history) \in Nat
      /\ Len(log[w]) \in Nat
  BY EventsAreFinite, LogLength
<1>4. EventsOf(w)' \cap 1 .. n = EventsOf(w)'
  <2>1. EventsOf(w)' \subseteq 1 .. n
    BY <1>2, <1>3
  <2> QED  BY <2>1
<1>5. \A i \in EventsOf(w) : EventsOf(w)' \cap 1 .. i = EventsOf(w) \cap 1 .. i
  BY <1>2, <1>3
<1>6. log'[w] = log[w]
  OBVIOUS
<1>7. history'[n] = EventOf(w, Cardinality(EventsOf(w)' \cap 1 .. n))
  <2>1. Cardinality(EventsOf(w)' \cap 1 .. n) = Len(log[w])
    BY <1>2, <1>4 DEF Published
  <2> QED  BY <1>2, <2>1
<1>8. ASSUME NEW i \in EventsOf(w)
      PROVE  history'[i] = EventOf(w, Cardinality(EventsOf(w)' \cap 1 .. i))
  BY <1>2, <1>5, <1>8 DEF ToldInvOf
<1>9. \A i \in EventsOf(w)' :
        history'[i] = EventOf(w, Cardinality(EventsOf(w)' \cap 1 .. i))
  BY <1>2, <1>7, <1>8
<1>10. Published(w)' <= Len(log'[w])
  BY <1>2, <1>3, <1>6
<1> QED  BY <1>2, <1>6, <1>9, <1>10 DEF ToldInvOf, EventOf

(* One worker's step leaves what the others have counted and read alone.   *)
LEMMA OthersStay ==
  ASSUME TypeOK, NEW w \in Workers, Worker(w), NEW v \in Workers, v # w
  PROVE  /\ pc'[v] = pc[v] /\ log'[v] = log[v] /\ res'[v] = res[v] /\ snap'[v] = snap[v]
         /\ ok'[v] = ok[v] /\ bad'[v] = bad[v]
<1> USE DEF work, counters, summary, resetting, ghosts
<1>1. pc'[v] = pc[v]
  <2>1. \E l : Goto(w, l)
    BY DEF Worker, Probe, Check, Acquire, Ping, Reping, Returns, Backoff, Release, Count,
           Limit, TakeSnapshot, Broadcast, AfterEvent, Interval
  <2> QED  BY <2>1 DEF Goto, TypeOK
<1>2. CASE Check(w) \/ Acquire(w) \/ Backoff(w) \/ Release(w) \/ Limit(w) \/ Interval(w)
  BY <1>1, <1>2 DEF Check, Acquire, Backoff, Release, Limit, Interval
<1>3. CASE Ping(w) \/ Reping(w)
  BY <1>1, <1>3 DEF Ping, Reping, Returns, TypeOK
<1>4. CASE Count(w)
  BY <1>1, <1>4 DEF Count, TypeOK
<1>5. CASE TakeSnapshot(w) \/ Broadcast(w)
  BY <1>1, <1>5 DEF TakeSnapshot, Broadcast, TypeOK
<1> QED  BY <1>2, <1>3, <1>4, <1>5 DEF Worker, Probe

LEMMA PlaceSame ==
  ASSUME NEW w, PlaceInvOf(w), Published(w)' = Published(w), pc'[w] = pc[w],
         log'[w] = log[w], res'[w] = res[w], snap'[w] = snap[w], ok'[w] = ok[w],
         bad'[w] = bad[w]
  PROVE  PlaceInvOf(w)'
  BY DEF PlaceInvOf

(* The event is the probe that was counted last, with the totals up to it: *)
(* nobody but the worker counts between the two.                           *)
LEMMA BroadcastIs ==
  ASSUME IInv, NoReset, NEW w \in Workers, PlaceInvOf(w), Broadcast(w)
  PROVE  /\ history' = Append(history, EventOf(w, Len(log[w])))
         /\ EventOf(w, Len(log[w])) \in Event
         /\ Published(w) + 1 = Len(log[w])
<1>1. pc[w] = "broadcast" /\ resetAt[w] = 0
  BY DEF Broadcast, IInv, SummaryInv
<1>2. /\ Published(w) + 1 = Len(log[w]) /\ log[w][Len(log[w])] = res[w]
      /\ snap[w] = [ok |-> ok[w], bad |-> bad[w]]
  BY <1>1 DEF PlaceInvOf, Counted
<1>3. /\ ok[w] = Cardinality({i \in 0 + 1 .. Len(log[w]) : log[w][i] = "ok"})
      /\ bad[w] = Cardinality({i \in 0 + 1 .. Len(log[w]) : log[w][i] = "fail"})
  BY <1>1 DEF IInv, CountersFollowLog
<1>4. Totals(log[w], Len(log[w])).ok = ok[w] /\ Totals(log[w], Len(log[w])).bad = bad[w]
  BY <1>3 DEF Totals
<1>5. EventOf(w, Len(log[w])) = [worker |-> w, verdict |-> res[w],
                                 ok |-> snap[w].ok, bad |-> snap[w].bad]
  BY <1>2, <1>4 DEF EventOf
<1>6. res[w] \in Outcomes /\ ok[w] \in Nat /\ bad[w] \in Nat
  BY DEF IInv, TypeOK
<1> QED  BY <1>2, <1>5, <1>6 DEF Broadcast, Event

LEMMA WorkerTells ==
  ASSUME IInv, NoReset, NEW w \in Workers, PlaceInvOf(w), ToldInvOf(w), Worker(w)
  PROVE  PlaceInvOf(w)' /\ ToldInvOf(w)'
<1> USE DEF work, counters, summary, resetting, ghosts
<1>1. TypeOK /\ pc \in [Workers -> PC]
  BY DEF IInv, TypeOK
<1>2. Published(w) \in Nat /\ Len(log[w]) \in Nat
  BY <1>1, EventsAreFinite, LogLength
<1>3. CASE Check(w) \/ Acquire(w) \/ Ping(w) \/ Reping(w) \/ Backoff(w) \/ Release(w)
           \/ Interval(w)
  <2>1. log'[w] = log[w] /\ history' = history
    BY <1>3 DEF Check, Acquire, Ping, Reping, Returns, Backoff, Release, Interval
  <2>2. pc[w] \notin Counted \cup {"done"} /\ pc'[w] \notin Counted
    BY <1>1, <1>3 DEF Check, Acquire, Ping, Reping, Returns, Backoff, Release, Interval,
                      Goto, Counted
  <2>3. ToldInvOf(w)' /\ Published(w)' = Published(w)
    BY <2>1, ToldSame
  <2> QED  BY <2>1, <2>2, <2>3 DEF PlaceInvOf, Counted
<1>4. CASE Count(w)
  <2>1. /\ pc[w] = "count" /\ pc'[w] = "limit" /\ history' = history /\ res' = res
        /\ log'[w] = Append(log[w], res[w])
    BY <1>1, <1>4 DEF Count, Goto, TypeOK
  <2>2. log[w] \in Seq(Outcomes) /\ res[w] \in Outcomes
    BY <1>1 DEF TypeOK
  <2>3. /\ Len(log'[w]) = Len(log[w]) + 1 /\ log'[w][Len(log[w]) + 1] = res[w]
        /\ \A i \in 1 .. Len(log[w]) : log'[w][i] = log[w][i]
    BY <2>1, <2>2
  <2>4. ToldInvOf(w)' /\ Published(w)' = Published(w)
    BY <1>1, <2>1, <2>3, ToldCounted
  <2>5. Published(w) = Len(log[w])
    BY <2>1 DEF PlaceInvOf, Counted
  <2> QED  BY <2>1, <2>3, <2>4, <2>5 DEF PlaceInvOf, Counted
<1>5. CASE Limit(w)
  <2>1. pc[w] = "limit" /\ pc'[w] \in {"done", "event"} /\ history' = history
        /\ res' = res /\ log' = log
    BY <1>1, <1>5 DEF Limit, Goto
  <2>2. ToldInvOf(w)' /\ Published(w)' = Published(w)
    BY <2>1, ToldSame
  <2> QED  BY <2>1, <2>2 DEF PlaceInvOf, Counted
<1>6. CASE TakeSnapshot(w)
  <2>1. /\ pc[w] = "event" /\ pc'[w] = "broadcast" /\ history' = history
        /\ res' = res /\ log' = log /\ ok' = ok /\ bad' = bad
        /\ snap'[w] = [ok |-> ok[w], bad |-> bad[w]]
    BY <1>1, <1>6 DEF TakeSnapshot, Goto, TypeOK
  <2>2. ToldInvOf(w)' /\ Published(w)' = Published(w)
    BY <2>1, ToldSame
  <2> QED  BY <2>1, <2>2 DEF PlaceInvOf, Counted
<1>7. CASE Broadcast(w)
  <2>1. pc'[w] \in {"done", "interval"} /\ log' = log
    BY <1>1, <1>7 DEF Broadcast, AfterEvent, Goto
  <2>2. ToldInvOf(w)' /\ Published(w)' = Len(log[w])
    BY <1>1, <1>7, <2>1, BroadcastIs, ToldPublished
  <2> QED  BY <2>1, <2>2 DEF PlaceInvOf, Counted
<1> QED  BY <1>3, <1>4, <1>5, <1>6, <1>7 DEF Worker, Probe

LEMMA EventStep ==
  ASSUME IInv, EventInv, [Next]_vars
  PROVE  EventInv'
<1> USE DEF work, counters, summary, resetting, ghosts
<1>1. SUFFICES ASSUME NoReset'  PROVE \A w \in Workers : (PlaceInvOf(w) /\ ToldInvOf(w))'
  BY DEF EventInv
<1>2. TypeOK
  BY DEF IInv
<1>3. CASE UNCHANGED <<pc, rpc, log, res, snap, ok, bad, history>>
  <2>1. \A w \in Workers : PlaceInvOf(w) /\ ToldInvOf(w)
    BY <1>1, <1>3 DEF EventInv, NoReset
  <2>2. \A w \in Workers : ToldInvOf(w)' /\ Published(w)' = Published(w)
    BY <1>3, <2>1, ToldSame
  <2> QED  BY <1>3, <2>1, <2>2, PlaceSame
<1>4. ASSUME NEW w \in Workers, Worker(w)
      PROVE  \A v \in Workers : (PlaceInvOf(v) /\ ToldInvOf(v))'
  <2>1. NoReset /\ \A v \in Workers : PlaceInvOf(v) /\ ToldInvOf(v)
    BY <1>1, <1>4, WorkerLeaves DEF EventInv, NoReset
  <2>2. ASSUME NEW v \in Workers, v # w
        PROVE  ToldInvOf(v)' /\ Published(v)' = Published(v)
    <3>1. log'[v] = log[v]
      BY <1>2, <1>4, <2>2, OthersStay
    <3>2. CASE Broadcast(w)
      <4>1. EventOf(w, Len(log[w])).worker # v
        BY <2>2 DEF EventOf
      <4>2. /\ history' = Append(history, EventOf(w, Len(log[w])))
            /\ EventOf(w, Len(log[w])) \in Event
        BY <2>1, <3>2, BroadcastIs
      <4> QED  BY <1>2, <2>1, <3>1, <4>1, <4>2, ToldOfOthers
    <3>3. CASE ~Broadcast(w)
      <4>1. history' = history
        BY <1>4, <3>3 DEF Worker, Probe, Check, Acquire, Ping, Reping, Returns, Backoff,
                          Release, Count, Limit, TakeSnapshot, Interval
      <4> QED  BY <2>1, <3>1, <4>1, ToldSame
    <3> QED  BY <3>2, <3>3
  <2>3. \A v \in Workers \ {w} : (PlaceInvOf(v) /\ ToldInvOf(v))'
    BY <1>2, <1>4, <2>1, <2>2, OthersStay, PlaceSame
  <2>4. (PlaceInvOf(w) /\ ToldInvOf(w))'
    BY <1>4, <2>1, WorkerTells
  <2> QED  BY <2>3, <2>4
<1>5. ASSUME NEW x \in Resetters, Reset(x)
      PROVE  FALSE
  BY <1>1, <1>2, <1>5 DEF Reset, ResetHistory, ResetStats, TypeOK, NoReset
<1>6. CASE Cancel \/ Run \/ Exited \/ UNCHANGED vars
  BY <1>3, <1>6 DEF Cancel, Run, Joined, Row, Exited, vars
<1> QED  BY <1>4, <1>5, <1>6 DEF Next

LEMMA InitEvents == Init => EventInv
<1> SUFFICES ASSUME Init, NEW w \in Workers  PROVE PlaceInvOf(w) /\ ToldInvOf(w)
  BY DEF EventInv
<1>1. history = <<>> /\ pc[w] = "check" /\ Len(log[w]) = 0
  BY DEF Init
<1>2. EventsOf(w) = {} /\ Published(w) = 0
  BY <1>1, FS_EmptySet DEF EventsOf, Published
<1> QED  BY <1>1, <1>2 DEF PlaceInvOf, ToldInvOf, Counted

(* Once the summary is printed, no worker counts any more.                 *)
LEMMA SummaryHasAll == IInv => SummaryIsFinal
<1> SUFFICES ASSUME IInv, NoReset, NEW w \in 1 .. Len(table)
             PROVE  table[w] = Totals(log[w], Len(log[w]))
  BY DEF SummaryIsFinal
<1>1. w \in Workers
  BY MultiAssumption DEF IInv, TypeOK, Workers
<1>2. table[w] = [ok |-> ok[w], bad |-> bad[w]] /\ resetAt[w] = 0
  BY <1>1 DEF IInv, SummaryInv
<1>3. /\ ok[w] = Cardinality({i \in 0 + 1 .. Len(log[w]) : log[w][i] = "ok"})
      /\ bad[w] = Cardinality({i \in 0 + 1 .. Len(log[w]) : log[w][i] = "fail"})
  BY <1>1, <1>2 DEF IInv, CountersFollowLog
<1> QED  BY <1>2, <1>3 DEF Totals

(* As long as nobody resets, what is told of the probes is what they were: *)
(* the events of a target are its probes in order, each with the totals up *)
(* to it, and the summary has all of them, whoever was slowest             *)
(* (onMultiProbe, wg.Wait, PrintSummaryTable).                             *)
THEOREM ReportsCorrect == Spec => []ReportsMatchProbes
<1>1. IInv /\ EventInv /\ [Next]_vars => EventInv'
  BY EventStep
<1>2. IInv /\ EventInv => ReportsMatchProbes
  <2> SUFFICES ASSUME IInv, EventInv  PROVE ReportsMatchProbes
    OBVIOUS
  <2>1. EventsMatchProbes
    BY DEF EventInv, PlaceInvOf, ToldInvOf, Published, EventOf, Counted, EventsMatchProbes
  <2> QED  BY <2>1, SummaryHasAll DEF ReportsMatchProbes
<1> QED  BY SpecIInv, InitEvents, <1>1, <1>2, PTL DEF Spec
=============================================================================
