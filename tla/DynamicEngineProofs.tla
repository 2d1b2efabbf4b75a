------------------------- MODULE DynamicEngineProofs -------------------------
(***************************************************************************)
(* Proofs about DynamicEngine: for any number of requests, resets, targets *)
(* and slots, any counts and any retries.                                  *)
(***************************************************************************)
EXTENDS DynamicEngine, FiniteSetTheorems, TLAPS

(* Where a request is in its loop, and what it has to show for it.         *)
Before == {"idle", "acquire", "resolve", "trace"}
Probing == {"ping", "backoff", "reping", "record", "details", "snapshot"}

LoopInvOf(c) ==
  /\ pc[c] # "done" => reply[c] = "none"
  /\ pc[c] \in Before => iter[c] = 1 /\ Len(items[c]) = 0
  /\ pc[c] = "trace" => plan[c].traceroute
  /\ pc[c] \in Probing => iter[c] <= Count(c) /\ iter[c] >= 1
                          /\ Len(items[c]) = iter[c] - 1
  /\ pc[c] = "broadcast" => iter[c] <= Count(c) /\ iter[c] >= 1
                            /\ Len(items[c]) = iter[c]
  /\ pc[c] = "interval" => iter[c] < Count(c) /\ iter[c] >= 1
                           /\ Len(items[c]) = iter[c]
  /\ pc[c] = "final" => Len(items[c]) = Count(c)
  /\ Len(items[c]) <= Count(c)
  /\ reply[c] = "answered" /\ ~plan[c].traceroute => Len(items[c]) = Count(c)

LoopInv == \A c \in Clients : LoopInvOf(c)

Counting == Probing \cup {"broadcast", "interval", "final"}

(* Only targets of the registry have counters, and a reset that has listed *)
(* its targets has them either erased or still to do.                      *)
ResetInv ==
  /\ \A t \in Targets \ known : Total(stats[t]) = 0
  /\ \A c \in Clients :
       pc[c] \in Counting => plan[c].target \in known
  /\ \A x \in Resetters, t \in Targets :
       /\ mark[x][t] <= erased[t] + Total(stats[t])
       /\ rpc[x] = "reset" /\ t \notin todo[x] => mark[x][t] <= erased[t]
       /\ rpc[x] = "done" => mark[x][t] <= erased[t]

LEMMA CountIs ==
  ASSUME TypeOK, NEW c \in Clients
  PROVE  Count(c) \in 1..MaxCount
  BY EngineAssumption DEF TypeOK, Plan, Count

LEMMA InitType == Init => TypeOK
<1> SUFFICES ASSUME Init  PROVE TypeOK
  OBVIOUS
<1>1. \A p \in Plans : p \in Plan
  BY EngineAssumption
<1>2. <<>> \in Seq(Verdicts)
  OBVIOUS
<1>3. <<>> \in Seq([from : Clients, target : Targets, verdict : Verdicts, sequence : Nat])
  OBVIOUS
<1> QED  BY <1>1, <1>2, <1>3, EngineAssumption DEF Init, TypeOK, Zero, PC

LEMMA TotalIs ==
  ASSUME NEW counts \in [good : Nat, bad : Nat]
  PROVE  Total(counts) \in Nat
  BY DEF Total

(* A request that runs holds a slot.                                       *)
LEMMA HolderCounts ==
  ASSUME TypeOK, SlotsAccounted, NEW c \in Clients, pc[c] \in Running
  PROVE  sem \in 1..MaxConcurrency
<1> DEFINE H == {d \in Clients : pc[d] \in Running}
<1>1. IsFiniteSet(H)
  BY EngineAssumption, FS_Subset
<1>2. H # {}
  OBVIOUS
<1>3. Cardinality(H) # 0
  BY <1>1, <1>2, FS_EmptySet
<1> QED  BY <1>3, EngineAssumption DEF TypeOK, SlotsAccounted

(* No action but Acquire and Return changes who holds a slot.              *)
LEMMA SlotsSame ==
  ASSUME SlotsAccounted, sem' = sem,
         \A c \in Clients : pc'[c] \in Running <=> pc[c] \in Running
  PROVE  SlotsAccounted'
<1>1. {c \in Clients : pc[c] \in Running}' = {c \in Clients : pc[c] \in Running}
  OBVIOUS
<1> QED  BY <1>1 DEF SlotsAccounted

LEMMA SlotTaken ==
  ASSUME TypeOK, SlotsAccounted, NEW c \in Clients, Acquire(c)
  PROVE  SlotsAccounted'
<1> DEFINE H == {d \in Clients : pc[d] \in Running}
<1>1. IsFiniteSet(H)
  BY EngineAssumption, FS_Subset
<1>2. c \notin H /\ H' = H \cup {c}
  BY DEF Acquire, Goto, TypeOK, Running, PC
<1>3. Cardinality(H') = Cardinality(H) + 1
  BY <1>1, <1>2, FS_AddElement
<1> QED  BY <1>3 DEF SlotsAccounted, Acquire

LEMMA SlotGivenBack ==
  ASSUME TypeOK, SlotsAccounted, NEW c \in Clients, pc[c] \in Running,
         pc' = [pc EXCEPT ![c] = "done"], sem' = sem - 1
  PROVE  SlotsAccounted'
<1> DEFINE H == {d \in Clients : pc[d] \in Running}
<1>1. IsFiniteSet(H)
  BY EngineAssumption, FS_Subset
<1>2. c \in H /\ H' = H \ {c}
  BY DEF TypeOK, Running, PC
<1>3. Cardinality(H') = Cardinality(H) - 1
  BY <1>1, <1>2, FS_RemoveElement
<1> QED  BY <1>3 DEF SlotsAccounted

LEMMA SlotsStep ==
  ASSUME TypeOK, SlotsAccounted, [Next]_vars
  PROVE  SlotsAccounted'
<1> USE DEF TypeOK
<1>1. ASSUME NEW c \in Clients, Start(c) \/ AbortWaiting(c)
      PROVE  SlotsAccounted'
  BY <1>1, SlotsSame DEF Start, AbortWaiting, Goto, Answer, Running, PC
<1>2. ASSUME NEW c \in Clients, Acquire(c)
      PROVE  SlotsAccounted'
  BY <1>2, SlotTaken
<1>3. ASSUME NEW c \in Clients, Resolve(c) \/ Trace(c) \/ Finish(c)
      PROVE  SlotsAccounted'
  <2>1. pc[c] \in Running
    BY <1>3 DEF Resolve, Trace, Finish, Running, PC
  <2>2. CASE sem' = sem - 1 /\ pc' = [pc EXCEPT ![c] = "done"]
    BY <2>1, <2>2, SlotGivenBack
  <2>3. CASE sem' = sem /\ (Goto(c, "trace") \/ Goto(c, "ping"))
    BY <2>1, <2>3, SlotsSame DEF Goto, Running, PC
  <2> QED  BY <1>3, <2>2, <2>3 DEF Resolve, Trace, Finish, Return, Goto
<1>4. ASSUME NEW c \in Clients,
             Ping(c) \/ Backoff(c) \/ Reping(c) \/ Record(c) \/ Details(c)
               \/ TakeSnapshot(c) \/ Broadcast(c) \/ Interval(c)
      PROVE  SlotsAccounted'
  <2>1. pc[c] \in Running /\ sem' = sem
    BY <1>4 DEF Ping, Backoff, Reping, Record, Details, TakeSnapshot, Broadcast,
                Interval, Running, PC
  <2>2. \E label \in Running : pc' = [pc EXCEPT ![c] = label]
    BY <1>4 DEF Ping, Backoff, Reping, Record, Details, TakeSnapshot, Broadcast,
                Interval, NextRound, Goto, Running, PC
  <2> QED  BY <2>1, <2>2, SlotsSame
<1>5. CASE UNCHANGED <<pc, sem>>
  BY <1>5, SlotsSame
<1>6. ASSUME NEW x \in Resetters, Reset(x)
      PROVE  UNCHANGED <<pc, sem>>
  BY <1>6 DEF Reset, ResetHistory, ListTargets, ResetTarget, ResetAnswers
<1>7. ASSUME NEW c \in Clients, ClientLeaves(c)
      PROVE  UNCHANGED <<pc, sem>>
  BY <1>7 DEF ClientLeaves
<1>8. ASSUME AllAnswered \/ UNCHANGED vars
      PROVE  UNCHANGED <<pc, sem>>
  BY <1>8 DEF AllAnswered, vars
<1> QED  BY <1>1, <1>2, <1>3, <1>4, <1>5, <1>6, <1>7, <1>8 DEF Next, Execute, Work
-----------------------------------------------------------------------------
LEMMA CountedIs ==
  ASSUME NEW counts \in [good : Nat, bad : Nat], NEW v \in Verdicts
  PROVE  /\ [counts EXCEPT ![v] = @ + 1] \in [good : Nat, bad : Nat]
         /\ Total([counts EXCEPT ![v] = @ + 1]) = Total(counts) + 1
<1>1. CASE v = "good"
  BY <1>1 DEF Total
<1>2. CASE v = "bad"
  BY <1>2 DEF Total
<1> QED  BY <1>1, <1>2 DEF Verdicts

LEMMA VerdictIs == \A c \in Clients : Verdict(c) \in Verdicts
  BY DEF Verdict, Verdicts

LEMMA AttemptIs ==
  ASSUME attempt \in [Clients -> Nat], NEW c \in Clients,
         Ping(c) \/ Reping(c) \/ Backoff(c)
  PROVE  attempt' \in [Clients -> Nat]
<1>1. CASE Ping(c)
  BY <1>1 DEF Ping
<1>3. CASE Backoff(c)
  <2>1. attempt' = attempt \/ attempt' = [attempt EXCEPT ![c] = 0]
    BY <1>3 DEF Backoff
  <2> QED  BY <2>1
<1>2. CASE Reping(c)
  <2>1. attempt[c] + 1 \in Nat
    OBVIOUS
  <2>2. \/ attempt' = [attempt EXCEPT ![c] = attempt[c] + 1]
        \/ attempt' = [attempt EXCEPT ![c] = 0]
    BY <1>2 DEF Reping
  <2> QED  BY <2>1, <2>2
<1> QED  BY <1>1, <1>2, <1>3

LEMMA TypeStep ==
  ASSUME TypeOK, SlotsAccounted, [Next]_vars
  PROVE  TypeOK'
<1> USE DEF TypeOK, Goto, Answer, PC, job, shared, resetting
<1>1. ASSUME NEW c \in Clients, Start(c) \/ AbortWaiting(c) \/ ClientLeaves(c)
      PROVE  TypeOK'
  BY <1>1 DEF Start, AbortWaiting, ClientLeaves
<1>2. ASSUME NEW c \in Clients, Acquire(c)
      PROVE  TypeOK'
  <2>1. sem' \in 0..MaxConcurrency
    BY <1>2, EngineAssumption DEF Acquire
  <2>2. pc' \in [Clients -> PC]
    BY <1>2 DEF Acquire
  <2> QED  BY <1>2, <2>1, <2>2 DEF Acquire
<1>3. ASSUME NEW c \in Clients, Resolve(c) \/ Trace(c) \/ Finish(c)
      PROVE  TypeOK'
  <2>1. sem \in 1..MaxConcurrency
    BY <1>3, HolderCounts DEF Resolve, Trace, Finish, Running
  <2>2. sem - 1 \in 0..MaxConcurrency
    BY <2>1, EngineAssumption
  <2>3. plan[c].target \in Targets /\ stats[plan[c].target] \in [good : Nat, bad : Nat]
    BY DEF Plan
  <2>4. CASE Resolve(c)
    BY <2>2, <2>3, <2>4 DEF Resolve, Return
  <2>5. CASE Trace(c)
    BY <2>2, <2>5 DEF Trace, Return
  <2>6. CASE Finish(c)
    BY <2>2, <2>3, <2>6 DEF Finish, Return
  <2> QED  BY <1>3, <2>4, <2>5, <2>6
<1>4. ASSUME NEW c \in Clients, Ping(c) \/ Reping(c)
      PROVE  TypeOK'
  <2>1. PICK o \in {"ok", "slow", "fail"} : res' = [res EXCEPT ![c] = o]
    BY <1>4 DEF Ping, Reping, Outcomes
  <2>2. \E label \in PC : pc' = [pc EXCEPT ![c] = label]
    BY <1>4 DEF Ping, Reping
  <2>3. attempt' \in [Clients -> Nat]
    BY <1>4, AttemptIs
  <2>4. UNCHANGED <<plan, gone, sem, shared, resetting, iter, items, snap, reply>>
    BY <1>4 DEF Ping, Reping
  <2> QED  BY <2>1, <2>2, <2>3, <2>4
<1>5. ASSUME NEW c \in Clients, Backoff(c) \/ Details(c) \/ Interval(c)
      PROVE  TypeOK'
  <2>1. \E label \in PC : pc' = [pc EXCEPT ![c] = label]
    BY <1>5 DEF Backoff, Details, Interval
  <2>2. CASE Backoff(c)
    <3>2. attempt' \in [Clients -> Nat]
      BY <2>2, AttemptIs
    <3>3. UNCHANGED <<plan, gone, sem, shared, resetting, iter, res, items, snap, reply>>
      BY <2>2 DEF Backoff
    <3> QED  BY <2>1, <3>2, <3>3
  <2>3. CASE Details(c)
    BY <2>1, <2>3 DEF Details
  <2>4. CASE Interval(c)
    BY <2>1, <2>4 DEF Interval
  <2> QED  BY <1>5, <2>2, <2>3, <2>4
<1>6. ASSUME NEW c \in Clients, Record(c)
      PROVE  TypeOK'
  <2>1. plan[c].target \in Targets
    BY DEF Plan
  <2>2. [stats[plan[c].target] EXCEPT ![Verdict(c)] = @ + 1] \in [good : Nat, bad : Nat]
    BY <2>1, CountedIs, VerdictIs
  <2> QED  BY <1>6, <2>1, <2>2 DEF Record
<1>7. ASSUME NEW c \in Clients, TakeSnapshot(c)
      PROVE  TypeOK'
  <2>1. stats[plan[c].target] \in [good : Nat, bad : Nat]
    BY DEF Plan
  <2>2. Append(items[c], Verdict(c)) \in Seq(Verdicts)
    BY VerdictIs
  <2> QED  BY <1>7, <2>1, <2>2 DEF TakeSnapshot, NextRound
<1>8. ASSUME NEW c \in Clients, Broadcast(c)
      PROVE  TypeOK'
  <2> DEFINE ev == [from |-> c, target |-> plan[c].target, verdict |-> Verdict(c),
                    sequence |-> Total(snap[c])]
  <2>1. ev \in [from : Clients, target : Targets, verdict : Verdicts, sequence : Nat]
    BY TotalIs, VerdictIs DEF Plan
  <2>2. Append(history, ev) \in
          Seq([from : Clients, target : Targets, verdict : Verdicts, sequence : Nat])
    BY <2>1
  <2> QED  BY <1>8, <2>2 DEF Broadcast, NextRound
<1>9. ASSUME NEW x \in Resetters, ResetHistory(x) \/ ListTargets(x) \/ ResetAnswers(x)
      PROVE  TypeOK'
  <2>1. <<>> \in Seq([from : Clients, target : Targets, verdict : Verdicts, sequence : Nat])
    OBVIOUS
  <2>2. [t \in Targets |-> erased[t] + Total(stats[t])] \in [Targets -> Nat]
    BY TotalIs
  <2> QED  BY <1>9, <2>1, <2>2 DEF ResetHistory, ListTargets, ResetAnswers
<1>10. ASSUME NEW x \in Resetters, ResetTarget(x)
       PROVE  TypeOK'
  <2>1. PICK t \in todo[x] :
          /\ stats' = [stats EXCEPT ![t] = Zero]
          /\ erased' = [erased EXCEPT ![t] = @ + Total(stats[t])]
          /\ todo' = [todo EXCEPT ![x] = @ \ {t}]
    BY <1>10 DEF ResetTarget
  <2>2. t \in Targets /\ erased[t] + Total(stats[t]) \in Nat
    BY TotalIs
  <2>3. Zero \in [good : Nat, bad : Nat]
    BY DEF Zero
  <2> QED  BY <1>10, <2>1, <2>2, <2>3 DEF ResetTarget
<1>11. CASE AllAnswered \/ UNCHANGED vars
  BY <1>11 DEF AllAnswered, vars
<1> QED  BY <1>1, <1>2, <1>3, <1>4, <1>5, <1>6, <1>7, <1>8, <1>9, <1>10, <1>11
         DEF Next, Execute, Work, Reset
-----------------------------------------------------------------------------
(* A step of one request keeps LoopInv if it keeps it for that request.    *)
LEMMA LoopFrame ==
  ASSUME LoopInv, plan' = plan, NEW c \in Clients,
         \A d \in Clients \ {c} : /\ pc'[d] = pc[d] /\ iter'[d] = iter[d]
                                  /\ items'[d] = items[d] /\ reply'[d] = reply[d],
         LoopInvOf(c)'
  PROVE  LoopInv'
<1>1. \A d \in Clients : Count(d)' = Count(d)
  BY DEF Count
<1>2. ASSUME NEW d \in Clients \ {c}
      PROVE  LoopInvOf(d)'
  BY <1>1, <1>2 DEF LoopInv, LoopInvOf
<1> QED  BY <1>2 DEF LoopInv

LEMMA LoopStep ==
  ASSUME TypeOK, LoopInv, [Next]_vars
  PROVE  LoopInv'
<1> USE DEF TypeOK, Goto, Answer, PC, job, shared, resetting
<1>1. ASSUME NEW c \in Clients, Execute(c), plan' = plan,
             \A d \in Clients \ {c} : /\ pc'[d] = pc[d] /\ iter'[d] = iter[d]
                                      /\ items'[d] = items[d] /\ reply'[d] = reply[d]
      PROVE  LoopInv'
  <2>1. /\ Count(c) \in Nat /\ Count(c) >= 1 /\ Count(c)' = Count(c)
        /\ iter[c] \in Nat /\ Len(items[c]) \in Nat
    <3>1. Count(c) \in 1..MaxCount /\ MaxCount \in Nat
      BY CountIs, EngineAssumption
    <3>2. Count(c)' = Count(c)
      BY <1>1 DEF Count
    <3>3. iter[c] \in Nat /\ items[c] \in Seq(Verdicts)
      OBVIOUS
    <3>4. Len(items[c]) \in Nat
      BY <3>3
    <3> QED  BY <3>1, <3>2, <3>3, <3>4
  <2>2. LoopInvOf(c)
    BY DEF LoopInv
  <2>3. CASE Start(c) \/ AbortWaiting(c) \/ Acquire(c)
    <3>1. LoopInvOf(c)'
      BY <1>1, <2>3, <2>1, <2>2 DEF LoopInvOf, Before, Probing, Start, AbortWaiting, Acquire
    <3> QED  BY <1>1, <3>1, LoopFrame
  <2>4. CASE Resolve(c)
    <3>1. LoopInvOf(c)'
      <4>1. pc[c] = "resolve" /\ iter' = iter /\ items' = items
        BY <2>4 DEF Resolve
      <4>2. \/ pc'[c] = "done" /\ reply'[c] = "invalid"
            \/ plan[c].traceroute /\ pc'[c] = "trace" /\ reply' = reply
            \/ pc'[c] = "ping" /\ reply' = reply
        BY <2>4 DEF Resolve, Return
      <4> QED  BY <1>1, <2>1, <2>2, <4>1, <4>2 DEF LoopInvOf, Before, Probing
    <3> QED  BY <1>1, <3>1, LoopFrame
  <2>5. CASE Trace(c) \/ Finish(c)
    <3>1. LoopInvOf(c)'
      BY <1>1, <2>5, <2>1, <2>2 DEF LoopInvOf, Before, Probing, Trace, Finish, Return
    <3> QED  BY <1>1, <3>1, LoopFrame
  <2>6. CASE Ping(c) \/ Reping(c)
    <3>1. LoopInvOf(c)'
      BY <1>1, <2>6, <2>1, <2>2 DEF LoopInvOf, Before, Probing, Ping, Reping
    <3> QED  BY <1>1, <3>1, LoopFrame
  <2>7. CASE Backoff(c) \/ Record(c) \/ Details(c)
    <3>1. LoopInvOf(c)'
      BY <1>1, <2>7, <2>1, <2>2 DEF LoopInvOf, Before, Probing, Backoff, Record, Details
    <3> QED  BY <1>1, <3>1, LoopFrame
  <2>8. CASE TakeSnapshot(c)
    <3>1. Len(Append(items[c], Verdict(c))) = Len(items[c]) + 1
      OBVIOUS
    <3>2. items'[c] = Append(items[c], Verdict(c)) /\ iter' = iter /\ reply' = reply
      BY <2>8 DEF TakeSnapshot
    <3>3. \/ pc'[c] = "broadcast"
          \/ iter[c] < Count(c) /\ pc'[c] = "interval"
          \/ ~(iter[c] < Count(c)) /\ pc'[c] = "final"
      BY <2>8 DEF TakeSnapshot, NextRound
    <3>4. pc[c] = "snapshot"
      BY <2>8 DEF TakeSnapshot
    <3>5. LoopInvOf(c)'
      BY <1>1, <2>1, <2>2, <3>1, <3>2, <3>3, <3>4 DEF LoopInvOf, Before, Probing
    <3> QED  BY <1>1, <3>5, LoopFrame
  <2>9. CASE Broadcast(c)
    <3>1. LoopInvOf(c)'
      <4>1. items' = items /\ reply' = reply /\ iter' = iter /\ pc[c] = "broadcast"
        BY <2>9 DEF Broadcast
      <4>2. \/ iter[c] < Count(c) /\ pc'[c] = "interval"
            \/ ~(iter[c] < Count(c)) /\ pc'[c] = "final"
        BY <2>9 DEF Broadcast, NextRound
      <4>3. Len(items[c]) = iter[c] /\ iter[c] <= Count(c) /\ iter[c] >= 1
        BY <2>2, <4>1 DEF LoopInvOf
      <4> QED  BY <1>1, <2>1, <2>2, <4>1, <4>2, <4>3 DEF LoopInvOf, Before, Probing
    <3> QED  BY <1>1, <3>1, LoopFrame
  <2>10. CASE Interval(c)
    <3>1. LoopInvOf(c)'
      <4>1. /\ items' = items /\ reply' = reply /\ pc[c] = "interval"
            /\ iter'[c] = iter[c] + 1 /\ pc'[c] = "ping"
        BY <2>10 DEF Interval
      <4>2. Len(items[c]) = iter[c] /\ iter[c] < Count(c)
        BY <2>2, <4>1 DEF LoopInvOf
      <4>3. iter'[c] <= Count(c) /\ iter'[c] >= 1 /\ Len(items[c]) = iter'[c] - 1
        BY <2>1, <4>1, <4>2
      <4> QED  BY <1>1, <2>1, <2>2, <4>1, <4>3 DEF LoopInvOf, Before, Probing
    <3> QED  BY <1>1, <3>1, LoopFrame
  <2> QED  BY <1>1, <2>3, <2>4, <2>5, <2>6, <2>7, <2>8, <2>9, <2>10 DEF Execute, Work
<1>2. ASSUME NEW c \in Clients, Execute(c)
      PROVE  /\ plan' = plan
             /\ \A d \in Clients \ {c} : /\ pc'[d] = pc[d] /\ iter'[d] = iter[d]
                                         /\ items'[d] = items[d] /\ reply'[d] = reply[d]
  BY <1>2 DEF Execute, Work, Start, AbortWaiting, Acquire, Resolve, Trace, Finish,
     Ping, Reping, Backoff, Record, Details, TakeSnapshot, Broadcast, Interval,
     NextRound, Return
<1>3. ASSUME UNCHANGED <<plan, pc, iter, items, reply>>
      PROVE  LoopInv'
  <2>1. \A d \in Clients : Count(d)' = Count(d)
    BY <1>3 DEF Count
  <2> QED  BY <1>3, <2>1 DEF LoopInv, LoopInvOf
<1>4. ASSUME NEW x \in Resetters, Reset(x)
      PROVE  UNCHANGED <<plan, pc, iter, items, reply>>
  BY <1>4 DEF Reset, ResetHistory, ListTargets, ResetTarget, ResetAnswers
<1>5. ASSUME NEW c \in Clients, ClientLeaves(c)
      PROVE  UNCHANGED <<plan, pc, iter, items, reply>>
  BY <1>5 DEF ClientLeaves
<1>6. CASE AllAnswered \/ UNCHANGED vars
  BY <1>3, <1>6 DEF AllAnswered, vars
<1> QED  BY <1>1, <1>2, <1>3, <1>4, <1>5, <1>6 DEF Next
-----------------------------------------------------------------------------
(* The probes of a target only change when an outcome is counted.          *)
LEMMA ProbesSame ==
  ASSUME plan' = plan, \A c \in Clients : Outcome(c)' = Outcome(c)
  PROVE  \A t \in Targets, v \in Verdicts : Probes(t, v)' = Probes(t, v)
  BY DEF Probes

LEMMA CountFrame ==
  ASSUME EveryProbeCountedOnce, plan' = plan,
         \A c \in Clients : Outcome(c)' = Outcome(c),
         \A t \in Targets : Total(stats'[t]) + erased'[t] = Total(stats[t]) + erased[t]
  PROVE  EveryProbeCountedOnce'
<1>1. \A t \in Targets, v \in Verdicts : Probes(t, v)' = Probes(t, v)
  BY ProbesSame
<1>2. \A t \in Targets : Total(stats[t])' + erased'[t] =
        Cardinality(Probes(t, "good")') + Cardinality(Probes(t, "bad")')
  BY <1>1 DEF EveryProbeCountedOnce, Total, Verdicts
<1> QED  BY <1>2 DEF EveryProbeCountedOnce

LEMMA ProbesFinite ==
  ASSUME NEW t, NEW ok
  PROVE  IsFiniteSet(Probes(t, ok)) /\ Cardinality(Probes(t, ok)) \in Nat
<1>1. IsFiniteSet(1..MaxCount)
  BY FS_Interval, EngineAssumption
<1>2. IsFiniteSet(Clients \X (1..MaxCount))
  BY <1>1, FS_Product, EngineAssumption
<1>3. Probes(t, ok) \in SUBSET (Clients \X (1..MaxCount))
  BY DEF Probes
<1> QED  BY <1>2, <1>3, FS_Subset, FS_CardinalityType

LEMMA ProbeIs ==
  ASSUME NEW t, NEW v, NEW d \in Clients, NEW i \in 1..MaxCount
  PROVE  <<d, i>> \in Probes(t, v) <=>
           plan[d].target = t /\ i <= Len(Outcome(d)) /\ Outcome(d)[i] = v
  BY DEF Probes

(* Counting an outcome adds one probe to its target.                       *)
LEMMA RecordCounts ==
  ASSUME TypeOK, LoopInv, EveryProbeCountedOnce, NEW c \in Clients, Record(c)
  PROVE  EveryProbeCountedOnce'
<1>1. PICK u \in Targets, w \in Verdicts, n \in Nat :
        u = plan[c].target /\ w = Verdict(c) /\ n = iter[c]
  BY VerdictIs DEF TypeOK, Plan
<1>2. /\ items[c] \in Seq(Verdicts) /\ stats[u] \in [good : Nat, bad : Nat]
      /\ n \in 1..MaxCount
      /\ Len(items[c]) = n - 1
  <2>1. LoopInvOf(c) /\ pc[c] \in Probing
    BY DEF Record, LoopInv, Probing
  <2>2. items[c] \in Seq(Verdicts) /\ stats[u] \in [good : Nat, bad : Nat]
    BY DEF TypeOK
  <2>3. n >= 1 /\ n <= Count(c) /\ Len(items[c]) = n - 1
    BY <1>1, <2>1 DEF LoopInvOf
  <2>4. Count(c) \in 1..MaxCount
    BY CountIs
  <2> QED  BY <2>2, <2>3, <2>4, EngineAssumption
<1>3. Outcome(c) = items[c] /\ Outcome(c)' = Append(items[c], w)
  BY <1>1 DEF Record, Outcome, Goto, TypeOK, PC, job, Verdict
<1>4. plan' = plan /\ \A d \in Clients \ {c} : Outcome(d)' = Outcome(d)
  BY DEF Record, Outcome, Goto, TypeOK, job, Verdict
<1>5. /\ Len(Outcome(c)) = n - 1
      /\ Len(Outcome(c)') = n
      /\ Outcome(c)'[n] = w
      /\ \A i \in 1..(n - 1) : Outcome(c)'[i] = Outcome(c)[i]
  BY <1>1, <1>2, <1>3
<1>6. \A t, v : \A d \in Clients, i \in 1..MaxCount :
        <<d, i>> \in Probes(t, v)' <=>
          <<d, i>> \in Probes(t, v) \/ (d = c /\ i = n /\ t = u /\ v = w)
  <2> TAKE t, v
  <2> TAKE d \in Clients, i \in 1..MaxCount
  <2>1. <<d, i>> \in Probes(t, v)' <=>
          plan[d].target = t /\ i <= Len(Outcome(d)') /\ Outcome(d)'[i] = v
    BY <1>4 DEF Probes
  <2>2. <<d, i>> \in Probes(t, v) <=>
          plan[d].target = t /\ i <= Len(Outcome(d)) /\ Outcome(d)[i] = v
    BY ProbeIs
  <2>3. CASE d # c
    BY <1>4, <2>1, <2>2, <2>3
  <2>4. CASE d = c /\ i = n
    BY <1>1, <1>2, <1>5, <2>1, <2>2, <2>4
  <2>5. CASE d = c /\ i # n
    <3>1. i \in Nat /\ n \in Nat /\ (i <= n - 1 <=> i <= n) /\ (i <= n - 1 => i \in 1..(n - 1))
      BY <1>2, <2>5, EngineAssumption
    <3> QED  BY <1>5, <2>1, <2>2, <2>5, <3>1
  <2> QED  BY <2>3, <2>4, <2>5
<1>7. \A t, v : Probes(t, v)' = IF t = u /\ v = w THEN Probes(t, v) \cup {<<c, n>>}
                                                 ELSE Probes(t, v)
  <2> TAKE t, v
  <2>1. /\ Probes(t, v)' \subseteq Clients \X (1..MaxCount)
        /\ Probes(t, v) \subseteq Clients \X (1..MaxCount)
        /\ <<c, n>> \in Clients \X (1..MaxCount)
    BY <1>2 DEF Probes
  <2>2. ASSUME NEW p \in Clients \X (1..MaxCount)
        PROVE  p \in Probes(t, v)' <=>
                 p \in Probes(t, v) \/ (t = u /\ v = w /\ p = <<c, n>>)
    <3>1. PICK d \in Clients, i \in 1..MaxCount : p = <<d, i>>
      BY <2>2
    <3>2. <<d, i>> \in Probes(t, v)' <=>
            <<d, i>> \in Probes(t, v) \/ (d = c /\ i = n /\ t = u /\ v = w)
      BY <1>6
    <3>3. p = <<c, n>> <=> d = c /\ i = n
      BY <3>1
    <3> QED  BY <3>1, <3>2, <3>3
  <2> QED  BY <2>1, <2>2
<1>8. <<c, n>> \notin Probes(u, w)
  BY <1>2, <1>5, ProbeIs
<1>9. Cardinality(Probes(u, w)') = Cardinality(Probes(u, w)) + 1
  <2>1. Probes(u, w)' = Probes(u, w) \cup {<<c, n>>}
    BY <1>7
  <2>2. IsFiniteSet(Probes(u, w))
    BY ProbesFinite
  <2> QED  BY <1>8, <2>1, <2>2, FS_AddElement
<1>10. /\ erased' = erased
       /\ Total(stats'[u]) = Total(stats[u]) + 1
       /\ \A t \in Targets \ {u} : stats'[t] = stats[t]
  <2>1. stats' = [stats EXCEPT ![u] = [stats[u] EXCEPT ![w] = @ + 1]]
    BY <1>1 DEF Record
  <2>2. stats'[u] = [stats[u] EXCEPT ![w] = @ + 1]
    BY <1>2, <2>1 DEF TypeOK
  <2>3. Total(stats'[u]) = Total(stats[u]) + 1
    BY <1>2, <2>2, CountedIs
  <2> QED  BY <2>1, <2>3 DEF Record, TypeOK
<1>11. \A t \in Targets :
         Cardinality(Probes(t, "good")) \in Nat /\ Cardinality(Probes(t, "bad")) \in Nat
         /\ Total(stats[t]) \in Nat /\ erased[t] \in Nat
  BY ProbesFinite, TotalIs DEF TypeOK
<1>12. \A t \in Targets : Total(stats'[t]) + erased'[t] =
         Cardinality(Probes(t, "good")') + Cardinality(Probes(t, "bad")')
  <2> TAKE t \in Targets
  <2>1. Total(stats[t]) + erased[t] =
          Cardinality(Probes(t, "good")) + Cardinality(Probes(t, "bad"))
    BY DEF EveryProbeCountedOnce
  <2>2. CASE t # u
    BY <1>7, <1>10, <2>1, <2>2
  <2>3. CASE t = u /\ w = "good"
    <3>1. Cardinality(Probes(t, "bad")') = Cardinality(Probes(t, "bad"))
      BY <1>7, <2>3
    <3>2. Cardinality(Probes(t, "good")') = Cardinality(Probes(t, "good")) + 1
      BY <1>9, <2>3
    <3>3. Total(stats'[t]) = Total(stats[t]) + 1 /\ erased'[t] = erased[t]
      BY <1>10, <2>3
    <3> QED  BY <1>11, <2>1, <3>1, <3>2, <3>3
  <2>4. CASE t = u /\ w = "bad"
    <3>1. Cardinality(Probes(t, "good")') = Cardinality(Probes(t, "good"))
      BY <1>7, <2>4
    <3>2. Cardinality(Probes(t, "bad")') = Cardinality(Probes(t, "bad")) + 1
      BY <1>9, <2>4
    <3>3. Total(stats'[t]) = Total(stats[t]) + 1 /\ erased'[t] = erased[t]
      BY <1>10, <2>4
    <3> QED  BY <1>11, <2>1, <3>1, <3>2, <3>3
  <2> QED  BY <1>1, <2>2, <2>3, <2>4 DEF Verdicts
<1> QED  BY <1>12 DEF EveryProbeCountedOnce, Total

LEMMA CountStep ==
  ASSUME TypeOK, LoopInv, EveryProbeCountedOnce, [Next]_vars
  PROVE  EveryProbeCountedOnce'
<1> USE DEF Goto, Answer, job, shared, resetting
<1>1. ASSUME NEW c \in Clients, Record(c)
      PROVE  EveryProbeCountedOnce'
  BY <1>1, RecordCounts
<1>2. ASSUME NEW c \in Clients,
             Start(c) \/ Acquire(c) \/ AbortWaiting(c) \/ ClientLeaves(c)
               \/ Resolve(c) \/ Trace(c) \/ Finish(c) \/ Ping(c) \/ Backoff(c)
               \/ Reping(c) \/ Details(c) \/ Broadcast(c) \/ Interval(c)
      PROVE  /\ UNCHANGED <<plan, items, stats, erased>>
             /\ \A d \in Clients : pc[d] \in {"details", "snapshot"}
                                    <=> pc'[d] \in {"details", "snapshot"}
             /\ \A d \in Clients : pc[d] \in {"details", "snapshot"} => res'[d] = res[d]
  <2>1. UNCHANGED <<plan, items, stats, erased>>
    BY <1>2 DEF Start, Acquire, AbortWaiting, ClientLeaves, Resolve, Trace, Finish,
                Ping, Backoff, Reping, Details, Broadcast, Interval
  <2>2. \/ pc' = pc
        \/ \E l \in PC : /\ pc' = [pc EXCEPT ![c] = l]
                         /\ pc[c] \in {"details", "snapshot"} <=> l \in {"details", "snapshot"}
    BY <1>2 DEF Start, Acquire, AbortWaiting, ClientLeaves, Resolve, Trace, Finish,
                Ping, Backoff, Reping, Details, Broadcast, Interval, Return,
                NextRound, PC
  <2>3. \A d \in Clients : pc[d] \in {"details", "snapshot"} => res'[d] = res[d]
    BY <1>2 DEF TypeOK, Start, Acquire, AbortWaiting, ClientLeaves, Resolve, Trace, Finish,
                Ping, Backoff, Reping, Details, Broadcast, Interval
  <2> QED  BY <2>1, <2>2, <2>3 DEF TypeOK
<1>3. ASSUME UNCHANGED <<plan, items, stats, erased>>,
             \A d \in Clients : pc[d] \in {"details", "snapshot"}
                                  <=> pc'[d] \in {"details", "snapshot"},
             \A d \in Clients : pc[d] \in {"details", "snapshot"} => res'[d] = res[d]
      PROVE  EveryProbeCountedOnce'
  <2>1. \A d \in Clients : Outcome(d)' = Outcome(d)
    BY <1>3 DEF Outcome, Verdict
  <2> QED  BY <1>3, <2>1, CountFrame
<1>4. ASSUME NEW c \in Clients, TakeSnapshot(c)
      PROVE  EveryProbeCountedOnce'
  <2>1. pc[c] = "snapshot" /\ pc'[c] \notin {"details", "snapshot"}
    BY <1>4 DEF TakeSnapshot, NextRound, TypeOK
  <2>2. items' = [items EXCEPT ![c] = Append(@, Verdict(c))]
    BY <1>4 DEF TakeSnapshot
  <2>3. \A d \in Clients : Outcome(d)' = Outcome(d)
    <3>1. Outcome(c) = Append(items[c], Verdict(c))
      BY <2>1 DEF Outcome
    <3>2. Outcome(c)' = Append(items[c], Verdict(c))
      BY <2>1, <2>2 DEF Outcome, TypeOK
    <3>3. ASSUME NEW d \in Clients \ {c}
          PROVE  pc'[d] = pc[d] /\ items'[d] = items[d] /\ res'[d] = res[d]
      BY <1>4, <2>2 DEF TakeSnapshot, NextRound, TypeOK
    <3> QED  BY <3>1, <3>2, <3>3 DEF Outcome, Verdict
  <2> QED  BY <1>4, <2>3, CountFrame DEF TakeSnapshot
<1>5. ASSUME NEW x \in Resetters, ResetTarget(x)
      PROVE  EveryProbeCountedOnce'
  <2>1. PICK t \in todo[x] : /\ stats' = [stats EXCEPT ![t] = Zero]
                             /\ erased' = [erased EXCEPT ![t] = @ + Total(stats[t])]
    BY <1>5 DEF ResetTarget
  <2>2. t \in Targets /\ \A s \in Targets : erased[s] \in Nat /\ Total(stats[s]) \in Nat
    BY TotalIs DEF TypeOK
  <2>3. Total(Zero) = 0
    BY DEF Total, Zero
  <2>4. \A s \in Targets : Total(stats'[s]) + erased'[s] = Total(stats[s]) + erased[s]
    BY <2>1, <2>2, <2>3 DEF TypeOK
  <2>5. \A d \in Clients : Outcome(d)' = Outcome(d)
    BY <1>5 DEF ResetTarget, Outcome, Verdict
  <2> QED  BY <1>5, <2>4, <2>5, CountFrame DEF ResetTarget
<1>6. ASSUME NEW x \in Resetters, ResetHistory(x) \/ ListTargets(x) \/ ResetAnswers(x)
      PROVE  EveryProbeCountedOnce'
  BY <1>3, <1>6 DEF ResetHistory, ListTargets, ResetAnswers
<1>7. CASE AllAnswered \/ UNCHANGED vars
  BY <1>3, <1>7 DEF AllAnswered, vars
<1> QED  BY <1>1, <1>2, <1>3, <1>4, <1>5, <1>6, <1>7 DEF Next, Execute, Work, Reset
-----------------------------------------------------------------------------
(* A step of a request keeps what has been erased and what resets noted.   *)
LEMMA ResetFrame ==
  ASSUME TypeOK, ResetInv, plan' = plan, known \subseteq known',
         UNCHANGED <<rpc, todo, mark, erased>>,
         \A t \in Targets : /\ Total(stats'[t]) \in Nat
                            /\ Total(stats'[t]) >= Total(stats[t]),
         \A t \in Targets \ known : Total(stats'[t]) = 0,
         \A c \in Clients : pc'[c] \in Counting
                              => pc[c] \in Counting \/ plan[c].target \in known'
  PROVE  ResetInv'
<1>1. \A t \in Targets \ known' : Total(stats'[t]) = 0
  OBVIOUS
<1>2. \A c \in Clients : pc'[c] \in Counting => plan'[c].target \in known'
  BY DEF ResetInv
<1>3. ASSUME NEW x \in Resetters, NEW t \in Targets
      PROVE  /\ mark[x][t] <= erased[t] + Total(stats'[t])
             /\ rpc[x] = "reset" /\ t \notin todo[x] => mark[x][t] <= erased[t]
             /\ rpc[x] = "done" => mark[x][t] <= erased[t]
  <2>1. /\ mark[x][t] \in Nat /\ erased[t] \in Nat
        /\ Total(stats[t]) \in Nat /\ Total(stats'[t]) \in Nat
    BY TotalIs DEF TypeOK
  <2>2. mark[x][t] <= erased[t] + Total(stats[t])
    BY DEF ResetInv
  <2>3. mark[x][t] <= erased[t] + Total(stats'[t])
    BY <2>1, <2>2
  <2> QED  BY <2>3 DEF ResetInv
<1> QED  BY <1>1, <1>2, <1>3 DEF ResetInv, Total

LEMMA ResetStep ==
  ASSUME TypeOK, ResetInv, [Next]_vars
  PROVE  ResetInv'
<1> USE DEF Goto, Answer, job, shared, resetting
<1>1. \A t \in Targets : Total(stats[t]) \in Nat /\ erased[t] \in Nat
  BY TotalIs DEF TypeOK
<1>2. ASSUME NEW c \in Clients, Record(c)
      PROVE  ResetInv'
  <2>1. PICK u \in Targets, w \in Verdicts : u = plan[c].target /\ w = Verdict(c)
    BY VerdictIs DEF TypeOK, Plan
  <2>2. stats' = [stats EXCEPT ![u] = [stats[u] EXCEPT ![w] = @ + 1]]
    BY <1>2, <2>1 DEF Record
  <2>3. Total([stats[u] EXCEPT ![w] = @ + 1]) = Total(stats[u]) + 1
    BY CountedIs DEF TypeOK
  <2>4. \A t \in Targets : stats'[t] = IF t = u THEN [stats[u] EXCEPT ![w] = @ + 1] ELSE stats[t]
    BY <2>2 DEF TypeOK
  <2>5. \A t \in Targets : Total(stats'[t]) = IF t = u THEN Total(stats[t]) + 1 ELSE Total(stats[t])
    BY <2>3, <2>4
  <2>6. u \in known
    BY <1>2, <2>1 DEF Record, ResetInv, Counting, Probing
  <2>7. \A t \in Targets \ known : Total(stats'[t]) = 0
    BY <2>5, <2>6 DEF ResetInv
  <2>8. \A d \in Clients : pc'[d] \in Counting => pc[d] \in Counting
    BY <1>2 DEF Record, TypeOK, Counting, Probing
  <2>9. \A t \in Targets : Total(stats'[t]) \in Nat /\ Total(stats'[t]) >= Total(stats[t])
    BY <1>1, <2>5
  <2>10. UNCHANGED <<plan, known, rpc, todo, mark, erased>>
    BY <1>2 DEF Record
  <2> QED  BY <2>7, <2>8, <2>9, <2>10, ResetFrame
<1>3. ASSUME UNCHANGED <<plan, rpc, todo, mark, erased, stats>>, known \subseteq known',
             \A c \in Clients : pc'[c] \in Counting
                                  => pc[c] \in Counting \/ plan[c].target \in known'
      PROVE  ResetInv'
  <2>1. \A t \in Targets : Total(stats'[t]) \in Nat /\ Total(stats'[t]) >= Total(stats[t])
    BY <1>1, <1>3
  <2>2. \A t \in Targets \ known : Total(stats'[t]) = 0
    BY <1>3 DEF ResetInv
  <2> QED  BY <1>3, <2>1, <2>2, ResetFrame
<1>4. ASSUME NEW c \in Clients,
             Start(c) \/ Acquire(c) \/ AbortWaiting(c) \/ ClientLeaves(c)
               \/ Trace(c) \/ Finish(c) \/ Ping(c) \/ Backoff(c) \/ Reping(c)
               \/ Details(c) \/ TakeSnapshot(c) \/ Broadcast(c) \/ Interval(c)
      PROVE  ResetInv'
  <2>1. UNCHANGED <<plan, rpc, todo, mark, erased, stats, known>>
    BY <1>4 DEF Start, Acquire, AbortWaiting, ClientLeaves, Trace, Finish,
                Ping, Backoff, Reping, Details, TakeSnapshot, Broadcast, Interval
  <2>2. \/ pc' = pc
        \/ \E l \in PC : /\ pc' = [pc EXCEPT ![c] = l]
                         /\ l \in Counting => pc[c] \in Counting
    BY <1>4 DEF Start, Acquire, AbortWaiting, ClientLeaves, Trace, Finish,
                Ping, Backoff, Reping, Details, TakeSnapshot, Broadcast, Interval,
                Return, NextRound, PC, Counting, Probing
  <2> QED  BY <1>3, <2>1, <2>2 DEF TypeOK
<1>5. ASSUME NEW c \in Clients, Resolve(c)
      PROVE  ResetInv'
  <2>1. /\ UNCHANGED <<plan, rpc, todo, mark, erased, stats>>
        /\ known \subseteq known'
        /\ \A d \in Clients \ {c} : pc'[d] = pc[d]
        /\ pc'[c] \in Counting => plan[c].target \in known'
    BY <1>5 DEF Resolve, Return, TypeOK, PC, Counting, Probing
  <2> QED  BY <1>3, <2>1
<1>6. CASE AllAnswered \/ UNCHANGED vars
  <2>1. UNCHANGED <<plan, rpc, todo, mark, erased, stats, known, pc>>
    BY <1>6 DEF AllAnswered, vars
  <2> QED  BY <1>3, <2>1
<1>7. ASSUME NEW x \in Resetters, ResetHistory(x)
      PROVE  ResetInv'
  <2>1. UNCHANGED <<plan, pc, todo, erased, stats, known>>
    BY <1>7 DEF ResetHistory
  <2>2. rpc' = [rpc EXCEPT ![x] = "list"]
        /\ mark' = [mark EXCEPT ![x] = [t \in Targets |-> erased[t] + Total(stats[t])]]
    BY <1>7 DEF ResetHistory
  <2>3. \A t \in Targets : /\ mark'[x][t] <= erased[t] + Total(stats[t])
                           /\ rpc'[x] = "list"
    BY <1>1, <2>2 DEF TypeOK
  <2>4. \A y \in Resetters \ {x} : mark'[y] = mark[y] /\ rpc'[y] = rpc[y]
    BY <2>2 DEF TypeOK
  <2> QED  BY <2>1, <2>3, <2>4 DEF ResetInv, Total
<1>8. ASSUME NEW x \in Resetters, ListTargets(x)
      PROVE  ResetInv'
  <2>1. UNCHANGED <<plan, pc, mark, erased, stats, known>>
    BY <1>8 DEF ListTargets
  <2>2. /\ rpc'[x] = "reset" /\ todo'[x] = known
        /\ \A y \in Resetters \ {x} : todo'[y] = todo[y] /\ rpc'[y] = rpc[y]
    BY <1>8 DEF ListTargets, TypeOK
  <2>3. \A t \in Targets : t \notin known => mark[x][t] <= erased[t]
    BY <1>1 DEF ResetInv
  <2> QED  BY <2>1, <2>2, <2>3 DEF ResetInv, Total
<1>9. ASSUME NEW x \in Resetters, ResetTarget(x)
      PROVE  ResetInv'
  <2>1. PICK u \in todo[x] : /\ stats' = [stats EXCEPT ![u] = Zero]
                             /\ erased' = [erased EXCEPT ![u] = @ + Total(stats[u])]
                             /\ todo' = [todo EXCEPT ![x] = @ \ {u}]
    BY <1>9 DEF ResetTarget
  <2>2. UNCHANGED <<plan, pc, mark, known, rpc>>
    BY <1>9 DEF ResetTarget
  <2>3. u \in Targets /\ Total(Zero) = 0
    BY DEF TypeOK, Total, Zero
  <2>4. \A t \in Targets : /\ Total(stats'[t]) = IF t = u THEN 0 ELSE Total(stats[t])
                           /\ erased'[t] = IF t = u THEN erased[t] + Total(stats[t])
                                                    ELSE erased[t]
    BY <2>1, <2>3 DEF TypeOK
  <2>5. /\ \A y \in Resetters \ {x} : todo'[y] = todo[y]
        /\ todo'[x] = todo[x] \ {u}
    BY <2>1 DEF TypeOK
  <2>6. ASSUME NEW y \in Resetters, NEW t \in Targets
        PROVE  /\ mark[y][t] <= erased'[t] + Total(stats'[t])
               /\ rpc[y] = "reset" /\ t \notin todo'[y] => mark[y][t] <= erased'[t]
               /\ rpc[y] = "done" => mark[y][t] <= erased'[t]
    <3>1. /\ mark[y][t] \in Nat /\ Total(stats[t]) \in Nat /\ erased[t] \in Nat
          /\ mark[y][t] <= erased[t] + Total(stats[t])
          /\ rpc[y] = "reset" /\ t \notin todo[y] => mark[y][t] <= erased[t]
          /\ rpc[y] = "done" => mark[y][t] <= erased[t]
      BY <1>1 DEF ResetInv, TypeOK
    <3>2. CASE t = u
      <4>1. Total(stats'[t]) = 0 /\ erased'[t] = erased[t] + Total(stats[t])
        BY <2>4, <3>2
      <4> QED  BY <3>1, <4>1
    <3>3. CASE t # u
      <4>1. Total(stats'[t]) = Total(stats[t]) /\ erased'[t] = erased[t]
        BY <2>4, <3>3
      <4>2. t \notin todo'[y] => t \notin todo[y]
        BY <2>5, <3>3
      <4> QED  BY <3>1, <4>1, <4>2
    <3> QED  BY <3>2, <3>3
  <2>7. \A t \in Targets \ known : Total(stats'[t]) = 0
    BY <2>4 DEF ResetInv
  <2> QED  BY <2>2, <2>6, <2>7 DEF ResetInv, Total
<1>10. ASSUME NEW x \in Resetters, ResetAnswers(x)
       PROVE  ResetInv'
  <2>1. UNCHANGED <<plan, pc, mark, erased, stats, known, todo>>
    BY <1>10 DEF ResetAnswers
  <2>2. /\ rpc[x] = "reset" /\ todo[x] = {} /\ rpc'[x] = "done"
        /\ \A y \in Resetters \ {x} : rpc'[y] = rpc[y]
    BY <1>10 DEF ResetAnswers, TypeOK
  <2> QED  BY <2>1, <2>2 DEF ResetInv, Total
<1> QED  BY <1>2, <1>4, <1>5, <1>6, <1>7, <1>8, <1>9, <1>10 DEF Next, Execute, Work, Reset
-----------------------------------------------------------------------------
IInv == TypeOK /\ SlotsAccounted /\ LoopInv /\ EveryProbeCountedOnce /\ ResetInv

LEMMA InitIInv == Init => IInv
<1> SUFFICES ASSUME Init  PROVE IInv
  OBVIOUS
<1>1. TypeOK
  BY InitType
<1>2. SlotsAccounted
  <2>1. {c \in Clients : pc[c] \in Running} = {}
    BY DEF Init, Running, PC
  <2> QED  BY <2>1, FS_EmptySet DEF Init, SlotsAccounted
<1>3. \A c \in Clients : pc[c] = "idle" /\ items[c] = <<>> /\ iter[c] = 1 /\ reply[c] = "none"
  BY DEF Init
<1>4. LoopInv
  <2>1. ASSUME NEW c \in Clients  PROVE LoopInvOf(c)
    <3>1. Count(c) \in 1..MaxCount /\ MaxCount \in Nat
      BY <1>1, CountIs, EngineAssumption
    <3>2. Len(items[c]) = 0
      BY <1>3
    <3> QED  BY <1>3, <3>1, <3>2 DEF LoopInvOf, Before, Probing
  <2> QED  BY <2>1 DEF LoopInv
<1>5. Total(Zero) = 0
  BY DEF Total, Zero
<1>6. EveryProbeCountedOnce
  <2>1. ASSUME NEW t \in Targets, NEW v \in Verdicts  PROVE Probes(t, v) = {}
    <3>1. \A c \in Clients : Outcome(c) = <<>>
      BY <1>3 DEF Outcome
    <3> QED  BY <3>1 DEF Probes
  <2>2. \A t \in Targets : Total(stats[t]) = 0 /\ erased[t] = 0
    BY <1>5 DEF Init
  <2> QED  BY <2>1, <2>2, FS_EmptySet DEF EveryProbeCountedOnce, Verdicts
<1>7. ResetInv
  <2>1. \A t \in Targets : Total(stats[t]) = 0 /\ erased[t] = 0
    BY <1>5 DEF Init
  <2>2. \A x \in Resetters, t \in Targets : mark[x][t] = 0 /\ rpc[x] = "idle"
    BY DEF Init
  <2> QED  BY <1>3, <2>1, <2>2 DEF ResetInv, Counting, Probing
<1> QED  BY <1>1, <1>2, <1>4, <1>6, <1>7 DEF IInv

LEMMA IInvStep == IInv /\ [Next]_vars => IInv'
  BY TypeStep, SlotsStep, LoopStep, CountStep, ResetStep DEF IInv

LEMMA SpecIInv == Spec => []IInv
  BY InitIInv, IInvStep, PTL DEF Spec

(* Type correctness, for any requests, resets, targets, slots and counts.  *)
THEOREM TypeCorrect == Spec => []TypeOK
<1>1. IInv => TypeOK
  BY DEF IInv
<1> QED  BY <1>1, SpecIInv, PTL

(* No path of Execute leaks a slot of e.sem or gives one back twice: the   *)
(* tokens are the requests between acquisition and return.                 *)
THEOREM SlotsCorrect == Spec => []SlotsAccounted
<1>1. IInv => SlotsAccounted
  BY DEF IInv
<1> QED  BY <1>1, SpecIInv, PTL

(* Whatever the interleaving of requests and resets on a target, every     *)
(* iteration of a probe loop is counted exactly once (RecordSuccess and    *)
(* the failure section of Execute, under Statistics.Mu).                   *)
THEOREM CountersCorrect == Spec => []EveryProbeCountedOnce
<1>1. IInv => EveryProbeCountedOnce
  BY DEF IInv
<1> QED  BY <1>1, SpecIInv, PTL

(* An answer of Execute carries one item per probe that was asked for,     *)
(* also when the client left during the loop.                              *)
THEOREM AnswersComplete == Spec => []AnswerIsComplete
<1>1. IInv => AnswerIsComplete
  BY DEF IInv, LoopInv, LoopInvOf, AnswerIsComplete
<1> QED  BY <1>1, SpecIInv, PTL

(* A reset that has answered left nothing of what was counted before it    *)
(* arrived, although it lists and resets the targets without a common lock *)
(* (handleReset, GetFleetTargets, Statistics.Reset).                       *)
THEOREM ResetCorrect == Spec => []ResetErases
<1>1. IInv => ResetErases
  BY DEF IInv, ResetInv, ResetErases
<1> QED  BY <1>1, SpecIInv, PTL
-----------------------------------------------------------------------------
(* As long as nobody resets: what is counted of a target, and what request *)
(* c has seen of it.                                                       *)
Counted(t) == Total(stats[t])
Seen(c) == Total(snap[c])

(* A request has seen at most what is counted, and less while its own      *)
(* latest probe is counted and not yet in a snapshot; its events bear      *)
(* numbers it has seen, its next one a larger number than those before.    *)
SeenInvOf(c) ==
  /\ Seen(c) <= Counted(plan[c].target)
  /\ pc[c] \in {"details", "snapshot"} => Seen(c) < Counted(plan[c].target)
  /\ \A i \in 1..Len(history) : history[i].from = c =>
       /\ history[i].sequence <= Seen(c)
       /\ pc[c] = "broadcast" => history[i].sequence < Seen(c)

ToldInv ==
  /\ \A i \in 1..Len(history) : history[i].sequence <= Counted(history[i].target)
  /\ \A i, j \in 1..Len(history) :
       i < j /\ history[i].from = history[j].from
         => history[i].sequence < history[j].sequence

EventInv == NoReset => ToldInv /\ \A c \in Clients : SeenInvOf(c)

LEMMA ElementsOf ==
  ASSUME NEW S, NEW seq \in Seq(S)
  PROVE  Len(seq) \in Nat /\ \A i \in 1..Len(seq) : seq[i] \in S
  OBVIOUS

LEMMA NumbersAreNat ==
  ASSUME TypeOK
  PROVE  /\ \A t \in Targets : Counted(t) \in Nat
         /\ \A c \in Clients : Seen(c) \in Nat /\ plan[c].target \in Targets
         /\ Len(history) \in Nat
         /\ \A i \in 1..Len(history) : /\ history[i].sequence \in Nat
                                       /\ history[i].target \in Targets
<1>1. \A t \in Targets : Counted(t) \in Nat
  BY TotalIs DEF TypeOK, Counted
<1>2. \A c \in Clients : Seen(c) \in Nat
  BY TotalIs DEF TypeOK, Seen
<1>3. \A c \in Clients : plan[c].target \in Targets
  BY DEF TypeOK, Plan
<1>4. history \in Seq([from : Clients, target : Targets, verdict : Verdicts,
                       sequence : Nat])
  BY DEF TypeOK
<1>5. /\ Len(history) \in Nat
      /\ \A i \in 1..Len(history) : history[i] \in
           [from : Clients, target : Targets, verdict : Verdicts, sequence : Nat]
  BY <1>4, ElementsOf, Zenon
<1>6. \A i \in 1..Len(history) : /\ history[i].sequence \in Nat
                                 /\ history[i].target \in Targets
  BY <1>5
<1> QED  BY <1>1, <1>2, <1>3, <1>5, <1>6

LEMMA NextCountsAreNat ==
  ASSUME TypeOK'
  PROVE  \A t \in Targets : Counted(t)' \in Nat
<1>1. stats' \in [Targets -> [good : Nat, bad : Nat]]
  BY DEF TypeOK
<1> QED  BY <1>1, TotalIs DEF Counted

(* A request that does nothing but is perhaps overtaken.                   *)
LEMMA SeenStays ==
  ASSUME TypeOK, TypeOK', NEW c \in Clients, SeenInvOf(c), plan' = plan,
         pc'[c] = pc[c] \/ pc'[c] \notin {"details", "snapshot", "broadcast"},
         snap'[c] = snap[c], \A t \in Targets : Counted(t)' >= Counted(t),
         \A i \in 1..Len(history') : history'[i].from = c =>
           i \in 1..Len(history) /\ history'[i] = history[i]
  PROVE  SeenInvOf(c)'
<1>1. Seen(c)' = Seen(c) /\ Counted(plan[c].target)' >= Counted(plan[c].target)
  BY NumbersAreNat DEF Seen
<1>2. Seen(c) \in Nat /\ Counted(plan[c].target) \in Nat /\ Counted(plan[c].target)' \in Nat
  BY NumbersAreNat, NextCountsAreNat
<1>3. /\ Seen(c)' <= Counted(plan[c].target)'
      /\ pc[c] \in {"details", "snapshot"} => Seen(c)' < Counted(plan[c].target)'
  BY <1>1, <1>2 DEF SeenInvOf
<1>4. \A i \in 1..Len(history') : history'[i].from = c =>
        /\ history'[i].sequence <= Seen(c)'
        /\ pc[c] = "broadcast" => history'[i].sequence < Seen(c)'
  BY <1>1 DEF SeenInvOf
<1> QED  BY <1>3, <1>4 DEF SeenInvOf

LEMMA ToldStays ==
  ASSUME TypeOK, TypeOK', ToldInv, history' = history,
         \A t \in Targets : Counted(t)' >= Counted(t)
  PROVE  ToldInv'
<1>1. ASSUME NEW i \in 1..Len(history)
      PROVE  history[i].sequence <= Counted(history[i].target)'
  <2>1. /\ history[i].sequence \in Nat /\ Counted(history[i].target) \in Nat
        /\ Counted(history[i].target)' \in Nat
        /\ Counted(history[i].target)' >= Counted(history[i].target)
    BY NumbersAreNat, NextCountsAreNat
  <2>2. history[i].sequence <= Counted(history[i].target)
    BY DEF ToldInv
  <2> QED  BY <2>1, <2>2
<1> QED  BY <1>1 DEF ToldInv, Counted

(* What a request's step does to the counters, to the others and to the    *)
(* history.                                                                *)
LEMMA ExecuteIs ==
  ASSUME TypeOK, NEW c \in Clients, Execute(c)
  PROVE  /\ UNCHANGED <<plan, rpc>>
         /\ ~Broadcast(c) => history' = history
         /\ ~Record(c) => stats' = stats
         /\ \A d \in Clients \ {c} : pc'[d] = pc[d] /\ snap'[d] = snap[d]
<1> USE DEF job, shared, resetting, Answer
<1>1. CASE Start(c) \/ Acquire(c) \/ AbortWaiting(c) \/ Resolve(c) \/ Trace(c)
  BY <1>1 DEF Start, Acquire, AbortWaiting, Resolve, Trace, Return, Goto, TypeOK
<1>2. CASE Ping(c) \/ Backoff(c) \/ Reping(c)
  BY <1>2 DEF Ping, Backoff, Reping, Goto, TypeOK
<1>3. CASE Record(c) \/ Details(c) \/ Broadcast(c) \/ Interval(c)
  BY <1>3 DEF Record, Details, Broadcast, Interval, NextRound, Goto, TypeOK
<1>4. CASE TakeSnapshot(c) \/ Finish(c)
  BY <1>4 DEF TakeSnapshot, Finish, Return, NextRound, Goto, TypeOK
<1> QED  BY <1>1, <1>2, <1>3, <1>4 DEF Execute, Work

LEMMA RecordIs ==
  ASSUME TypeOK, NEW c \in Clients, Record(c)
  PROVE  \A t \in Targets : Counted(t)' = IF t = plan[c].target THEN Counted(t) + 1
                                          ELSE Counted(t)
<1>1. PICK u \in Targets, w \in Verdicts : u = plan[c].target /\ w = Verdict(c)
  BY VerdictIs DEF TypeOK, Plan
<1>2. stats' = [stats EXCEPT ![u] = [stats[u] EXCEPT ![w] = @ + 1]]
  BY <1>1 DEF Record
<1>3. Total([stats[u] EXCEPT ![w] = @ + 1]) = Total(stats[u]) + 1
  BY CountedIs DEF TypeOK
<1>4. \A t \in Targets : stats'[t] = IF t = u THEN [stats[u] EXCEPT ![w] = @ + 1] ELSE stats[t]
  BY <1>2 DEF TypeOK
<1>5. \A t \in Targets : Total(stats'[t]) = IF t = u THEN Total(stats[t]) + 1
                                            ELSE Total(stats[t])
  BY <1>3, <1>4
<1> QED  BY <1>1, <1>5 DEF Counted, Total

LEMMA CountersGrow ==
  ASSUME TypeOK, NEW c \in Clients, Execute(c)
  PROVE  \A t \in Targets : Counted(t)' >= Counted(t)
<1>1. \A t \in Targets : Counted(t) \in Nat
  BY NumbersAreNat
<1>2. CASE Record(c)
  BY <1>1, <1>2, RecordIs
<1>3. CASE ~Record(c)
  <2>1. \A t \in Targets : Counted(t)' = Counted(t)
    BY <1>3, ExecuteIs DEF Counted
  <2> QED  BY <1>1, <2>1
<1> QED  BY <1>2, <1>3

(* An event is appended that bears the number its request has seen last.   *)
LEMMA BroadcastIs ==
  ASSUME TypeOK, NEW c \in Clients, Broadcast(c)
  PROVE  /\ Len(history') = Len(history) + 1
         /\ history'[Len(history) + 1].from = c
         /\ history'[Len(history) + 1].target = plan[c].target
         /\ history'[Len(history) + 1].sequence = Seen(c)
         /\ \A i \in 1..Len(history) : history'[i] = history[i]
         /\ pc[c] = "broadcast" /\ pc'[c] \in {"interval", "final"}
         /\ UNCHANGED <<snap, stats>>
<1> DEFINE e == [from |-> c, target |-> plan[c].target, verdict |-> Verdict(c),
                 sequence |-> Seen(c)]
<1>1. history' = Append(history, e)
  BY DEF Broadcast, Seen
<1>2. history \in Seq([from : Clients, target : Targets, verdict : Verdicts,
                       sequence : Nat])
  BY DEF TypeOK
<1>3. e \in [from : Clients, target : Targets, verdict : Verdicts, sequence : Nat]
  BY NumbersAreNat, VerdictIs
<1>4. /\ Len(history') = Len(history) + 1 /\ history'[Len(history) + 1] = e
      /\ \A i \in 1..Len(history) : history'[i] = history[i]
  BY <1>1, <1>2, <1>3
<1>5. pc[c] = "broadcast" /\ pc'[c] \in {"interval", "final"} /\ UNCHANGED <<snap, stats>>
  BY DEF Broadcast, NextRound, Goto, TypeOK, job
<1> QED  BY <1>4, <1>5

LEMMA BroadcastTells ==
  ASSUME TypeOK, TypeOK', NEW c \in Clients, Broadcast(c), ToldInv, SeenInvOf(c),
         plan' = plan
  PROVE  ToldInv' /\ SeenInvOf(c)'
<1> DEFINE n == Len(history) + 1
<1>1. /\ n \in Nat /\ Len(history') = n /\ history'[n].from = c
      /\ history'[n].target = plan[c].target /\ history'[n].sequence = Seen(c)
      /\ \A i \in 1..Len(history') : i = n \/ (i \in 1..Len(history) /\ history'[i] = history[i])
      /\ pc[c] = "broadcast" /\ pc'[c] \in {"interval", "final"}
  BY BroadcastIs, NumbersAreNat
<1>2. Seen(c)' = Seen(c) /\ \A t : Counted(t)' = Counted(t)
  BY BroadcastIs DEF Seen, Counted
<1>3. Seen(c) \in Nat /\ Seen(c) <= Counted(plan[c].target)
  BY NumbersAreNat DEF SeenInvOf
<1>4. \A i \in 1..Len(history') : history'[i].sequence <= Counted(history'[i].target)
  BY <1>1, <1>3 DEF ToldInv
<1>5. \A i \in 1..Len(history) : history[i].from = c => history[i].sequence < Seen(c)
  BY <1>1 DEF SeenInvOf
<1>6. ASSUME NEW i \in 1..Len(history'), NEW j \in 1..Len(history'), i < j,
             history'[i].from = history'[j].from
      PROVE  history'[i].sequence < history'[j].sequence
  <2>1. i # n
    BY <1>1, <1>6
  <2>2. i \in 1..Len(history) /\ history'[i] = history[i]
    BY <1>1, <2>1
  <2>3. CASE j = n
    BY <1>1, <1>5, <1>6, <2>2, <2>3
  <2>4. CASE j # n
    BY <1>1, <1>6, <2>2, <2>4 DEF ToldInv
  <2> QED  BY <2>3, <2>4
<1>7. ToldInv'
  BY <1>2, <1>4, <1>6 DEF ToldInv, Counted
<1>8. \A i \in 1..Len(history') : history'[i].from = c => history'[i].sequence <= Seen(c)
  BY <1>1, <1>3, <1>5, NumbersAreNat DEF SeenInvOf
<1>9. Counted(plan[c].target)' = Counted(plan[c].target)
  BY BroadcastIs DEF Counted
<1> QED  BY <1>1, <1>2, <1>3, <1>7, <1>8, <1>9 DEF SeenInvOf

(* A request reads the counters; they are ahead of all its events.         *)
LEMMA SnapshotTells ==
  ASSUME TypeOK, TypeOK', NEW c \in Clients, SeenInvOf(c), plan' = plan,
         UNCHANGED <<stats, history>>, snap'[c] = stats[plan[c].target],
         pc'[c] \notin {"details", "snapshot"},
         pc'[c] = "broadcast" => pc[c] = "snapshot"
  PROVE  SeenInvOf(c)'
<1>1. /\ Seen(c)' = Counted(plan[c].target)
      /\ Counted(plan[c].target)' = Counted(plan[c].target)
  BY DEF Seen, Counted
<1>2. /\ Seen(c) \in Nat /\ Counted(plan[c].target) \in Nat
      /\ \A i \in 1..Len(history) : history[i].sequence \in Nat
  BY NumbersAreNat
<1>3. ASSUME NEW i \in 1..Len(history), history[i].from = c
      PROVE  /\ history[i].sequence <= Seen(c)'
             /\ pc'[c] = "broadcast" => history[i].sequence < Seen(c)'
  <2>1. history[i].sequence <= Seen(c) /\ Seen(c) <= Counted(plan[c].target)
    BY <1>3 DEF SeenInvOf
  <2>2. pc'[c] = "broadcast" => Seen(c) < Counted(plan[c].target)
    BY DEF SeenInvOf
  <2>3. history[i].sequence \in Nat
    BY <1>2
  <2> QED  BY <1>1, <1>2, <2>1, <2>2, <2>3
<1> QED  BY <1>1, <1>2, <1>3 DEF SeenInvOf

LEMMA OwnStep ==
  ASSUME TypeOK, TypeOK', NEW c \in Clients, Execute(c), ~Broadcast(c), SeenInvOf(c)
  PROVE  SeenInvOf(c)'
<1> USE DEF job, shared, resetting
<1>1. plan' = plan /\ history' = history /\ \A t \in Targets : Counted(t)' >= Counted(t)
  BY ExecuteIs, CountersGrow
<1>2. CASE TakeSnapshot(c) \/ Finish(c)
  <2>1. UNCHANGED stats /\ snap'[c] = stats[plan[c].target]
    BY <1>2 DEF TakeSnapshot, Finish, TypeOK
  <2>2. pc'[c] \notin {"details", "snapshot"} /\ (pc'[c] = "broadcast" => pc[c] = "snapshot")
    <3>1. CASE TakeSnapshot(c)
      <4>1. PICK place \in {"broadcast", "interval", "final"} : pc' = [pc EXCEPT ![c] = place]
        BY <3>1 DEF TakeSnapshot, NextRound, Goto
      <4> QED  BY <3>1, <4>1 DEF TakeSnapshot, TypeOK
    <3>2. CASE Finish(c)
      <4>1. pc' = [pc EXCEPT ![c] = "done"]
        BY <3>2 DEF Finish, Return, Goto
      <4> QED  BY <4>1 DEF TypeOK
    <3> QED  BY <1>2, <3>1, <3>2
  <2> QED  BY <1>1, <2>1, <2>2, SnapshotTells
<1>3. CASE Record(c)
  <2>1. pc[c] = "record" /\ pc'[c] \in {"details", "snapshot"} /\ snap' = snap
    BY <1>3 DEF Record, Goto, TypeOK
  <2>2. Counted(plan[c].target)' = Counted(plan[c].target) + 1 /\ Seen(c)' = Seen(c)
    BY <1>1, <1>3, <2>1, RecordIs, NumbersAreNat DEF Seen
  <2>3. Seen(c) \in Nat /\ Counted(plan[c].target) \in Nat
    BY NumbersAreNat
  <2>4. Seen(c)' < Counted(plan[c].target)' /\ Seen(c)' <= Counted(plan[c].target)'
    BY <2>2, <2>3 DEF SeenInvOf
  <2>5. \A i \in 1..Len(history) : history[i].from = c => history[i].sequence <= Seen(c)'
    BY <2>2 DEF SeenInvOf
  <2> QED  BY <1>1, <2>1, <2>4, <2>5 DEF SeenInvOf
<1>4. CASE Details(c)
  <2>1. pc[c] = "details" /\ pc'[c] = "snapshot" /\ UNCHANGED <<snap, stats>>
    BY <1>4 DEF Details, Goto, TypeOK
  <2>2. Seen(c)' = Seen(c) /\ Counted(plan[c].target)' = Counted(plan[c].target)
    BY <1>1, <2>1 DEF Seen, Counted
  <2> QED  BY <1>1, <2>1, <2>2 DEF SeenInvOf
<1>5. CASE ~TakeSnapshot(c) /\ ~Finish(c) /\ ~Record(c) /\ ~Details(c)
  <2>1. snap' = snap /\ pc'[c] \notin {"details", "snapshot", "broadcast"}
    <3>1. CASE Start(c) \/ Acquire(c) \/ AbortWaiting(c) \/ Resolve(c) \/ Trace(c)
      BY <3>1 DEF Start, Acquire, AbortWaiting, Resolve, Trace, Return, Goto, TypeOK
    <3>2. CASE Ping(c) \/ Backoff(c) \/ Reping(c) \/ Interval(c)
      BY <3>2 DEF Ping, Backoff, Reping, Interval, Goto, TypeOK
    <3> QED  BY <1>5, <3>1, <3>2 DEF Execute, Work
  <2> QED  BY <1>1, <2>1, SeenStays
<1> QED  BY <1>2, <1>3, <1>4, <1>5

LEMMA EventStep ==
  ASSUME TypeOK, TypeOK', EventInv, [Next]_vars
  PROVE  EventInv'
<1> SUFFICES ASSUME NoReset'  PROVE ToldInv' /\ \A c \in Clients : SeenInvOf(c)'
  BY DEF EventInv
<1>1. ASSUME NEW x \in Resetters, Reset(x)
      PROVE  FALSE
  BY <1>1 DEF Reset, ResetHistory, ListTargets, ResetTarget, ResetAnswers, TypeOK, NoReset
<1>2. ASSUME rpc' = rpc  PROVE ToldInv /\ \A c \in Clients : SeenInvOf(c)
  BY <1>2 DEF EventInv, NoReset
<1>3. ASSUME NEW c \in Clients, Execute(c)
      PROVE  ToldInv' /\ \A d \in Clients : SeenInvOf(d)'
  <2>1. /\ UNCHANGED <<plan, rpc>> /\ (~Broadcast(c) => history' = history)
        /\ \A d \in Clients \ {c} : pc'[d] = pc[d] /\ snap'[d] = snap[d]
        /\ \A t \in Targets : Counted(t)' >= Counted(t)
    BY <1>3, ExecuteIs, CountersGrow
  <2>2. ToldInv /\ \A d \in Clients : SeenInvOf(d)
    BY <1>2, <2>1
  <2>3. ToldInv' /\ SeenInvOf(c)'
    <3>1. CASE Broadcast(c)
      BY <2>1, <2>2, <3>1, BroadcastTells
    <3>2. CASE ~Broadcast(c)
      BY <1>3, <2>1, <2>2, <3>2, ToldStays, OwnStep
    <3> QED  BY <3>1, <3>2
  <2>4. ASSUME NEW d \in Clients \ {c}
        PROVE  SeenInvOf(d)'
    <3>1. \A i \in 1..Len(history') : history'[i].from = d =>
            i \in 1..Len(history) /\ history'[i] = history[i]
      <4>1. CASE Broadcast(c)
        BY <4>1, BroadcastIs, NumbersAreNat
      <4>2. CASE ~Broadcast(c)
        BY <2>1, <4>2
      <4> QED  BY <4>1, <4>2
    <3> QED  BY <2>1, <2>2, <3>1, SeenStays
  <2> QED  BY <2>3, <2>4
<1>4. ASSUME UNCHANGED <<plan, pc, stats, snap, history, rpc>>
      PROVE  ToldInv' /\ \A c \in Clients : SeenInvOf(c)'
  <2>1. \A t \in Targets : Counted(t)' >= Counted(t)
    <3>1. \A t \in Targets : Counted(t)' = Counted(t) /\ Counted(t) \in Nat
      BY <1>4, NumbersAreNat DEF Counted
    <3> QED  BY <3>1
  <2> QED  BY <1>2, <1>4, <2>1, ToldStays, SeenStays
<1>5. CASE AllAnswered \/ UNCHANGED vars \/ \E c \in Clients : ClientLeaves(c)
  <2>1. UNCHANGED <<plan, pc, stats, snap, history, rpc>>
    BY <1>5 DEF AllAnswered, vars, ClientLeaves, job, shared, resetting
  <2> QED  BY <1>4, <2>1
<1> QED  BY <1>1, <1>3, <1>5 DEF Next

(* Until somebody resets the counters, no event announces more probes than *)
(* its target has counted, and the numbers of a request's events grow,     *)
(* however many requests probe the target meanwhile (Execute, Snapshot).   *)
THEOREM EventsCorrect == Spec => []EventsFollowCounters
<1>1. Init => EventInv
  <2> SUFFICES ASSUME Init  PROVE ToldInv /\ \A c \in Clients : SeenInvOf(c)
    BY DEF EventInv
  <2>1. TypeOK
    BY InitType
  <2>2. Len(history) = 0
    BY DEF Init
  <2>3. ASSUME NEW c \in Clients
        PROVE  Seen(c) = Counted(plan[c].target) /\ pc[c] = "idle"
    BY <2>1, NumbersAreNat DEF Init, Seen, Counted
  <2>4. ASSUME NEW c \in Clients
        PROVE  Seen(c) <= Counted(plan[c].target)
    BY <2>1, <2>3, NumbersAreNat
  <2> QED  BY <2>2, <2>3, <2>4 DEF ToldInv, SeenInvOf
<1>2. TypeOK /\ TypeOK' /\ EventInv /\ [Next]_vars => EventInv'
  BY EventStep
<1>3. EventInv => EventsFollowCounters
  BY DEF EventInv, ToldInv, Counted, EventsFollowCounters
<1> QED  BY TypeCorrect, <1>1, <1>2, <1>3, PTL DEF Spec
=============================================================================
