---------------------------- MODULE ProberProofs ----------------------------
(***************************************************************************)
(* Proofs about Prober, for any options, any number of probes and resets   *)
(* and any length of the run.                                              *)
(***************************************************************************)
EXTENDS Prober, FiniteSetTheorems, TLAPS

(* The clock and the outage that is under way.                             *)
OutageInv ==
  /\ pingTime <= now
  /\ pc \notin {"wait", "finish", "done"} => pingTime >= 1
  /\ startUp <= pingTime
  /\ pc # "done" /\ down => /\ startDown >= 1 /\ startDown <= pingTime
                            /\ totalDown < startDown
  /\ pc # "done" /\ ~down => totalDown = 0 \/ totalDown < pingTime
  /\ totalDown < now

(* Where the loop is when it counts towards --count.                       *)
Probing == {"wait", "ping", "backoff", "reping", "count"}
Counted == {"details", "failed", "check", "event", "broadcast"}

QuitInv ==
  opts.quit > 0 =>
    /\ pc \in Probing => Len(log) = probeCount /\ probeCount < opts.quit
    /\ pc \in Counted => Len(log) = probeCount + 1 /\ probeCount < opts.quit
    /\ pc \in {"finish", "done"} =>
         /\ Len(log) <= opts.quit
         /\ ~interrupted /\ opts.maxFails = 0 => Len(log) = opts.quit

StreakInv ==
  opts.maxFails > 0 /\ pc \notin {"failed", "check", "finish", "done"}
    => streak < opts.maxFails

IInv == TypeOK /\ OutageInv /\ QuitInv /\ StreakInv /\ CountersFollowLog

LEMMA OptsIs ==
  ASSUME TypeOK
  PROVE  /\ opts.quit \in Nat /\ opts.maxFails \in Nat
         /\ opts.retries \in Nat /\ opts.sla \in BOOLEAN
  BY ProberAssumption DEF TypeOK, Option

LEMMA TimesAreNat ==
  ASSUME TypeOK
  PROVE  /\ now \in Nat /\ pingTime \in Nat /\ startDown \in Nat /\ startUp \in Nat
         /\ totalDown \in Nat /\ endTime \in Nat
  BY ProberAssumption DEF TypeOK

LEMMA SumIsNat ==
  ASSUME NEW a \in Nat, NEW b \in Nat
  PROVE  a + b \in Nat
  OBVIOUS

LEMMA LongestIs ==
  ASSUME NEW start \in Nat, NEW length \in Nat, NEW l \in [start : Nat, length : Nat]
  PROVE  SetLongestDuration(start, length, l) \in [start : Nat, length : Nat]
  BY DEF SetLongestDuration

(* A longest period that is replaced as SetLongestDuration does is the one *)
(* that the ledger keeps.                                                  *)
LEMMA LongestIsLonger ==
  ASSUME NEW start \in Nat \ {0}, NEW length \in Nat, NEW l \in [start : Nat, length : Nat]
  PROVE  SetLongestDuration(start, length, l) = Ledger!Longer(start, length, l)
  BY DEF SetLongestDuration, Ledger!Longer

LEMMA LogIs ==
  ASSUME log \in Seq([at : Nat, good : BOOLEAN]), pingTime \in Nat,
         NEW good \in BOOLEAN, Logged(good)
  PROVE  /\ log' \in Seq([at : Nat, good : BOOLEAN])
         /\ Len(log') = Len(log) + 1
         /\ log'[Len(log) + 1].good = good
         /\ \A i \in 1..Len(log) : log'[i] = log[i]
  BY DEF Logged
-----------------------------------------------------------------------------
LEMMA InitIInv == Init => IInv
<1> SUFFICES ASSUME Init  PROVE IInv
  OBVIOUS
<1>1. TypeOK
  <2>1. /\ log = <<>> /\ history = <<>> /\ Len(log) = 0
        /\ log \in Seq([at : Nat, good : BOOLEAN])
        /\ history \in Seq([good : BOOLEAN, ok : Nat, bad : Nat])
    BY DEF Init
  <2>2. 0 \in 0..MaxTime /\ 1 \in 1..MaxTime
    BY ProberAssumption
  <2>3. resetAt \in 0..Len(log)
    BY <2>1 DEF Init
  <2>4. rpc \in [Resetters -> {"idle", "stats", "done"}]
    BY DEF Init
  <2> QED  BY <2>1, <2>2, <2>3, <2>4 DEF Init, TypeOK, PC
<1>2. OutageInv
  BY DEF Init, OutageInv
<1>3. QuitInv /\ StreakInv
  BY <1>1, OptsIs DEF Init, QuitInv, StreakInv, Probing, Counted
<1>4. CountersFollowLog
  <2>1. resetAt + 1 .. Len(log) = {}
    BY DEF Init
  <2>2. Streak(resetAt + 1, Len(log)) = {}
    BY <2>1 DEF Streak
  <2> QED  BY <2>1, <2>2, FS_EmptySet DEF Init, CountersFollowLog
<1> QED  BY <1>1, <1>2, <1>3, <1>4 DEF IInv

(* The steps of the loop that neither count nor touch the outage.          *)
Quiet == Leave \/ Begin \/ Ping \/ Reping \/ Backoff \/ Reresolve \/ CheckStreak
           \/ TakeSnapshot \/ Broadcast

LEMMA QuietIs ==
  ASSUME Quiet
  PROVE  UNCHANGED <<opts, now, interrupted, counters, outage, uptime, endTime, rpc, ghosts>>
  BY DEF Quiet, Leave, Begin, Ping, Reping, Returns, Backoff, Reresolve, CheckStreak,
         TakeSnapshot, Broadcast, env, records, counters, outage, uptime, ghosts

LEMMA TypeStep ==
  ASSUME TypeOK, OutageInv, [Next]_vars
  PROVE  TypeOK'
<1> USE DEF TypeOK, Goto, env, records, counters, outage, uptime, ghosts, loop
<1>1. CASE Tick
  <2>1. now' \in 1..MaxTime
    BY <1>1, ProberAssumption DEF Tick
  <2> QED  BY <1>1, <2>1 DEF Tick
<1>11. CASE Interrupt
  BY <1>11 DEF Interrupt
<1>2. CASE Leave \/ CheckStreak
  BY <1>2 DEF Leave, CheckStreak, PC
<1>12. CASE Begin
  <2>1. pingTime' \in 0..MaxTime /\ pc' \in PC
    BY <1>12, ProberAssumption DEF Begin, PC
  <2> QED  BY <1>12, <2>1 DEF Begin
<1>13. CASE Reresolve
  <2>1. lookups' \in Nat /\ pc' \in PC
    BY <1>13 DEF Reresolve, PC
  <2> QED  BY <1>13, <2>1 DEF Reresolve
<1>14. CASE TakeSnapshot
  <2>1. snap' \in [ok : Nat, bad : Nat] /\ pc' \in PC
    BY <1>14 DEF TakeSnapshot, PC
  <2> QED  BY <1>14, <2>1 DEF TakeSnapshot
<1>3. CASE Ping \/ Reping
  <2>1. PICK r \in Nat, o \in Outcomes :
          /\ res' = o
          /\ \/ attempt' = r + 1 /\ pc' = "backoff"
             \/ attempt' = 0 /\ pc' = "count"
    BY <1>3 DEF Ping, Reping, Returns
  <2>2. o \in {"ok", "slow", "fail"} /\ attempt' \in Nat
    BY <2>1 DEF Outcomes
  <2> QED  BY <1>3, <2>1, <2>2 DEF Ping, Reping, Returns, PC
<1>4. CASE Backoff
  BY <1>4 DEF Backoff, PC
<1>5. CASE Broadcast
  <2>1. Append(history, Event(res = "ok", snap)) \in Seq([good : BOOLEAN, ok : Nat, bad : Nat])
    BY DEF Event
  <2>2. CountProbe
    BY <1>5 DEF Broadcast
  <2>3. pc' \in PC
    BY <2>2 DEF CountProbe, PC
  <2>4. probeCount' \in Nat
    BY <2>2 DEF CountProbe
  <2> QED  BY <1>5, <2>1, <2>3, <2>4 DEF Broadcast
<1>6. CASE CountFailure
  <2>1. log' \in Seq([at : Nat, good : BOOLEAN]) /\ Len(log') = Len(log) + 1
    BY <1>6, LogIs, TimesAreNat DEF CountFailure
  <2>2. resetAt' \in 0..Len(log') /\ resetAt' = resetAt
    BY <1>6, <2>1 DEF CountFailure
  <2>3. bad' \in Nat /\ streak' \in Nat /\ down' \in BOOLEAN /\ startDown' \in 0..MaxTime
    BY <1>6 DEF CountFailure
  <2> QED  BY <1>6, <2>1, <2>2, <2>3 DEF CountFailure, PC
<1>15. CASE CountSuccess
  <2>1. log' \in Seq([at : Nat, good : BOOLEAN]) /\ Len(log') = Len(log) + 1
    BY <1>15, LogIs, TimesAreNat DEF CountSuccess
  <2>2. resetAt' \in 0..Len(log') /\ resetAt' = resetAt
    BY <1>15, <2>1 DEF CountSuccess
  <2>3. ok' \in Nat /\ streak' \in Nat
    BY <1>15 DEF CountSuccess
  <2> QED  BY <1>15, <2>1, <2>2, <2>3 DEF CountSuccess, PC
<1>7. CASE Details
  <2>1. /\ totalDown' \in Nat /\ longestDown' \in [start : Nat, length : Nat]
        /\ down' \in BOOLEAN /\ startUp' \in 0..MaxTime
    <3>1. CASE down
      <4>1. startDown \in Nat \ {0} /\ pingTime - startDown \in Nat
        BY <1>7, <3>1 DEF Details, OutageInv
      <4>2. Sub(pingTime, startDown) \in Nat
        BY <4>1 DEF Sub
      <4>3. SetLongestDuration(startDown, Sub(pingTime, startDown), longestDown)
              \in [start : Nat, length : Nat]
        BY <4>1, <4>2, LongestIs
      <4>4. totalDown + Sub(pingTime, startDown) \in Nat
        BY <4>2, SumIsNat, Zenon
      <4>5. /\ totalDown' = totalDown + Sub(pingTime, startDown) /\ down' = FALSE
            /\ startUp' = pingTime
            /\ longestDown' = SetLongestDuration(startDown, Sub(pingTime, startDown), longestDown)
        BY <1>7, <3>1 DEF Details
      <4> QED  BY <4>3, <4>4, <4>5
    <3>2. CASE ~down
      BY <1>7, <3>2 DEF Details
    <3> QED  BY <3>1, <3>2
  <2>2. pc' \in PC
    BY <1>7 DEF Details, PC
  <2> QED  BY <1>7, <2>1, <2>2 DEF Details
<1>8. CASE Finalize
  <2>1. /\ totalDown' \in Nat /\ longestDown' \in [start : Nat, length : Nat]
        /\ totalUp' \in Nat
    <3>1. CASE down
      <4>1. startDown \in Nat \ {0} /\ now - startDown \in Nat
        BY <1>8, <3>1 DEF Finalize, OutageInv
      <4>2. Sub(now, startDown) \in Nat
        BY <4>1 DEF Sub
      <4>3. SetLongestDuration(startDown, Sub(now, startDown), longestDown)
              \in [start : Nat, length : Nat]
        BY <4>1, <4>2, LongestIs
      <4>4. totalDown + Sub(now, startDown) \in Nat
        BY <4>2, SumIsNat, Zenon
      <4>5. /\ totalDown' = totalDown + Sub(now, startDown) /\ totalUp' = totalUp
            /\ longestDown' = SetLongestDuration(startDown, Sub(now, startDown), longestDown)
        BY <1>8, <3>1 DEF Finalize
      <4> QED  BY <4>3, <4>4, <4>5
    <3>2. CASE ~down
      <4>1. Sub(now, startUp) \in Nat
        BY ProberAssumption DEF Sub, OutageInv
      <4>2. totalUp + Sub(now, startUp) \in Nat
        BY <4>1, SumIsNat, Zenon
      <4>3. /\ totalUp' = totalUp + Sub(now, startUp)
            /\ totalDown' = totalDown /\ longestDown' = longestDown
        BY <1>8, <3>2 DEF Finalize
      <4> QED  BY <4>2, <4>3
    <3> QED  BY <3>1, <3>2
  <2>2. pc' \in PC /\ endTime' \in 0..MaxTime
    BY <1>8 DEF Finalize, PC
  <2> QED  BY <1>8, <2>1, <2>2 DEF Finalize
<1>9. ASSUME NEW x \in Resetters, ResetHistory(x)
      PROVE  TypeOK'
  <2>1. history' \in Seq([good : BOOLEAN, ok : Nat, bad : Nat])
    BY <1>9 DEF ResetHistory
  <2>2. rpc' \in [Resetters -> {"idle", "stats", "done"}]
    BY <1>9 DEF ResetHistory
  <2> QED  BY <1>9, <2>1, <2>2 DEF ResetHistory
<1>16. ASSUME NEW x \in Resetters, ResetStats(x)
      PROVE  TypeOK'
  <2>1. resetAt' = Len(log) /\ Len(log) \in Nat /\ log' = log
    BY <1>16 DEF ResetStats
  <2>2. rpc' \in [Resetters -> {"idle", "stats", "done"}]
    BY <1>16 DEF ResetStats
  <2>3. resetAt' \in 0..Len(log')
    BY <2>1
  <2>4. ok' \in Nat /\ bad' \in Nat /\ streak' \in Nat
    BY <1>16 DEF ResetStats
  <2> QED  BY <1>16, <2>1, <2>2, <2>3, <2>4 DEF ResetStats
<1>10. CASE Exited \/ UNCHANGED vars
  BY <1>10 DEF Exited, vars
<1> QED  BY <1>1, <1>2, <1>3, <1>4, <1>5, <1>6, <1>7, <1>8, <1>9, <1>10, <1>11, <1>12,
            <1>13, <1>14, <1>15, <1>16
         DEF Next, Probe, Iteration, Reset

LEMMA OutageStep ==
  ASSUME TypeOK, OutageInv, [Next]_vars
  PROVE  OutageInv'
<1> USE TimesAreNat DEF Goto, env, records, counters, outage, uptime, ghosts, loop
<1>1. CASE Tick
  <2>1. now' = now + 1 /\ UNCHANGED <<pc, pingTime, down, startDown, startUp, totalDown>>
    BY <1>1 DEF Tick
  <2> QED  BY <2>1 DEF OutageInv
<1>10. CASE Interrupt
  <2>1. UNCHANGED <<now, pc, pingTime, down, startDown, startUp, totalDown>>
    BY <1>10 DEF Interrupt
  <2> QED  BY <2>1 DEF OutageInv
<1>2. CASE Begin
  BY <1>2 DEF Begin, OutageInv
<1>3. CASE Quiet /\ ~Begin
  <2>1. UNCHANGED <<now, pingTime, outage, uptime>>
    BY <1>3, QuietIs DEF Quiet, Leave, Ping, Reping, Returns, Backoff, Reresolve,
                         CheckStreak, TakeSnapshot, Broadcast
  <2>2. pc # "done" /\ (pc' \notin {"wait", "finish", "done"}
                          => pc \notin {"wait", "finish", "done"}) /\ pc' # "done"
    BY <1>3 DEF Quiet, Leave, Ping, Reping, Returns, Backoff, Reresolve, CheckStreak,
                TakeSnapshot, Broadcast, CountProbe
  <2> QED  BY <2>1, <2>2 DEF OutageInv
<1>4. CASE CountFailure
  <2>1. pc = "count" /\ pingTime >= 1
    BY <1>4 DEF CountFailure, OutageInv
  <2> QED  BY <1>4, <2>1 DEF CountFailure, OutageInv
<1>5. CASE CountSuccess
  BY <1>5 DEF CountSuccess, OutageInv
<1>6. CASE Details
  <2>1. CASE down
    <3>1. /\ startDown >= 1 /\ startDown <= pingTime /\ totalDown < startDown
          /\ pingTime <= now
      BY <1>6, <2>1 DEF Details, OutageInv
    <3>2. /\ totalDown' = totalDown + (pingTime - startDown) /\ down' = FALSE
          /\ startUp' = pingTime /\ pc' = "event"
      BY <1>6, <2>1, <3>1 DEF Details, Sub
    <3>3. totalDown' < pingTime /\ totalDown' < now
      BY <3>1, <3>2
    <3> QED  BY <1>6, <3>1, <3>2, <3>3 DEF Details, OutageInv
  <2>2. CASE ~down
    BY <1>6, <2>2 DEF Details, OutageInv
  <2> QED  BY <2>1, <2>2
<1>7. CASE Finalize
  <2>1. CASE down
    <3>1. startDown >= 1 /\ startDown <= now /\ totalDown < startDown
      BY <1>7, <2>1 DEF Finalize, OutageInv
    <3>2. totalDown' = totalDown + (now - startDown) /\ pc' = "done"
      BY <1>7, <2>1, <3>1 DEF Finalize, Sub
    <3>3. totalDown' < now
      BY <3>1, <3>2
    <3> QED  BY <1>7, <3>2, <3>3 DEF Finalize, OutageInv
  <2>2. CASE ~down
    BY <1>7, <2>2 DEF Finalize, OutageInv
  <2> QED  BY <2>1, <2>2
<1>8. ASSUME NEW x \in Resetters, Reset(x)
      PROVE  OutageInv'
  <2>1. UNCHANGED <<now, pc, pingTime, down, startDown, startUp, totalDown>>
    BY <1>8 DEF Reset, ResetHistory, ResetStats
  <2> QED  BY <2>1 DEF OutageInv
<1>9. CASE Exited \/ UNCHANGED vars
  <2>1. UNCHANGED <<now, pc, pingTime, down, startDown, startUp, totalDown>>
    BY <1>9 DEF Exited, vars
  <2> QED  BY <2>1 DEF OutageInv
<1> QED  BY <1>1, <1>2, <1>3, <1>4, <1>5, <1>6, <1>7, <1>8, <1>9, <1>10
         DEF Next, Probe, Iteration, Quiet
LEMMA QuitStep ==
  ASSUME TypeOK, QuitInv, [Next]_vars
  PROVE  QuitInv'
<1>1. Len(log) \in Nat /\ probeCount \in Nat /\ opts.quit \in Nat /\ opts.maxFails \in Nat
  BY OptsIs DEF TypeOK
<1> USE <1>1 DEF Goto, env, records, counters, outage, uptime, ghosts, loop
<1>2. CASE UNCHANGED <<opts, interrupted, pc, log, probeCount>>
  BY <1>2 DEF QuitInv
<1>3. CASE Interrupt
  BY <1>3 DEF Interrupt, QuitInv
<1>4. CASE Leave
  BY <1>4 DEF Leave, QuitInv, Probing, Counted
<1>5. CASE Begin \/ Ping \/ Reping \/ Backoff
  <2>1. /\ UNCHANGED <<opts, interrupted, log, probeCount>>
        /\ pc \in Probing /\ pc' \in Probing
    BY <1>5 DEF Begin, Ping, Reping, Returns, Backoff, Probing
  <2> QED  BY <2>1 DEF QuitInv, Probing, Counted
<1>6. CASE CountFailure \/ CountSuccess
  <2>1. Len(log') = Len(log) + 1
    BY <1>6, LogIs, TimesAreNat DEF CountFailure, CountSuccess, TypeOK
  <2>2. /\ UNCHANGED <<opts, interrupted, probeCount>>
        /\ pc \in Probing /\ pc' \in Counted
    BY <1>6 DEF CountFailure, CountSuccess, Probing, Counted
  <2> QED  BY <2>1, <2>2 DEF QuitInv, Probing, Counted
<1>7. CASE Reresolve \/ Details \/ TakeSnapshot
  <2>1. /\ UNCHANGED <<opts, interrupted, log, probeCount>>
        /\ pc \in Counted /\ pc' \in Counted
    BY <1>7 DEF Reresolve, Details, TakeSnapshot, Counted
  <2> QED  BY <2>1 DEF QuitInv, Probing, Counted
<1>8. CASE CheckStreak
  <2>1. /\ UNCHANGED <<opts, interrupted, log, probeCount>> /\ pc \in Counted
        /\ pc' = "event" \/ (opts.maxFails > 0 /\ pc' = "finish")
    BY <1>8 DEF CheckStreak, Counted
  <2> QED  BY <2>1 DEF QuitInv, Probing, Counted
<1>9. CASE Broadcast
  <2>1. /\ UNCHANGED <<opts, interrupted, log>> /\ pc \in Counted
        /\ \/ opts.quit = 0
           \/ probeCount' = probeCount + 1 /\ probeCount + 1 >= opts.quit /\ pc' = "finish"
           \/ probeCount' = probeCount + 1 /\ probeCount + 1 < opts.quit /\ pc' = "wait"
    BY <1>9 DEF Broadcast, CountProbe, Counted
  <2> QED  BY <2>1 DEF QuitInv, Probing, Counted
<1>10. CASE Finalize
  BY <1>10 DEF Finalize, QuitInv, Probing, Counted
<1>11. CASE Tick \/ Exited \/ UNCHANGED vars \/ \E x \in Resetters : Reset(x)
  <2>1. UNCHANGED <<opts, interrupted, pc, log, probeCount>>
    BY <1>11 DEF Tick, Exited, vars, Reset, ResetHistory, ResetStats
  <2> QED  BY <2>1, <1>2
<1> QED  BY <1>3, <1>4, <1>5, <1>6, <1>7, <1>8, <1>9, <1>10, <1>11
         DEF Next, Probe, Iteration

LEMMA StreakStep ==
  ASSUME TypeOK, StreakInv, [Next]_vars
  PROVE  StreakInv'
<1>1. streak \in Nat /\ opts.maxFails \in Nat
  BY OptsIs DEF TypeOK
<1> USE <1>1 DEF Goto, env, records, counters, outage, uptime, ghosts, loop
<1>2. CASE CheckStreak
  BY <1>2 DEF CheckStreak, StreakInv
<1>3. CASE CountFailure
  BY <1>3 DEF CountFailure, StreakInv
<1>4. CASE CountSuccess
  BY <1>4 DEF CountSuccess, StreakInv
<1>5. ASSUME NEW x \in Resetters, Reset(x)
      PROVE  StreakInv'
  <2>1. UNCHANGED <<opts, pc>> /\ (streak' = 0 \/ streak' = streak)
    BY <1>5 DEF Reset, ResetHistory, ResetStats
  <2> QED  BY <2>1 DEF StreakInv
<1>6. CASE Quiet /\ ~CheckStreak
  <2>1. UNCHANGED <<opts, streak>>
    BY <1>6, QuietIs
  <2>2. pc' \notin {"failed", "check", "finish", "done"}
          => pc \notin {"failed", "check", "finish", "done"}
    BY <1>6 DEF Quiet, Leave, Begin, Ping, Reping, Returns, Backoff, Reresolve,
                TakeSnapshot, Broadcast
  <2> QED  BY <2>1, <2>2 DEF StreakInv
<1>7. CASE Details
  BY <1>7 DEF Details, StreakInv
<1>8. CASE Finalize
  BY <1>8 DEF Finalize, StreakInv
<1>9. CASE Tick \/ Interrupt \/ Exited \/ UNCHANGED vars
  <2>1. UNCHANGED <<opts, pc, streak>>
    BY <1>9 DEF Tick, Interrupt, Exited, vars
  <2> QED  BY <2>1 DEF StreakInv
<1> QED  BY <1>2, <1>3, <1>4, <1>5, <1>6, <1>7, <1>8, <1>9
         DEF Next, Probe, Iteration, Quiet

(* The sets that CountersFollowLog counts, and what one more entry of the  *)
(* log does to them.                                                       *)
Goods(l, m, n) == {i \in m + 1 .. n : l[i].good}
Bads(l, m, n) == {i \in m + 1 .. n : ~l[i].good}
RunOf(l, m, n) == {j \in m + 1 .. n : \A k \in j .. n : ~l[k].good}

LEMMA OneMore ==
  ASSUME NEW m \in Nat, NEW n \in Nat, NEW S \in SUBSET (m + 1 .. n)
  PROVE  /\ IsFiniteSet(S) /\ Cardinality(S) \in Nat
         /\ Cardinality(S \cup {n + 1}) = Cardinality(S) + 1
<1>1. IsFiniteSet(m + 1 .. n)
  BY FS_Interval
<1>2. IsFiniteSet(S) /\ Cardinality(S) \in Nat
  BY <1>1, FS_Subset, FS_CardinalityType
<1>3. n + 1 \notin S
  OBVIOUS
<1> QED  BY <1>2, <1>3, FS_AddElement

LEMMA ExtendedGood ==
  ASSUME NEW l, NEW l2, NEW m \in Nat, NEW n \in Nat, m <= n, NEW k1, k1 = n + 1,
         \A i \in 1..n : l2[i] = l[i],
         l2[k1].good
  PROVE  /\ Cardinality(Goods(l2, m, k1)) = Cardinality(Goods(l, m, n)) + 1
         /\ Cardinality(Bads(l2, m, k1)) = Cardinality(Bads(l, m, n))
         /\ Cardinality(RunOf(l2, m, k1)) = 0
<1>1. \A i \in m + 1 .. k1 : (i \in m + 1 .. n /\ l2[i] = l[i]) \/ i = k1
  OBVIOUS
<1>2. k1 \in m + 1 .. k1 /\ k1 \notin m + 1 .. n
  OBVIOUS
<1>3. \A i \in m + 1 .. n : i \in m + 1 .. k1 /\ l2[i] = l[i]
  OBVIOUS
<1>4. \A j \in m + 1 .. k1 : k1 \in j .. k1
  OBVIOUS
<1>5. /\ Goods(l2, m, k1) = Goods(l, m, n) \cup {n + 1}
      /\ Bads(l2, m, k1) = Bads(l, m, n)
      /\ RunOf(l2, m, k1) = {}
  BY <1>1, <1>2, <1>3, <1>4 DEF Goods, Bads, RunOf
<1>6. Goods(l, m, n) \in SUBSET (m + 1 .. n)
  BY DEF Goods
<1>7. Cardinality(Goods(l, m, n) \cup {n + 1}) = Cardinality(Goods(l, m, n)) + 1
  BY <1>6, OneMore
<1>8. Cardinality({}) = 0
  BY FS_EmptySet
<1> QED  BY <1>5, <1>7, <1>8

LEMMA ExtendedBad ==
  ASSUME NEW l, NEW l2, NEW m \in Nat, NEW n \in Nat, m <= n, NEW k1, k1 = n + 1,
         \A i \in 1..n : l2[i] = l[i],
         ~l2[k1].good
  PROVE  /\ Cardinality(Goods(l2, m, k1)) = Cardinality(Goods(l, m, n))
         /\ Cardinality(Bads(l2, m, k1)) = Cardinality(Bads(l, m, n)) + 1
         /\ Cardinality(RunOf(l2, m, k1)) = Cardinality(RunOf(l, m, n)) + 1
<1>1. \A i \in m + 1 .. k1 : (i \in m + 1 .. n /\ l2[i] = l[i]) \/ i = k1
  OBVIOUS
<1>2. k1 \in m + 1 .. k1 /\ k1 \notin m + 1 .. n
  OBVIOUS
<1>3. \A i \in m + 1 .. n : i \in m + 1 .. k1 /\ l2[i] = l[i]
  OBVIOUS
<1>4. \A j \in m + 1 .. n : (\A k \in j .. k1 : ~l2[k].good) <=> (\A k \in j .. n : ~l[k].good)
  <2> SUFFICES ASSUME NEW j \in m + 1 .. n
               PROVE  (\A k \in j .. k1 : ~l2[k].good) <=> (\A k \in j .. n : ~l[k].good)
    OBVIOUS
  <2>1. \A k \in j .. k1 : (k \in j .. n /\ l2[k] = l[k]) \/ k = k1
    OBVIOUS
  <2>2. \A k \in j .. n : k \in j .. k1 /\ l2[k] = l[k]
    OBVIOUS
  <2> QED  BY <2>1, <2>2
<1>5. \A k \in k1 .. k1 : ~l2[k].good
  OBVIOUS
<1>6. /\ Goods(l2, m, k1) = Goods(l, m, n)
      /\ Bads(l2, m, k1) = Bads(l, m, n) \cup {n + 1}
      /\ RunOf(l2, m, k1) = RunOf(l, m, n) \cup {n + 1}
  BY <1>1, <1>2, <1>3, <1>4, <1>5 DEF Goods, Bads, RunOf
<1>7. Bads(l, m, n) \in SUBSET (m + 1 .. n) /\ RunOf(l, m, n) \in SUBSET (m + 1 .. n)
  BY DEF Bads, RunOf
<1> QED  BY <1>6, <1>7, OneMore

LEMMA CountersStep ==
  ASSUME TypeOK, CountersFollowLog, [Next]_vars
  PROVE  CountersFollowLog'
<1>1. /\ Len(log) \in Nat /\ resetAt \in Nat /\ resetAt <= Len(log)
      /\ ok \in Nat /\ bad \in Nat /\ streak \in Nat
  BY DEF TypeOK
<1> USE DEF Goto, env, records, counters, outage, uptime, ghosts, loop
<1>2. CASE UNCHANGED <<counters, ghosts>>
  BY <1>2 DEF CountersFollowLog, Streak
<1>3. CASE CountFailure \/ CountSuccess
  <2>1. PICK m \in Nat, n \in Nat : m = resetAt /\ n = Len(log) /\ m <= n
    BY <1>1
  <2>2. PICK h : h = log
    OBVIOUS
  <2>3. /\ ok = Cardinality(Goods(h, m, n)) /\ bad = Cardinality(Bads(h, m, n))
        /\ streak = Cardinality(RunOf(h, m, n))
    BY <2>1, <2>2 DEF CountersFollowLog, Streak, Goods, Bads, RunOf
  <2>4. PICK g \in BOOLEAN :
          /\ Logged(g) /\ resetAt' = m
          /\ ok' = (IF g THEN ok + 1 ELSE ok) /\ bad' = (IF g THEN bad ELSE bad + 1)
          /\ streak' = (IF g THEN 0 ELSE streak + 1)
    BY <1>3, <2>1 DEF CountFailure, CountSuccess
  <2>5. PICK l : l = log'
    OBVIOUS
  <2>6. Len(l) = n + 1 /\ l[n + 1].good = g /\ \A i \in 1..n : l[i] = h[i]
    BY <2>1, <2>2, <2>4, <2>5, LogIs, TimesAreNat DEF TypeOK
  <2>7. PICK k1 : k1 = n + 1
    OBVIOUS
  <2>8. Len(l) = k1 /\ l[k1].good = g /\ \A i \in 1..n : l[i] = h[i]
    BY <2>6, <2>7
  <2>9. /\ ok' = Cardinality(Goods(l, m, k1)) /\ bad' = Cardinality(Bads(l, m, k1))
        /\ streak' = Cardinality(RunOf(l, m, k1))
    <3>1. m <= n /\ k1 = n + 1 /\ \A i \in 1..n : l[i] = h[i]
      BY <2>1, <2>8, <2>7
    <3>2. CASE g
      <4>1. l[k1].good
        BY <2>8, <3>2
      <4>2. /\ Cardinality(Goods(l, m, k1)) = Cardinality(Goods(h, m, n)) + 1
            /\ Cardinality(Bads(l, m, k1)) = Cardinality(Bads(h, m, n))
            /\ Cardinality(RunOf(l, m, k1)) = 0
        BY <3>1, <4>1, ExtendedGood
      <4> QED  BY <2>3, <2>4, <3>2, <4>2
    <3>3. CASE ~g
      <4>1. ~l[k1].good
        BY <2>8, <3>3
      <4>2. /\ Cardinality(Goods(l, m, k1)) = Cardinality(Goods(h, m, n))
            /\ Cardinality(Bads(l, m, k1)) = Cardinality(Bads(h, m, n)) + 1
            /\ Cardinality(RunOf(l, m, k1)) = Cardinality(RunOf(h, m, n)) + 1
        BY <3>1, <4>1, ExtendedBad
      <4> QED  BY <2>3, <2>4, <3>3, <4>2
    <3> QED  BY <3>2, <3>3
  <2> QED  BY <2>4, <2>5, <2>8, <2>9, <2>7 DEF CountersFollowLog, Streak, Goods, Bads, RunOf
<1>4. ASSUME NEW x \in Resetters, ResetStats(x)
      PROVE  CountersFollowLog'
  <2>1. /\ ok' = 0 /\ bad' = 0 /\ streak' = 0
        /\ log' = log /\ resetAt' = Len(log)
    BY <1>4 DEF ResetStats
  <2>2. Len(log) + 1 .. Len(log) = {}
    BY <1>1
  <2>3. \A A : A \subseteq {} => Cardinality(A) = 0
    BY FS_EmptySet
  <2>4. /\ Cardinality({i \in Len(log) + 1 .. Len(log) : log[i].good}) = 0
        /\ Cardinality({i \in Len(log) + 1 .. Len(log) : ~log[i].good}) = 0
        /\ Cardinality({j \in Len(log) + 1 .. Len(log) :
                          \A k \in j .. Len(log) : ~log[k].good}) = 0
    BY <2>2, <2>3
  <2> QED  BY <2>1, <2>4 DEF CountersFollowLog, Streak
<1>5. ASSUME NEW x \in Resetters, ResetHistory(x)
      PROVE  CountersFollowLog'
  BY <1>2, <1>5 DEF ResetHistory
<1>6. CASE Quiet
  BY <1>2, <1>6, QuietIs
<1>7. CASE Tick \/ Interrupt \/ Details \/ Finalize \/ Exited \/ UNCHANGED vars
  BY <1>2, <1>7 DEF Tick, Interrupt, Details, Finalize, Exited, vars
<1> QED  BY <1>3, <1>4, <1>5, <1>6, <1>7 DEF Next, Probe, Iteration, Quiet, Reset
-----------------------------------------------------------------------------
LEMMA SpecIInv == Spec => []IInv
<1>1. IInv /\ [Next]_vars => IInv'
  BY TypeStep, OutageStep, QuitStep, StreakStep, CountersStep DEF IInv
<1> QED  BY InitIInv, <1>1, PTL DEF Spec

(* Every variable of the prober keeps its type, whatever the options and   *)
(* wherever interrupts and resets fall (Probe, finalizeStatistics).        *)
THEOREM TypeCorrect == Spec => []TypeOK
<1>1. IInv => TypeOK
  BY DEF IInv
<1> QED  BY SpecIInv, <1>1, PTL

(* No second is counted into two outages: the downtime fits in the time    *)
(* that has passed (Probe, finalizeStatistics).                            *)
THEOREM DowntimeCorrect == Spec => []DowntimeFits
<1>1. IInv => DowntimeFits
  BY DEF IInv, OutageInv, DowntimeFits
<1> QED  BY SpecIInv, <1>1, PTL

(* The counters and the streak are those of the probes since the last      *)
(* reset (RecordSuccess, the failure section of Probe, Statistics.Reset).  *)
THEOREM CountersCorrect == Spec => []CountersFollowLog
<1>1. IInv => CountersFollowLog
  BY DEF IInv
<1> QED  BY SpecIInv, <1>1, PTL

(* The prober never goes on after --max-consecutive-fails failures in a    *)
(* row since the last reset, although it reads the streak without the lock.*)
THEOREM StopsCorrect == Spec => []StopsInTime
<1>1. IInv => StopsInTime
  BY DEF IInv, StreakInv, CountersFollowLog, StopsInTime
<1> QED  BY SpecIInv, <1>1, PTL

(* A run with --count makes that many probes and no more.                  *)
THEOREM QuitsCorrect == Spec => []QuitsOnCount
<1>1. IInv => QuitsOnCount
  <2> SUFFICES ASSUME IInv, opts.quit > 0
               PROVE  /\ Len(log) <= opts.quit
                      /\ pc = "done" /\ ~interrupted /\ opts.maxFails = 0
                           => Len(log) = opts.quit
    BY DEF QuitsOnCount
  <2>1. Len(log) \in Nat /\ probeCount \in Nat /\ opts.quit \in Nat
    BY OptsIs DEF IInv, TypeOK
  <2>2. pc \in Probing \/ pc \in Counted \/ pc \in {"finish", "done"}
    BY DEF IInv, TypeOK, PC, Probing, Counted
  <2> QED  BY <2>1, <2>2 DEF IInv, QuitInv, Probing, Counted
<1> QED  BY SpecIInv, <1>1, PTL
-----------------------------------------------------------------------------
LEMMA LedgerStep ==
  ASSUME TypeOK, OutageInv, [Next]_vars
  PROVE  [Ledger!LedgerNext]_(Ledger!ledgerVars)
<1> USE DEF Goto, env, records, counters, outage, uptime, ghosts, loop
<1>1. pingTime \in 0..MaxTime /\ now \in 0..MaxTime
  BY ProberAssumption DEF TypeOK
<1>2. CASE UNCHANGED <<down, startDown, totalDown, longestDown>> /\ (pc' = "done") = (pc = "done")
  BY <1>2 DEF Ledger!ledgerVars
<1>3. CASE CountFailure
  <2>1. CASE down
    BY <1>3, <2>1 DEF CountFailure, Ledger!ledgerVars
  <2>2. CASE ~down
    <3>1. Ledger!Fail(pingTime)
      BY <1>3, <2>2 DEF CountFailure, Ledger!Fail
    <3> QED  BY <1>1, <3>1 DEF Ledger!LedgerNext
  <2> QED  BY <2>1, <2>2
<1>4. CASE Details
  <2>1. CASE down
    <3>1. /\ startDown \in Nat \ {0} /\ startDown <= pingTime
          /\ pingTime - startDown \in Nat /\ Sub(pingTime, startDown) = pingTime - startDown
      BY <1>4, <2>1, TimesAreNat DEF Details, OutageInv, Sub
    <3>2. longestDown' = Ledger!Longer(startDown, pingTime - startDown, longestDown)
      BY <1>4, <2>1, <3>1, LongestIsLonger DEF Details, TypeOK
    <3>3. Ledger!Recover(pingTime)
      BY <1>4, <2>1, <3>1, <3>2 DEF Details, Ledger!Recover, Ledger!Enter
    <3> QED  BY <1>1, <3>3 DEF Ledger!LedgerNext
  <2>2. CASE ~down
    BY <1>2, <1>4, <2>2 DEF Details
  <2> QED  BY <2>1, <2>2
<1>5. CASE Finalize
  <2>1. CASE down
    <3>1. /\ startDown \in Nat \ {0} /\ startDown <= now
          /\ now - startDown \in Nat /\ Sub(now, startDown) = now - startDown
      BY <1>5, <2>1, TimesAreNat DEF Finalize, OutageInv, Sub
    <3>2. longestDown' = Ledger!Longer(startDown, now - startDown, longestDown)
      BY <1>5, <2>1, <3>1, LongestIsLonger DEF Finalize, TypeOK
    <3>3. Ledger!Close(now)
      BY <1>5, <2>1, <3>1, <3>2 DEF Finalize, Ledger!Close, Ledger!Enter
    <3> QED  BY <1>1, <3>3 DEF Ledger!LedgerNext
  <2>2. CASE ~down
    <3>1. Ledger!Close(now)
      BY <1>5, <2>2 DEF Finalize, Ledger!Close
    <3> QED  BY <1>1, <3>1 DEF Ledger!LedgerNext
  <2> QED  BY <2>1, <2>2
<1>6. CASE Quiet
  <2>1. pc # "done" /\ pc' # "done"
    BY <1>6 DEF Quiet, Leave, Begin, Ping, Reping, Returns, Backoff, Reresolve,
                CheckStreak, TakeSnapshot, Broadcast, CountProbe
  <2> QED  BY <1>2, <1>6, <2>1, QuietIs
<1>7. CASE CountSuccess
  BY <1>2, <1>7 DEF CountSuccess
<1>8. CASE Tick \/ Interrupt \/ Exited \/ UNCHANGED vars
  BY <1>2, <1>8 DEF Tick, Interrupt, Exited, vars
<1>9. ASSUME NEW x \in Resetters, Reset(x)
      PROVE  [Ledger!LedgerNext]_(Ledger!ledgerVars)
  BY <1>2, <1>9 DEF Reset, ResetHistory, ResetStats
<1> QED  BY <1>3, <1>4, <1>5, <1>6, <1>7, <1>8, <1>9 DEF Next, Probe, Iteration, Quiet

(* The outage bookkeeping, spread over three critical sections with resets *)
(* in between, implements the ledger, for any run.                         *)
THEOREM LedgerImplemented == Spec => ImplementsLedger
<1>1. Init => Ledger!LedgerInit
  BY DEF Init, Ledger!LedgerInit
<1>2. IInv /\ [Next]_vars => [Ledger!LedgerNext]_(Ledger!ledgerVars)
  BY LedgerStep DEF IInv
<1> QED  BY SpecIInv, <1>1, <1>2, PTL DEF Spec, ImplementsLedger, Ledger!LedgerSpec
-----------------------------------------------------------------------------
(* The events, as long as nobody resets: the one of probe k, and how many  *)
(* of the probes are published at each place of the loop.                  *)
EventOf(k) == [good |-> log[k].good,
               ok |-> Cardinality({i \in 1 .. k : log[i].good}),
               bad |-> Cardinality({i \in 1 .. k : ~log[i].good})]

PlaceInv ==
  /\ pc \in Probing => Len(history) = Len(log)
  /\ pc \in Counted => Len(history) + 1 = Len(log) /\ log[Len(log)].good = (res = "ok")
  /\ pc = "broadcast" => snap = [ok |-> ok, bad |-> bad]

ToldInv ==
  /\ Len(history) <= Len(log)
  /\ \A k \in 1 .. Len(history) : history[k] = EventOf(k)

EventInv == NoReset => resetAt = 0 /\ PlaceInv /\ ToldInv

LEMMA LengthsAreNat ==
  ASSUME TypeOK
  PROVE  Len(log) \in Nat /\ Len(history) \in Nat
  BY DEF TypeOK

(* A probe is counted: the events of those before it stay right.           *)
LEMMA EventsCounted ==
  ASSUME TypeOK, ToldInv, history' = history, Len(log') = Len(log) + 1,
         \A i \in 1 .. Len(log) : log'[i] = log[i]
  PROVE  ToldInv'
<1>1. Len(history') <= Len(log')
  BY LengthsAreNat DEF ToldInv
<1>2. ASSUME NEW k \in 1 .. Len(history)
      PROVE  history[k] = EventOf(k)'
  <2>1. \A i \in 1 .. k : log'[i] = log[i]
    BY LengthsAreNat DEF ToldInv
  <2>2. /\ {i \in 1 .. k : log'[i].good} = {i \in 1 .. k : log[i].good}
        /\ {i \in 1 .. k : ~log'[i].good} = {i \in 1 .. k : ~log[i].good}
    BY <2>1
  <2>3. log'[k] = log[k]
    BY <2>1
  <2>4. EventOf(k)' = EventOf(k)
    BY <2>2, <2>3 DEF EventOf
  <2> QED  BY <2>4 DEF ToldInv
<1> QED  BY <1>1, <1>2 DEF ToldInv

(* The event is the probe that was counted last, with the totals up to it: *)
(* between the two only a reset changes them.                              *)
LEMMA EventIs ==
  ASSUME IInv, resetAt = 0, PlaceInv, Broadcast
  PROVE  /\ history' = Append(history, EventOf(Len(log)))
         /\ Len(history') = Len(log) /\ Len(history) + 1 = Len(log)
         /\ history'[Len(log)] = EventOf(Len(log))
         /\ \A k \in 1 .. Len(history) : history'[k] = history[k]
<1>1. /\ Len(history) + 1 = Len(log) /\ log[Len(log)].good = (res = "ok")
      /\ snap = [ok |-> ok, bad |-> bad]
  BY DEF Broadcast, PlaceInv, Counted
<1>2. /\ ok = Cardinality({i \in 0 + 1 .. Len(log) : log[i].good})
      /\ bad = Cardinality({i \in 0 + 1 .. Len(log) : ~log[i].good})
  BY DEF IInv, CountersFollowLog
<1>3. Event(res = "ok", snap) = EventOf(Len(log))
  BY <1>1, <1>2 DEF Event, EventOf
<1>4. history' = Append(history, EventOf(Len(log)))
  BY <1>3 DEF Broadcast
<1>5. history \in Seq([good : BOOLEAN, ok : Nat, bad : Nat])
      /\ history' \in Seq([good : BOOLEAN, ok : Nat, bad : Nat])
  <2>1. TypeOK /\ TypeOK'
    BY TypeStep DEF IInv, Next, Probe, Iteration
  <2> QED  BY <2>1 DEF TypeOK
<1>6. Len(history') = Len(history) + 1 /\ history'[Len(history) + 1] = EventOf(Len(log))
      /\ \A k \in 1 .. Len(history) : history'[k] = history[k]
  BY <1>4, <1>5
<1> QED  BY <1>1, <1>4, <1>6

LEMMA EventStep ==
  ASSUME IInv, EventInv, [Next]_vars
  PROVE  EventInv'
<1> USE DEF Goto, env, records, counters, outage, uptime, ghosts, loop
<1>1. TypeOK
  BY DEF IInv
<1>2. SUFFICES ASSUME NoReset'  PROVE resetAt' = 0 /\ PlaceInv' /\ ToldInv'
  BY DEF EventInv
<1>3. ASSUME NEW x \in Resetters, Reset(x)
      PROVE  FALSE
  BY <1>1, <1>2, <1>3 DEF Reset, ResetHistory, ResetStats, TypeOK, NoReset
<1>4. ASSUME rpc' = rpc  PROVE NoReset /\ resetAt = 0 /\ PlaceInv /\ ToldInv
  BY <1>2, <1>4 DEF EventInv, NoReset
<1>5. ASSUME UNCHANGED <<log, history>>, ToldInv  PROVE ToldInv'
  BY <1>5 DEF ToldInv, EventOf
<1>6. CASE Tick \/ Interrupt \/ Exited \/ UNCHANGED vars
  <2>1. UNCHANGED <<loop, counters, log, history, rpc, resetAt>>
    BY <1>6 DEF Tick, Interrupt, Exited, vars
  <2> QED  BY <1>4, <1>5, <2>1 DEF PlaceInv
<1>7. CASE Begin \/ Ping \/ Reping \/ Backoff
  <2>1. /\ UNCHANGED <<log, history, rpc, resetAt>>
        /\ pc \in Probing /\ pc' \in Probing
    BY <1>7 DEF Begin, Ping, Reping, Returns, Backoff, Probing
  <2> QED  BY <1>4, <1>5, <2>1 DEF PlaceInv, Probing, Counted
<1>8. CASE Leave \/ Finalize
  <2>1. UNCHANGED <<log, history, rpc, resetAt>> /\ pc' \in {"finish", "done"}
    BY <1>8 DEF Leave, Finalize
  <2> QED  BY <1>4, <1>5, <2>1 DEF PlaceInv, Probing, Counted
<1>9. CASE Reresolve \/ CheckStreak \/ Details
  <2>1. /\ UNCHANGED <<log, history, res, rpc, resetAt>>
        /\ pc \in Counted /\ pc' \in (Counted \cup {"finish"}) \ {"broadcast"}
    BY <1>9 DEF Reresolve, CheckStreak, Details, Counted
  <2> QED  BY <1>4, <1>5, <2>1 DEF PlaceInv, Probing, Counted
<1>10. CASE TakeSnapshot
  <2>1. /\ UNCHANGED <<log, history, res, rpc, resetAt, ok, bad>>
        /\ pc = "event" /\ pc' = "broadcast" /\ snap' = [ok |-> ok, bad |-> bad]
    BY <1>10 DEF TakeSnapshot
  <2> QED  BY <1>4, <1>5, <2>1 DEF PlaceInv, Probing, Counted
<1>11. CASE CountFailure \/ CountSuccess
  <2>1. /\ UNCHANGED <<history, res, rpc, resetAt>>
        /\ pc = "count" /\ pc' \in {"failed", "details"} /\ Logged(res = "ok")
    BY <1>11 DEF CountFailure, CountSuccess
  <2>2. /\ Len(log') = Len(log) + 1 /\ log'[Len(log) + 1].good = (res = "ok")
        /\ \A i \in 1 .. Len(log) : log'[i] = log[i]
    BY <1>1, <2>1, LogIs, TimesAreNat DEF TypeOK
  <2>3. ToldInv' /\ Len(history) = Len(log)
    BY <1>1, <1>4, <2>1, <2>2, EventsCounted DEF PlaceInv, Probing
  <2> QED  BY <1>4, <2>1, <2>2, <2>3 DEF PlaceInv, Probing, Counted
<1>12. CASE Broadcast
  <2>1. UNCHANGED <<log, rpc, resetAt>> /\ pc' \in {"wait", "finish"}
    BY <1>12 DEF Broadcast, CountProbe
  <2>2. /\ Len(history') = Len(log) /\ Len(history) + 1 = Len(log)
        /\ history'[Len(log)] = EventOf(Len(log))
        /\ \A k \in 1 .. Len(history) : history'[k] = history[k]
    BY <1>4, <1>12, <2>1, EventIs
  <2>3. \A k \in 1 .. Len(history') : history'[k] = EventOf(k)
    <3>1. \A k \in 1 .. Len(history') : k \in 1 .. Len(history) \/ k = Len(log)
      BY <1>1, <2>2, LengthsAreNat
    <3> QED  BY <1>4, <2>1, <2>2, <3>1 DEF ToldInv
  <2>4. ToldInv'
    BY <1>1, <2>1, <2>2, <2>3, LengthsAreNat DEF ToldInv, EventOf
  <2> QED  BY <1>4, <2>1, <2>2, <2>4 DEF PlaceInv, Probing, Counted
<1> QED  BY <1>3, <1>6, <1>7, <1>8, <1>9, <1>10, <1>11, <1>12 DEF Next, Probe, Iteration

(* As long as nobody resets, event k has the verdict of probe k and the    *)
(* totals of the first k, however often the probe was retried and wherever *)
(* the interrupt falls (OnProbeResult).                                    *)
THEOREM EventsCorrect == Spec => []EventsMatchProbes
<1>1. Init => EventInv
  <2> SUFFICES ASSUME Init  PROVE PlaceInv /\ ToldInv /\ resetAt = 0
    BY DEF EventInv
  <2>1. Len(log) = 0 /\ Len(history) = 0 /\ pc = "wait" /\ resetAt = 0
    BY DEF Init
  <2> QED  BY <2>1 DEF PlaceInv, ToldInv, Probing, Counted
<1>2. IInv /\ EventInv /\ [Next]_vars => EventInv'
  BY EventStep
<1>3. EventInv => EventsMatchProbes
  BY DEF EventInv, PlaceInv, ToldInv, EventOf, Probing, EventsMatchProbes
<1> QED  BY SpecIInv, <1>1, <1>2, <1>3, PTL DEF Spec
-----------------------------------------------------------------------------
(* Every non-empty set of naturals has a least element: the sets 1 .. n    *)
(* are finite, and inclusion is well-founded on finite sets.               *)
LEMMA LeastNat ==
  ASSUME NEW S \in SUBSET Nat, S # {}
  PROVE  \E m \in S : \A k \in S : m <= k
<1> DEFINE T == {1 .. n : n \in S}
<1>1. T \subseteq FiniteSubsetsOf(Nat) /\ T # {}
  <2>1. ASSUME NEW n \in S  PROVE 1 .. n \in FiniteSubsetsOf(Nat)
    <3>1. n \in Int /\ 1 \in Int /\ 1 .. n \in SUBSET Nat
      OBVIOUS
    <3>2. IsFiniteSet(1 .. n)
      BY <3>1, FS_Interval
    <3> QED  BY <3>1, <3>2 DEF FiniteSubsetsOf
  <2> QED  BY <2>1
<1>2. IsWellFoundedOn(StrictSubsetOrdering(Nat), FiniteSubsetsOf(Nat))
  BY FS_StrictSubsetOrderingWellFounded
<1>3. PICK x \in T : \A y \in T : ~(<<y, x>> \in StrictSubsetOrdering(Nat))
  <2> HIDE DEF T
  <2> QED  BY <1>1, <1>2, WFMin
<1>4. PICK m \in S : x = 1 .. m
  OBVIOUS
<1>5. ASSUME NEW k \in S, ~(m <= k)  PROVE FALSE
  <2>1. 1 .. k \subseteq 1 .. m /\ m \in 1 .. m /\ m \notin 1 .. k
    BY <1>5
  <2>2. <<1 .. k, 1 .. m>> \in StrictSubsetOrdering(Nat)
    BY <2>1, <1>1, <1>4 DEF StrictSubsetOrdering
  <2> QED  BY <2>2, <1>3, <1>4
<1> QED  BY <1>5

LEMMA MinIs ==
  ASSUME NEW S \in SUBSET Nat, S # {}
  PROVE  Min(S) \in S /\ \A k \in S : Min(S) <= k
BY LeastNat DEF Min

LEMMA MaxIs ==
  ASSUME NEW S \in SUBSET Nat, NEW m \in S, \A k \in S : k <= m
  PROVE  m = Max(S)
<1>1. \A x \in S : (\A y \in S : x >= y) => x = m
  OBVIOUS
<1>2. \A y \in S : m >= y
  OBVIOUS
<1> QED  BY <1>1, <1>2 DEF Max

(* The log: its moments are in order, and a success whose second critical  *)
(* section is still to come is at its end.                                 *)
LogInv ==
  /\ \A i \in 1 .. Len(log) : log[i].at >= 1 /\ log[i].at <= pingTime
  /\ \A i, j \in 1 .. Len(log) : i <= j => log[i].at <= log[j].at
  /\ pc = "details" =>
       Len(log) >= 1 /\ log[Len(log)].good /\ log[Len(log)].at = pingTime

(* The outage under way in the log began with probe s.                     *)
Opens(s) ==
  /\ log[s].at = startDown
  /\ s = 1 \/ log[s - 1].good
  /\ \A k \in Settled : k >= s => ~log[k].good

(* The outage that the prober keeps is the one under way in the log.       *)
OpenInv ==
  pc # "done" =>
    /\ down => \E s \in Settled : Opens(s)
    /\ ~down => \A i \in Settled : ~log[i].good => Recoveries(i) # {}

(* OutagesAccounted, with the longest outage as a bound.                   *)
SumInv ==
  /\ totalDown = Cardinality(Downtime)
  /\ \A i \in Outages : Length(i) <= longestDown.length
  /\ longestDown.length > 0 =>
       \E i \in Outages : log[i].at = longestDown.start /\ Length(i) = longestDown.length

AccountInv == LogInv /\ OpenInv /\ SumInv

LEMMA ElementOf ==
  ASSUME NEW S, NEW s \in Seq(S), NEW i \in 1 .. Len(s)
  PROVE  s[i] \in S
OBVIOUS

LEMMA EntryIs ==
  ASSUME TypeOK, NEW i \in 1 .. Len(log)
  PROVE  log[i].at \in Nat /\ log[i].good \in BOOLEAN
<1>1. log[i] \in [at : Nat, good : BOOLEAN]
  BY ElementOf DEF TypeOK
<1> QED  BY <1>1

LEMMA SettledIs ==
  ASSUME TypeOK
  PROVE  /\ Settled \subseteq 1 .. Len(log)
         /\ Settled \subseteq Nat
         /\ \A i \in Settled : \A j \in 1 .. i : j \in Settled
         /\ \A i \in Settled : i # 1 => i - 1 \in Settled
BY LengthsAreNat DEF Settled

LEMMA RecoveryIs ==
  ASSUME TypeOK, NEW i \in Settled, Recoveries(i) # {}
  PROVE  /\ Min(Recoveries(i)) \in Recoveries(i)
         /\ \A k \in Recoveries(i) : Min(Recoveries(i)) <= k
<1>1. Recoveries(i) \in SUBSET Nat
  BY SettledIs DEF Recoveries
<1> QED  BY <1>1, MinIs

(* An outage that is over ends where it says, after it began, and not      *)
(* after one that began later.                                             *)
LEMMA EndIs ==
  ASSUME TypeOK, OutageInv, LogInv, pc # "done", NEW i \in Outages
  PROVE  /\ i \in Settled /\ i \in 1 .. Len(log)
         /\ End(i) \in Nat /\ log[i].at \in Nat /\ log[i].at <= End(i)
         /\ Recoveries(i) # {} /\ End(i) = log[Min(Recoveries(i))].at
         /\ \A s \in Settled : Opens(s) => End(i) <= startDown /\ i # s
<1>1. i \in Settled /\ Recoveries(i) # {}
  BY DEF Outages
<1>2. i \in 1 .. Len(log) /\ Len(log) \in Nat
  BY <1>1, SettledIs, LengthsAreNat
<1> DEFINE r == Min(Recoveries(i))
<1>3. r \in Recoveries(i)
  BY <1>1, RecoveryIs
<1>4. r \in Settled /\ r \in 1 .. Len(log) /\ r > i /\ log[r].good
  BY <1>3, SettledIs DEF Recoveries
<1>5. End(i) = log[r].at
  BY <1>1 DEF End
<1> HIDE DEF r
<1>6. log[i].at \in Nat /\ log[r].at \in Nat
  BY <1>2, <1>4, EntryIs
<1>7. log[i].at <= log[r].at
  BY <1>2, <1>4 DEF LogInv
<1>8. ASSUME NEW s \in Settled, Opens(s)
      PROVE  End(i) <= startDown /\ i # s
  <2>1. s \in 1 .. Len(log) /\ r < s
    BY <1>2, <1>4, <1>8, SettledIs DEF Opens
  <2>2. log[r].at <= log[s].at
    BY <1>2, <1>4, <2>1 DEF LogInv
  <2> QED  BY <1>2, <1>4, <1>5, <1>8, <2>1, <2>2 DEF Opens
<1> QED  BY <1>1, <1>2, <1>5, <1>6, <1>7, <1>8 DEF r

(* A step that settles failures only, or nothing, ends no outage.          *)
LEMMA OutagesKept ==
  ASSUME TypeOK, TypeOK', endTime' = endTime, (pc' = "done") = (pc = "done"),
         Settled \subseteq Settled', pc = "done" => Settled' = Settled,
         \A i \in Settled : log'[i] = log[i],
         \A i \in Settled' \ Settled : ~log'[i].good
  PROVE  /\ \A i \in Settled : Recoveries(i)' = Recoveries(i)
         /\ Outages' = Outages
         /\ \A i \in Outages : End(i)' = End(i) /\ log'[i] = log[i]
<1>1. ASSUME NEW i
      PROVE  Recoveries(i)' = Recoveries(i)
  BY DEF Recoveries
<1>2. ASSUME NEW i \in Settled
      PROVE  (i \in Outages') = (i \in Outages)
  <2>1. i # 1 => log'[i - 1] = log[i - 1]
    BY SettledIs
  <2> QED  BY <1>1, <2>1 DEF Outages
<1>3. ASSUME NEW i \in Settled' \ Settled
      PROVE  Recoveries(i)' = {} /\ pc' # "done"
  <2>1. SUFFICES ASSUME NEW j \in Settled', j > i, log'[j].good  PROVE FALSE
    BY DEF Recoveries
  <2>2. j \in Settled
    BY <2>1
  <2>3. i \in 1 .. j
    <3>1. i \in Nat /\ j \in Nat /\ i >= 1
      <4>1. i \in 1 .. Len(log') /\ j \in 1 .. Len(log') /\ Len(log') \in Nat
        <5>1. Len(log') \in Nat
          BY DEF TypeOK
        <5> QED  BY <1>3, <2>1, <5>1 DEF Settled
      <4> QED  BY <4>1
    <3> QED  BY <2>1, <3>1
  <2> QED  BY <1>3, <2>2, <2>3, SettledIs
<1>4. Outages' = Outages
  BY <1>2, <1>3 DEF Outages
<1>5. ASSUME NEW i \in Outages
      PROVE  End(i)' = End(i) /\ log'[i] = log[i]
  <2>1. i \in Settled
    BY DEF Outages
  <2>2. Recoveries(i) # {} => log'[Min(Recoveries(i))] = log[Min(Recoveries(i))]
    BY <2>1, RecoveryIs DEF Recoveries
  <2> QED  BY <1>1, <2>1, <2>2 DEF End
<1> QED  BY <1>1, <1>4, <1>5

LEMMA SumKept ==
  ASSUME SumInv, Outages' = Outages, UNCHANGED <<totalDown, longestDown>>,
         \A i \in Outages : End(i)' = End(i) /\ log'[i] = log[i]
  PROVE  SumInv'
<1>1. Downtime' = Downtime
  BY DEF Downtime
<1>2. \A i \in Outages : Length(i)' = Length(i)
  BY DEF Length
<1> QED  BY <1>1, <1>2 DEF SumInv

(* The outage that began with probe s ends at moment e.                    *)
LEMMA SumAdded ==
  ASSUME TypeOK, OutageInv, LogInv, SumInv, pc # "done", down,
         NEW s \in Settled, Opens(s), NEW e \in Nat, startDown <= e,
         log' = log, Outages' = Outages \cup {s}, End(s)' = e,
         \A i \in Outages : End(i)' = End(i),
         totalDown' = totalDown + (e - startDown),
         longestDown' = SetLongestDuration(startDown, e - startDown, longestDown)
  PROVE  SumInv'
<1>1. startDown \in Nat /\ startDown >= 1 /\ log[s].at = startDown
      /\ e - startDown \in Nat
  BY TimesAreNat DEF OutageInv, Opens
<1> DEFINE new == startDown .. e - 1
<1>2. IsFiniteSet(new) /\ Cardinality(new) = e - startDown
  <2>1. startDown \in Int /\ e - 1 \in Int
    BY <1>1
  <2>2. IsFiniteSet(new) /\ Cardinality(new) = IF startDown > e - 1 THEN 0 ELSE (e - 1) - startDown + 1
    BY <2>1, FS_Interval, Zenon
  <2> QED  BY <1>1, <2>2
<1>3. \A i \in Outages : /\ End(i) \in Nat /\ log[i].at \in Nat
                         /\ log[i].at <= End(i) /\ End(i) <= startDown
  BY EndIs
<1>4. Downtime' = Downtime \cup new
  BY <1>1 DEF Downtime
<1>5. \A t \in Downtime : t < startDown /\ t \in 0 .. startDown
  BY <1>1, <1>3 DEF Downtime
<1>6. Downtime \cap new = {}
  BY <1>1, <1>5
<1>7. IsFiniteSet(Downtime)
  <2>1. IsFiniteSet(0 .. startDown)
    BY <1>1, FS_Interval
  <2> QED  BY <1>5, <2>1, FS_Subset
<1>8. Cardinality(Downtime') = totalDown'
  <2>1. Cardinality(Downtime \cup new)
          = Cardinality(Downtime) + Cardinality(new) - Cardinality(Downtime \cap new)
    BY <1>2, <1>7, FS_Union
  <2>2. Cardinality(Downtime \cap new) = 0
    BY <1>6, FS_EmptySet
  <2> QED  BY <1>1, <1>2, <1>4, <2>1, <2>2, TimesAreNat DEF SumInv
<1>9. Length(s)' = e - startDown /\ log'[s].at = startDown
  BY <1>1 DEF Length
<1>10. \A i \in Outages : Length(i)' = Length(i) /\ Length(i) \in Nat /\ log'[i] = log[i]
  BY <1>3 DEF Length
<1>11. longestDown \in [start : Nat, length : Nat]
  BY DEF TypeOK
<1>12. \/ /\ longestDown' = [start |-> startDown, length |-> e - startDown]
          /\ longestDown.length <= e - startDown
       \/ /\ longestDown' = longestDown
          /\ e - startDown <= longestDown.length
  BY <1>1, <1>11 DEF SetLongestDuration
<1>13. \A i \in Outages' : Length(i)' <= longestDown'.length
  BY <1>1, <1>9, <1>10, <1>11, <1>12 DEF SumInv
<1>14. longestDown'.length > 0 =>
         \E i \in Outages' : log'[i].at = longestDown'.start
                             /\ Length(i)' = longestDown'.length
  BY <1>1, <1>9, <1>10, <1>11, <1>12 DEF SumInv
<1> QED  BY <1>8, <1>13, <1>14 DEF SumInv

LEMMA InitAccount == Init => AccountInv
<1> SUFFICES ASSUME Init  PROVE AccountInv
  OBVIOUS
<1>1. Settled = {} /\ Outages = {} /\ Downtime = {}
  BY DEF Init, Settled, Outages, Downtime
<1>2. LogInv
  BY DEF Init, LogInv
<1>3. OpenInv
  BY <1>1 DEF Init, OpenInv
<1>4. SumInv
  BY <1>1, FS_EmptySet DEF Init, SumInv
<1> QED  BY <1>2, <1>3, <1>4 DEF AccountInv

LEMMA LogStep ==
  ASSUME TypeOK, OutageInv, LogInv, [Next]_vars
  PROVE  LogInv'
<1> USE DEF Goto, env, records, counters, outage, uptime, ghosts, loop
<1>1. Len(log) \in Nat /\ pingTime \in Nat /\ now \in Nat
  BY LengthsAreNat, TimesAreNat
<1>2. CASE UNCHANGED <<log, pingTime>> /\ pc' # "details"
  BY <1>2 DEF LogInv
<1>3. CASE UNCHANGED <<log, pingTime, pc>>
  BY <1>3 DEF LogInv
<1>4. CASE Begin
  <2>1. log' = log /\ pingTime' = now /\ pingTime <= now /\ pc' = "ping"
    BY <1>4 DEF Begin, OutageInv
  <2>2. \A i \in 1 .. Len(log) : log[i].at \in Nat
    BY EntryIs
  <2> QED  BY <1>1, <2>1, <2>2 DEF LogInv
<1>5. CASE CountFailure \/ CountSuccess
  <2>1. PICK good \in BOOLEAN : Logged(good) /\ (pc' = "details" => good)
    BY <1>5 DEF CountFailure, CountSuccess
  <2>2. pingTime' = pingTime /\ pingTime >= 1
    BY <1>5 DEF CountFailure, CountSuccess, OutageInv
  <2>3. /\ Len(log') = Len(log) + 1
        /\ log'[Len(log) + 1] = [at |-> pingTime, good |-> good]
        /\ \A i \in 1 .. Len(log) : log'[i] = log[i]
    BY <1>1, <2>1 DEF Logged, TypeOK
  <2>4. \A i \in 1 .. Len(log) : log[i].at \in Nat
    BY EntryIs
  <2>5. \A i \in 1 .. Len(log') : i \in 1 .. Len(log) \/ i = Len(log) + 1
    BY <1>1, <2>3
  <2>6. \A i \in 1 .. Len(log') : log'[i].at >= 1 /\ log'[i].at <= pingTime
    BY <1>1, <2>2, <2>3, <2>5 DEF LogInv
  <2>7. \A i, j \in 1 .. Len(log') : i <= j => log'[i].at <= log'[j].at
    <3>1. SUFFICES ASSUME NEW i \in 1 .. Len(log'), NEW j \in 1 .. Len(log'), i <= j
                   PROVE  log'[i].at <= log'[j].at
      OBVIOUS
    <3>2. CASE j \in 1 .. Len(log)
      <4>1. i \in 1 .. Len(log)
        BY <1>1, <2>5, <3>1, <3>2
      <4> QED  BY <2>3, <3>1, <3>2, <4>1 DEF LogInv
    <3>3. CASE j = Len(log) + 1
      <4>1. log'[j].at = pingTime
        BY <2>3, <3>3
      <4> QED  BY <2>6, <4>1
    <3> QED  BY <2>5, <3>2, <3>3
  <2>8. pc' = "details" => /\ Len(log') >= 1 /\ log'[Len(log')].good
                           /\ log'[Len(log')].at = pingTime'
    BY <1>1, <2>1, <2>2, <2>3
  <2> QED  BY <2>2, <2>6, <2>7, <2>8 DEF LogInv
<1>6. CASE Tick \/ Interrupt \/ Exited \/ UNCHANGED vars
  BY <1>3, <1>6 DEF Tick, Interrupt, Exited, vars
<1>7. ASSUME NEW x \in Resetters, Reset(x)
      PROVE  LogInv'
  BY <1>3, <1>7 DEF Reset, ResetHistory, ResetStats
<1>8. CASE Leave \/ Ping \/ Reping \/ Backoff \/ Reresolve \/ CheckStreak
  BY <1>2, <1>8 DEF Leave, Ping, Reping, Returns, Backoff, Reresolve, CheckStreak
<1>9. CASE TakeSnapshot \/ Broadcast \/ Details \/ Finalize
  BY <1>2, <1>9 DEF TakeSnapshot, Broadcast, CountProbe, Details, Finalize
<1> QED  BY <1>4, <1>5, <1>6, <1>7, <1>8, <1>9 DEF Next, Probe, Iteration

(* A step that leaves the outage and what is settled of the log alone.     *)
LEMMA AccountKept ==
  ASSUME TypeOK, TypeOK', OpenInv, SumInv, UNCHANGED <<outage, endTime>>,
         (pc' = "done") = (pc = "done"), Settled' = Settled,
         \A i \in Settled : log'[i] = log[i]
  PROVE  OpenInv' /\ SumInv'
<1>1. /\ \A i \in Settled : Recoveries(i)' = Recoveries(i)
      /\ Outages' = Outages
      /\ \A i \in Outages : End(i)' = End(i) /\ log'[i] = log[i]
  BY OutagesKept DEF outage
<1>2. SumInv'
  BY <1>1, SumKept DEF outage
<1>3. \A s \in Settled : Opens(s) => Opens(s)'
  BY SettledIs DEF Opens, outage
<1>4. OpenInv'
  BY <1>1, <1>3 DEF OpenInv, outage
<1> QED  BY <1>2, <1>4

(* A failure settles itself and opens an outage if none is under way.      *)
LEMMA FailureAccount ==
  ASSUME TypeOK, TypeOK', OpenInv, SumInv, CountFailure
  PROVE  OpenInv' /\ SumInv'
<1> USE DEF Goto, outage
<1> DEFINE n == Len(log) + 1
<1>1. /\ pc = "count" /\ pc' = "failed" /\ UNCHANGED <<totalDown, longestDown, endTime>>
      /\ down' = TRUE /\ startDown' = (IF down THEN startDown ELSE pingTime)
      /\ Logged(FALSE)
  BY DEF CountFailure
<1>2. /\ Len(log) \in Nat /\ Len(log') = n /\ log'[n] = [at |-> pingTime, good |-> FALSE]
      /\ \A i \in 1 .. Len(log) : log'[i] = log[i]
  <2>1. pingTime \in Nat /\ log \in Seq([at : Nat, good : BOOLEAN])
    BY TimesAreNat DEF TypeOK
  <2> QED  BY <1>1, <2>1 DEF Logged
<1>3. Settled = 1 .. Len(log) /\ Settled' = 1 .. n
  BY <1>1, <1>2 DEF Settled
<1>4. /\ Settled \subseteq Settled' /\ \A i \in Settled' \ Settled : ~log'[i].good
      /\ \A i \in Settled : log'[i] = log[i]
  BY <1>2, <1>3
<1>5. /\ Outages' = Outages
      /\ \A i \in Outages : End(i)' = End(i) /\ log'[i] = log[i]
  BY <1>1, <1>4, OutagesKept
<1>6. SumInv'
  BY <1>1, <1>5, SumKept
<1>7. \E s \in Settled' : Opens(s)'
  <2>1. CASE down
    <3>1. PICK s \in Settled : Opens(s)
      BY <1>1, <2>1 DEF OpenInv
    <3>2. log'[s] = log[s] /\ (s # 1 => log'[s - 1] = log[s - 1])
      BY <1>4, SettledIs
    <3>3. \A k \in Settled' : k >= s => ~log'[k].good
      BY <1>4, <3>1 DEF Opens
    <3> QED  BY <1>1, <1>4, <2>1, <3>1, <3>2, <3>3 DEF Opens
  <2>2. CASE ~down
    <3>1. n = 1 \/ log'[n - 1].good
      <4>1. SUFFICES ASSUME n # 1, ~log'[n - 1].good  PROVE FALSE
        OBVIOUS
      <4>2. n - 1 \in Settled /\ ~log[n - 1].good
        BY <1>2, <1>3, <4>1
      <4>3. Recoveries(n - 1) # {}
        BY <1>1, <2>2, <4>2 DEF OpenInv
      <4> QED  BY <1>2, <1>3, <4>3 DEF Recoveries
    <3>2. log'[n].at = startDown' /\ n \in Settled'
      BY <1>1, <1>2, <1>3, <2>2
    <3>3. \A k \in Settled' : k >= n => ~log'[k].good
      BY <1>2, <1>3
    <3> HIDE DEF n
    <3> QED  BY <3>1, <3>2, <3>3 DEF Opens
  <2> QED  BY <2>1, <2>2
<1>8. OpenInv'
  BY <1>1, <1>7 DEF OpenInv
<1> QED  BY <1>6, <1>8

(* No probe that is settled has ended the outage under way, and no other   *)
(* outage lasts.                                                           *)
LEMMA OpenedByFailure ==
  ASSUME TypeOK, NEW s \in Settled, Opens(s)
  PROVE  Recoveries(s) = {} /\ ~log[s].good /\ (s = 1 \/ log[s - 1].good)
<1>1. \A i \in Settled : i \in Nat
  BY SettledIs
<1> QED  BY <1>1 DEF Opens, Recoveries

LEMMA OnlyOneOpen ==
  ASSUME TypeOK, NEW s \in Settled, Opens(s), NEW i \in Settled, ~log[i].good,
         i = 1 \/ log[i - 1].good, Recoveries(i) = {}
  PROVE  i = s
<1>1. \A k \in Settled : k \in Nat /\ (k # 1 => k - 1 \in Settled)
  BY SettledIs
<1>2. ~(i < s)
  <2>1. SUFFICES ASSUME i < s  PROVE FALSE
    OBVIOUS
  <2>2. s # 1 /\ s - 1 \in Settled /\ log[s - 1].good
    <3>1. i >= 1
      BY LengthsAreNat DEF Settled
    <3> QED  BY <1>1, <2>1, <3>1 DEF Opens
  <2>3. s - 1 # i /\ s - 1 > i
    BY <1>1, <2>1, <2>2
  <2> QED  BY <2>2, <2>3 DEF Recoveries
<1>3. ~(s < i)
  <2>1. SUFFICES ASSUME s < i  PROVE FALSE
    OBVIOUS
  <2>2. i # 1 /\ i - 1 \in Settled /\ i - 1 >= s /\ log[i - 1].good
    <3>1. s >= 1
      BY LengthsAreNat DEF Settled
    <3> QED  BY <1>1, <2>1, <3>1
  <2> QED  BY <2>2 DEF Opens
<1> QED  BY <1>1, <1>2, <1>3

(* The second critical section of a success settles it: the outage under   *)
(* way ends with it, and no other.                                         *)
LEMMA DetailsAccount ==
  ASSUME TypeOK, TypeOK', OutageInv, LogInv, OpenInv, SumInv, Details
  PROVE  OpenInv' /\ SumInv'
<1> USE DEF Goto, outage, ghosts, counters, env
<1> DEFINE n == Len(log)
<1>1. /\ pc = "details" /\ pc' = "event" /\ UNCHANGED <<log, endTime, pingTime>>
      /\ n \in Nat /\ n >= 1 /\ log[n].good /\ log[n].at = pingTime
  BY LengthsAreNat DEF Details, LogInv
<1>2. Settled = 1 .. n - 1 /\ Settled' = 1 .. n
  BY <1>1 DEF Settled
<1> HIDE DEF n
<1>3. \A i \in Settled : Recoveries(i)' = Recoveries(i) \cup {n}
  BY <1>1, <1>2 DEF Recoveries
<1>4. \A i \in Settled : i \in Nat /\ i < n
  BY <1>1, <1>2
<1>5. ASSUME NEW i \in Settled, Recoveries(i) # {}
      PROVE  End(i)' = End(i)
  <2>1. /\ Min(Recoveries(i)) \in Recoveries(i)
        /\ \A k \in Recoveries(i) : Min(Recoveries(i)) <= k
    BY <1>5, RecoveryIs
  <2>2. Min(Recoveries(i)) \in Nat /\ Min(Recoveries(i)) < n
    BY <1>4, <2>1 DEF Recoveries
  <2>3. Recoveries(i)' \in SUBSET Nat
    BY <1>1, <1>3, <1>4 DEF Recoveries
  <2>4. Min(Recoveries(i)') = Min(Recoveries(i))
    <3>1. /\ Min(Recoveries(i)') \in Recoveries(i)'
          /\ \A k \in Recoveries(i)' : Min(Recoveries(i)') <= k
      BY <1>3, <2>3, MinIs
    <3> QED  BY <1>1, <1>3, <2>1, <2>2, <2>3, <3>1
  <2> QED  BY <1>1, <1>3, <1>5, <2>4 DEF End
<1>6. ASSUME NEW i \in Settled, Recoveries(i) = {}
      PROVE  End(i)' = pingTime
  <2>1. Recoveries(i)' = {n} /\ {n} \in SUBSET Nat /\ {n} # {}
    BY <1>1, <1>3, <1>6
  <2>2. Min({n}) = n
    BY <2>1, MinIs
  <2> QED  BY <1>1, <2>1, <2>2 DEF End
<1>7. Outages' = {i \in Settled : ~log[i].good /\ (i = 1 \/ log[i - 1].good)}
  BY <1>1, <1>2, <1>3, <1>4 DEF Outages
<1>8. Outages = {i \in Settled : /\ ~log[i].good /\ (i = 1 \/ log[i - 1].good)
                                 /\ Recoveries(i) # {}}
  BY <1>1 DEF Outages
<1>9. \A i \in Outages : End(i)' = End(i)
  BY <1>5, <1>8
<1>10. OpenInv'
  <2>1. down' = FALSE
    BY DEF Details
  <2>2. ASSUME NEW i \in Settled', ~log'[i].good  PROVE Recoveries(i)' # {}
    <3>1. i \in Settled
      BY <1>1, <1>2, <2>2
    <3> QED  BY <1>3, <3>1
  <2> QED  BY <1>1, <2>1, <2>2 DEF OpenInv
<1>11. CASE down
  <2>1. PICK s \in Settled : Opens(s)
    BY <1>1, <1>11 DEF OpenInv
  <2>2. Recoveries(s) = {} /\ ~log[s].good /\ (s = 1 \/ log[s - 1].good)
    BY <2>1, OpenedByFailure
  <2>3. ASSUME NEW i \in Settled, ~log[i].good, i = 1 \/ log[i - 1].good, Recoveries(i) = {}
        PROVE  i = s
    BY <2>1, <2>3, OnlyOneOpen
  <2>4. Outages' = Outages \cup {s}
    BY <1>7, <1>8, <2>2, <2>3
  <2>5. End(s)' = pingTime
    BY <1>6, <2>2
  <2>6. /\ startDown \in Nat \ {0} /\ startDown <= pingTime /\ pingTime \in Nat
        /\ Sub(pingTime, startDown) = pingTime - startDown
    BY <1>1, <1>11, TimesAreNat DEF OutageInv, Sub
  <2>7. /\ totalDown' = totalDown + (pingTime - startDown)
        /\ longestDown' = SetLongestDuration(startDown, pingTime - startDown, longestDown)
    BY <1>11, <2>6 DEF Details
  <2>8. SumInv'
    BY <1>1, <1>9, <1>11, <2>1, <2>4, <2>5, <2>6, <2>7, SumAdded
  <2> QED  BY <1>10, <2>8
<1>12. CASE ~down
  <2>1. Outages' = Outages
    BY <1>1, <1>7, <1>8, <1>12 DEF OpenInv
  <2>2. UNCHANGED <<totalDown, longestDown>>
    BY <1>12 DEF Details
  <2>3. SumInv'
    BY <1>1, <1>9, <2>1, <2>2, SumKept
  <2> QED  BY <1>10, <2>3
<1> QED  BY <1>11, <1>12

(* The end of the run ends the outage under way, and no other.             *)
LEMMA FinalizeAccount ==
  ASSUME TypeOK, TypeOK', OutageInv, LogInv, OpenInv, SumInv, Finalize
  PROVE  OpenInv' /\ SumInv'
<1> USE DEF Goto, outage, ghosts, counters, env
<1>1. pc = "finish" /\ pc' = "done" /\ log' = log /\ endTime' = now
  BY DEF Finalize
<1>2. /\ Settled = 1 .. Len(log) /\ Settled' = Settled /\ Len(log) \in Nat
      /\ \A i \in Settled : i \in Nat
  BY <1>1, LengthsAreNat DEF Settled
<1>3. \A i \in Settled : Recoveries(i)' = Recoveries(i)
  BY <1>1, <1>2 DEF Recoveries
<1>4. Outages' = {i \in Settled : ~log[i].good /\ (i = 1 \/ log[i - 1].good)}
  BY <1>1, <1>2 DEF Outages
<1>5. Outages = {i \in Settled : /\ ~log[i].good /\ (i = 1 \/ log[i - 1].good)
                                 /\ Recoveries(i) # {}}
  BY <1>1 DEF Outages
<1>6. \A i \in Outages : End(i)' = End(i)
  BY <1>1, <1>3, <1>5 DEF End
<1>7. OpenInv'
  BY <1>1 DEF OpenInv
<1>8. CASE down
  <2>1. PICK s \in Settled : Opens(s)
    BY <1>1, <1>8 DEF OpenInv
  <2>2. Recoveries(s) = {} /\ ~log[s].good /\ (s = 1 \/ log[s - 1].good)
    BY <2>1, OpenedByFailure
  <2>3. ASSUME NEW i \in Settled, ~log[i].good, i = 1 \/ log[i - 1].good, Recoveries(i) = {}
        PROVE  i = s
    <3>1. ~(i < s)
      <4>1. SUFFICES ASSUME i < s  PROVE FALSE
        OBVIOUS
      <4>2. s # 1 /\ s - 1 \in Settled /\ log[s - 1].good
        BY <1>2, <2>2, <4>1
      <4>3. s - 1 # i /\ s - 1 > i
        BY <1>2, <2>3, <4>1, <4>2
      <4> QED  BY <2>3, <4>2, <4>3 DEF Recoveries
    <3>2. ~(s < i)
      <4>1. SUFFICES ASSUME s < i  PROVE FALSE
        OBVIOUS
      <4>2. i # 1 /\ i - 1 \in Settled /\ i - 1 >= s /\ log[i - 1].good
        BY <1>2, <2>3, <4>1
      <4> QED  BY <2>1, <4>2 DEF Opens
    <3> QED  BY <1>2, <3>1, <3>2
  <2>4. Outages' = Outages \cup {s}
    BY <1>4, <1>5, <2>2, <2>3
  <2>5. End(s)' = now
    BY <1>1, <1>3, <2>2 DEF End
  <2>6. /\ startDown \in Nat \ {0} /\ startDown <= now /\ now \in Nat
        /\ Sub(now, startDown) = now - startDown
    BY <1>1, <1>8, TimesAreNat DEF OutageInv, Sub
  <2>7. /\ totalDown' = totalDown + (now - startDown)
        /\ longestDown' = SetLongestDuration(startDown, now - startDown, longestDown)
    BY <1>8, <2>6 DEF Finalize
  <2>8. SumInv'
    BY <1>1, <1>6, <1>8, <2>1, <2>4, <2>5, <2>6, <2>7, SumAdded
  <2> QED  BY <1>7, <2>8
<1>9. CASE ~down
  <2>1. Outages' = Outages
    BY <1>1, <1>4, <1>5, <1>9 DEF OpenInv
  <2>2. UNCHANGED <<totalDown, longestDown>>
    BY <1>9 DEF Finalize
  <2>3. SumInv'
    BY <1>1, <1>6, <2>1, <2>2, SumKept
  <2> QED  BY <1>7, <2>3
<1> QED  BY <1>8, <1>9

LEMMA AccountStep ==
  ASSUME TypeOK, TypeOK', OutageInv, AccountInv, [Next]_vars
  PROVE  AccountInv'
<1> USE DEF Goto, env, records, counters, outage, uptime, ghosts, loop
<1>1. LogInv /\ OpenInv /\ SumInv /\ LogInv'
  BY LogStep DEF AccountInv
<1> SUFFICES OpenInv' /\ SumInv'
  BY <1>1 DEF AccountInv
<1>2. CASE UNCHANGED <<log, outage, endTime>> /\ (pc' = "done") = (pc = "done")
           /\ (pc' = "details") = (pc = "details")
  <2>1. Settled' = Settled
    BY <1>2 DEF Settled
  <2> QED  BY <1>1, <1>2, <2>1, AccountKept
<1>3. CASE CountFailure
  BY <1>1, <1>3, FailureAccount
<1>4. CASE CountSuccess
  <2>1. /\ pc = "count" /\ pc' = "details" /\ UNCHANGED <<outage, endTime>> /\ Logged(TRUE)
    BY <1>4 DEF CountSuccess
  <2>2. /\ Len(log) \in Nat /\ Len(log') = Len(log) + 1
        /\ \A i \in 1 .. Len(log) : log'[i] = log[i]
    <3>1. pingTime \in Nat /\ log \in Seq([at : Nat, good : BOOLEAN])
      BY TimesAreNat DEF TypeOK
    <3> QED  BY <2>1, <3>1, LogIs, LengthsAreNat
  <2>3. Settled = 1 .. Len(log) /\ Settled' = Settled
    BY <2>1, <2>2 DEF Settled
  <2> QED  BY <1>1, <2>1, <2>2, <2>3, AccountKept
<1>5. CASE Details
  BY <1>1, <1>5, DetailsAccount
<1>6. CASE Finalize
  BY <1>1, <1>6, FinalizeAccount
<1>7. CASE Quiet
  <2>1. pc \notin {"details", "done"} /\ pc' \notin {"details", "done"}
    BY <1>7 DEF Quiet, Leave, Begin, Ping, Reping, Returns, Backoff, Reresolve,
                CheckStreak, TakeSnapshot, Broadcast, CountProbe
  <2> QED  BY <1>2, <1>7, <2>1, QuietIs
<1>8. CASE Tick \/ Interrupt \/ Exited \/ UNCHANGED vars
  BY <1>2, <1>8 DEF Tick, Interrupt, Exited, vars
<1>9. ASSUME NEW x \in Resetters, Reset(x)
      PROVE  OpenInv' /\ SumInv'
  BY <1>2, <1>9 DEF Reset, ResetHistory, ResetStats
<1> QED  BY <1>3, <1>4, <1>5, <1>6, <1>7, <1>8, <1>9 DEF Next, Probe, Iteration, Quiet

(* The outages that are over have a length, so the longest is their        *)
(* maximum.                                                                *)
LEMMA AccountIsRight ==
  ASSUME TypeOK, OutageInv, AccountInv, pc = "done" => endTime >= pingTime
  PROVE  OutagesAccounted
<1> USE DEF AccountInv
<1>1. \A i \in Outages : Length(i) \in Nat
  <2>1. SUFFICES ASSUME NEW i \in Outages  PROVE log[i].at \in Nat /\ End(i) \in Nat
                                                 /\ log[i].at <= End(i)
    BY DEF Length
  <2>2. i \in Settled /\ i \in 1 .. Len(log)
    BY SettledIs DEF Outages
  <2>3. log[i].at \in Nat /\ log[i].at <= pingTime
    BY <2>2, EntryIs DEF LogInv
  <2>4. CASE Recoveries(i) = {}
    <3>1. pc = "done" /\ End(i) = endTime
      BY <2>4 DEF Outages, End
    <3> QED  BY <2>3, <3>1, TimesAreNat
  <2>5. CASE Recoveries(i) # {}
    <3> DEFINE r == Min(Recoveries(i))
    <3>1. r \in Settled /\ r > i /\ End(i) = log[r].at
      BY <2>2, <2>5, RecoveryIs DEF Recoveries, End
    <3> HIDE DEF r
    <3>2. r \in 1 .. Len(log) /\ Len(log) \in Nat
      BY <3>1, SettledIs, LengthsAreNat
    <3>3. log[r].at \in Nat
      BY <3>2, EntryIs
    <3>4. log[i].at <= log[r].at
      BY <2>2, <3>1, <3>2 DEF LogInv
    <3> QED  BY <2>3, <3>1, <3>3, <3>4
  <2> QED  BY <2>4, <2>5
<1>2. longestDown.length \in Nat
  BY DEF TypeOK
<1> DEFINE Lengths == {0} \cup {Length(i) : i \in Outages}
<1>3. Lengths \in SUBSET Nat
  BY <1>1
<1>4. longestDown.length \in Lengths
  BY <1>2 DEF SumInv
<1>5. \A k \in Lengths : k <= longestDown.length
  BY <1>2 DEF SumInv
<1>6. longestDown.length = Max(Lengths)
  <2> HIDE DEF Lengths
  <2> QED  BY <1>3, <1>4, <1>5, MaxIs
<1> QED  BY <1>6 DEF SumInv, OutagesAccounted

(* The downtime and the longest outage are those of the log: each moment   *)
(* of each outage is counted once, over its three critical sections, for   *)
(* any options, length of the run, resets and interrupt (Probe,            *)
(* finalizeStatistics, SetLongestDuration).                                *)
THEOREM OutagesCorrect == Spec => []OutagesAccounted
<1> DEFINE Closed == pc = "done" => endTime >= pingTime
<1>1. Init => AccountInv /\ Closed
  BY InitAccount DEF Init
<1>2. IInv /\ IInv' /\ AccountInv /\ Closed /\ [Next]_vars => AccountInv' /\ Closed'
  <2>1. ASSUME IInv, Closed, [Next]_vars  PROVE Closed'
    <3> USE DEF Goto, env, records, counters, outage, uptime, ghosts, loop
    <3>1. CASE Finalize
      BY <2>1, <3>1 DEF Finalize, IInv, OutageInv
    <3>2. CASE UNCHANGED <<pc, endTime, pingTime>>
      BY <2>1, <3>2
    <3>3. CASE Tick \/ Interrupt \/ Exited \/ UNCHANGED vars
      BY <3>2, <3>3 DEF Tick, Interrupt, Exited, vars
    <3>4. ASSUME NEW x \in Resetters, Reset(x)  PROVE Closed'
      BY <3>2, <3>4 DEF Reset, ResetHistory, ResetStats
    <3>5. CASE Leave \/ Iteration
      <4>1. pc' # "done"
        BY <3>5 DEF Iteration, Leave, Begin, Ping, Reping, Returns, Backoff, CountFailure,
                    Reresolve, CheckStreak, CountSuccess, Details, TakeSnapshot, Broadcast,
                    CountProbe
      <4> QED  BY <4>1
    <3> QED  BY <2>1, <3>1, <3>3, <3>4, <3>5 DEF Next, Probe
  <2> QED  BY <2>1, AccountStep DEF IInv
<1>3. IInv /\ AccountInv /\ Closed => OutagesAccounted
  BY AccountIsRight DEF IInv
<1> QED  BY SpecIInv, <1>1, <1>2, <1>3, PTL DEF Spec
=============================================================================
