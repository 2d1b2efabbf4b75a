--------------------------- MODULE DialogueProofs ---------------------------
(***************************************************************************)
(* Proofs about Dialogue, for every set of probers whose scripts satisfy   *)
(* the assumptions of Dialogue, which TLC evaluates for all the scripts of *)
(* pkg/probers; the second part is about Startup.                          *)
(***************************************************************************)
EXTENDS Dialogue, Startup, Integers, Sequences, TLAPS

\* Where a step leads is a label or an end.
LEMMA NextLabel ==
  ASSUME NEW p \in Probe, NEW l \in Label(p), NEW o \in DOMAIN At(p, l).on
  PROVE  /\ At(p, l).on[o] \in After(p, l)
         /\ At(p, l).on[o] \in Label(p) \union Ends
         /\ At(p, l).on[o] \in Label(p) \union Final \union Fragile[p]
         /\ o \in Outcomes
<1>1. At(p, l).on[o] \in After(p, l)
  BY DEF After
<1>2. After(p, l) \subseteq Label(p) \union Ends
  BY ScriptAssumption
<1>3. o \in Outcomes
  BY DEF Outcomes
<1>4. After(p, l) \cap Lost \subseteq Fragile[p]
  BY FragileAssumption
<1> QED
  BY <1>1, <1>2, <1>3, <1>4 DEF Ends

\* A deadline is a time.
LEMMA UntilType ==
  ASSUME NEW p \in Probe, NEW l \in Label(p), NEW dl, NEW t \in Nat, NEW d \in Nat
  PROVE  Until(p, dl, l, t, d) \in Nat
<1>1. At(p, l).d \in Nat
  BY ScriptAssumption
<1>2. Forever \in Nat
  BY BudgetAssumption
<1>3. CASE At(p, l).op \in DialerOps /\ dl = "nic"
  BY <1>2, <1>3 DEF Until
<1>4. CASE ~(At(p, l).op \in DialerOps /\ dl = "nic")
  <2>1. CASE At(p, l).d = Keep
    BY <1>4, <2>1 DEF Until
  <2>2. CASE At(p, l).d # Keep
    <3>1. t + At(p, l).d \in Nat
      BY <1>1
    <3> QED
      BY <1>4, <2>2, <3>1 DEF Until
  <2> QED
    BY <2>1, <2>2
<1> QED
  BY <1>3, <1>4

\* No label is an end.
LEMMA LabelNotEnd ==
  ASSUME NEW p \in Probe, NEW l \in Label(p)
  PROVE  l \notin Ends /\ l \notin Final /\ l \notin Lost
BY ScriptAssumption DEF Ends

\* A call that is going on is at a label of its script.
LEMMA RunningAtLabel ==
  ASSUME TypeOK, at \notin Ends
  PROVE  probe \in Probe /\ at \in Label(probe)
<1>1. probe \in Probe /\ at \in Label(probe) \union Final \union Fragile[probe]
  BY DEF TypeOK
<1>2. Fragile[probe] \subseteq Lost
  BY <1>1, FragileAssumption
<1> QED
  BY <1>1, <1>2 DEF Ends

LEMMA InitType == Init => TypeOK
<1> SUFFICES ASSUME Init PROVE TypeOK
  OBVIOUS
<1>1. probe \in Probe /\ at \in Label(probe)
  BY ScriptAssumption DEF Init
<1>2. at \notin Ends
  BY <1>1, LabelNotEnd
<1>3. deadline \in Nat
  <2>1. 0 \in Nat
    OBVIOUS
  <2> QED
    BY <1>1, <2>1, UntilType DEF Init
<1> QED
  BY <1>1, <1>2, <1>3 DEF Init, TypeOK, Ends

\* The end of a step keeps the types, whatever its outcome.
LEMMA GoOnType ==
  ASSUME TypeOK, at \notin Ends, NEW o \in DOMAIN Now.on, GoOn(o)
  PROVE  TypeOK'
<1> DEFINE next == Now.on[o]
<1>1. probe \in Probe /\ at \in Label(probe)
  BY RunningAtLabel
<1>2. /\ next \in Label(probe) \union Final \union Fragile[probe]
      /\ next \in Label(probe) \union Ends
      /\ o \in Outcomes
  BY <1>1, NextLabel DEF Now
<1>3. UNCHANGED <<probe, caller, dialer, clock>>
  BY DEF GoOn
<1>4. at' \in Label(probe') \union Final \union Fragile[probe']
  BY <1>2, <1>3 DEF GoOn
<1>5. deadline' \in Nat
  <2>1. CASE next \in Ends
    BY <2>1 DEF GoOn, TypeOK
  <2>2. CASE next \notin Ends
    <3>1. next \in Label(probe)
      BY <1>2, <2>2
    <3>2. Until(probe, dialer, next, clock, deadline) \in Nat
      BY <1>1, <3>1, UntilType DEF TypeOK
    <3> QED
      BY <2>2, <3>2 DEF GoOn
  <2> QED
    BY <2>1, <2>2
<1>6. heard' \subseteq Label(probe') \X Outcomes
  <2>1. <<at, o>> \in Label(probe) \X Outcomes
    BY <1>1, <1>2
  <2>2. heard \subseteq Label(probe) \X Outcomes
    BY DEF TypeOK
  <2> QED
    BY <1>3, <2>1, <2>2 DEF GoOn
<1>7. clock \in 0..clock
  BY DEF TypeOK
<1>8. rtt' \in {Unset} \union 0..clock' /\ settled' \in {Unset} \union 0..clock'
  BY <1>3, <1>7 DEF GoOn, TypeOK
<1>9. at' \in Final => rtt' # Unset
  <2>1. clock # Unset
    BY DEF TypeOK, Unset
  <2> QED
    BY <2>1 DEF GoOn
<1> QED
  BY <1>3, <1>4, <1>5, <1>6, <1>8, <1>9 DEF TypeOK

LEMMA FailureIsAnOutcome ==
  ASSUME TypeOK, at \notin Ends
  PROVE  Failure \subseteq DOMAIN Now.on
<1>1. probe \in Probe /\ at \in Label(probe)
  BY RunningAtLabel
<1> QED
  BY <1>1, ScriptAssumption DEF Now

LEMMA NextType == TypeOK /\ [Next]_vars => TypeOK'
<1> SUFFICES ASSUME TypeOK, [Next]_vars PROVE TypeOK'
  OBVIOUS
<1>1. ASSUME NEW o \in Outcomes, Answer(o) PROVE TypeOK'
  BY <1>1, GoOnType DEF Answer
<1>2. CASE Break
  <2>1. "broken" \in DOMAIN Now.on
    BY <1>2, FailureIsAnOutcome DEF Break, Failure
  <2> QED
    BY <1>2, <2>1, GoOnType DEF Break
<1>3. CASE Expire
  <2>1. "timeout" \in DOMAIN Now.on
    BY <1>3, FailureIsAnOutcome DEF Expire, Failure
  <2> QED
    BY <1>3, <2>1, GoOnType DEF Expire
<1>4. CASE Wait
  <2>1. clock' \in Nat /\ 0..clock \subseteq 0..clock'
    BY <1>4 DEF Wait, TypeOK
  <2> QED
    BY <1>4, <2>1 DEF Wait, TypeOK
<1>5. CASE UNCHANGED vars
  BY <1>5 DEF vars, TypeOK
<1>6. CASE Over
  BY <1>5, <1>6 DEF Over
<1>7. CASE Spin
  <2>1. clock' \in Nat /\ 0..clock \subseteq 0..clock'
    BY <1>7 DEF Spin, TypeOK
  <2> QED
    BY <1>7, <2>1 DEF Spin, TypeOK
<1>8. CASE Exhaust
  <2>1. "spin" \in Fragile[probe] /\ probe \in Probe
    BY <1>8, LabelNotEnd DEF Exhaust, TypeOK, Final, Lost
  <2>2. at' \in Fragile[probe'] /\ at' \notin Final
    BY <1>8, <2>1, FragileAssumption DEF Exhaust, Final
  <2> QED
    BY <1>8, <2>2 DEF Exhaust, TypeOK
<1> QED
  BY <1>1, <1>2, <1>3, <1>4, <1>5, <1>6, <1>7, <1>8 DEF Next

\* Every ProbeResult that is returned has a latency, and none is longer than
\* the call.
THEOREM TypeCorrect == Spec => []TypeOK
<1>1. Init => TypeOK
  BY InitType
<1>2. TypeOK /\ [Next]_vars => TypeOK'
  BY NextType
<1> QED
  BY <1>1, <1>2, PTL DEF Spec

-----------------------------------------------------------------------------
\* The verdict is settled exactly while diagnostics are collected and in "up".
Settled == /\ at \notin Ends => (settled # Unset <=> at \in Script[probe].harvest)
           /\ at = "up" => settled # Unset
           /\ at \in {"down", "spin"} => settled = Unset

\* What a step does to the verdict: from the labels before the harvest it may
\* settle it or fail, from the harvest it goes on or ends well.
LEMMA GoOnSettled ==
  ASSUME TypeOK, Settled, at \notin Ends, NEW o \in DOMAIN Now.on, GoOn(o)
  PROVE  Settled' /\ (Contract!Next \/ UNCHANGED Contract!vars)
<1> DEFINE next == Now.on[o]
           H == Script[probe].harvest
<1>1. /\ probe \in Probe /\ at \in Label(probe) /\ probe' = probe
      /\ next \in After(probe, at) /\ next \in Label(probe) \union Ends
      /\ at' = next
  BY NextLabel, RunningAtLabel DEF Now, GoOn
<1>2. clock # Unset
  BY DEF TypeOK, Unset
<1>3. H \cap Ends = {} /\ "up" \notin H
  BY <1>1, ScriptAssumption DEF Ends, Final
<1>4. settled' = IF settled = Unset /\ next \in H \union {"up"} THEN clock ELSE settled
  BY DEF GoOn
<1>5. next = "panic" => Fragile[probe] # {}
  <2>1. After(probe, at) \cap Lost \subseteq Fragile[probe]
    BY <1>1, FragileAssumption
  <2> QED
    BY <1>1, <2>1 DEF Lost
<1>6. CASE settled = Unset
  <2>1. at \notin H /\ Phase = "trying"
    BY <1>6 DEF Settled, Phase, Ends, Final, Lost
  <2>2. CASE next \in H
    <3>1. next \notin Ends /\ settled' # Unset
      BY <1>2, <1>3, <1>4, <1>6, <2>2
    <3>2. Phase' = "harvesting"
      BY <1>1, <3>1 DEF Phase, Ends, Lost
    <3> QED
      BY <1>1, <2>1, <2>2, <3>1, <3>2
      DEF Settled, Contract!Next, Contract!Settle, Ends, Final, Lost
  <2>3. CASE next = "up"
    <3>1. settled' # Unset
      BY <1>2, <1>4, <1>6, <2>3
    <3>2. Phase' = "up"
      BY <1>1, <2>3 DEF Phase, Final
    <3> QED
      BY <1>1, <2>1, <2>3, <3>1, <3>2
      DEF Settled, Contract!Next, Contract!Settle, Ends, Final
  <2>4. CASE next = "down"
    <3>1. settled' = Unset
      BY <1>3, <1>4, <1>6, <2>4 DEF Ends, Final
    <3>2. Phase' = "down"
      BY <1>1, <2>4 DEF Phase, Final
    <3> QED
      BY <1>1, <2>1, <2>4, <3>1, <3>2
      DEF Settled, Contract!Next, Contract!Fail, Ends, Final
  <2>5. CASE next = "panic"
    <3>1. Phase' = "crashed"
      BY <1>1, <2>5 DEF Phase, Final
    <3> QED
      BY <1>1, <1>5, <2>1, <2>5, <3>1
      DEF Settled, Contract!Next, Contract!Crash, Ends, Lost
  <2>6. CASE next \notin H /\ next \notin Final \union {"panic"}
    <3>1. settled' = Unset
      BY <1>4, <1>6, <2>6 DEF Final
    <3>2. Phase' = "trying"
      BY <1>1, <2>6, <3>1 DEF Phase
    <3> QED
      BY <1>1, <2>1, <2>6, <3>1, <3>2 DEF Settled, Contract!vars, Final
  <2> QED
    BY <2>2, <2>3, <2>4, <2>5, <2>6 DEF Final
<1>7. CASE settled # Unset
  <2>1. at \in H /\ Phase = "harvesting"
    BY <1>7 DEF Settled, Phase, Ends, Final, Lost
  <2>2. next \in H \union {"up", "panic"}
    BY <1>1, <2>1, HarvestAssumption
  <2>3. settled' # Unset
    BY <1>4, <1>7
  <2>4. CASE next \in H
    <3>1. next \notin Ends
      BY <1>3, <2>4
    <3>2. Phase' = "harvesting"
      BY <1>1, <2>3, <3>1 DEF Phase, Ends, Lost
    <3> QED
      BY <1>1, <2>1, <2>3, <2>4, <3>1, <3>2 DEF Settled, Contract!vars, Ends, Final, Lost
  <2>5. CASE next = "up"
    <3>1. Phase' = "up"
      BY <1>1, <2>5 DEF Phase, Final
    <3> QED
      BY <1>1, <2>1, <2>3, <2>5, <3>1
      DEF Settled, Contract!Next, Contract!Finish, Ends, Final
  <2>6. CASE next = "panic"
    <3>1. Phase' = "crashed"
      BY <1>1, <2>6 DEF Phase, Final
    <3> QED
      BY <1>1, <1>5, <2>1, <2>6, <3>1
      DEF Settled, Contract!Next, Contract!Crash, Ends, Lost
  <2> QED
    BY <2>2, <2>4, <2>5, <2>6
<1> QED
  BY <1>6, <1>7

LEMMA InitSettled == Init => Settled /\ Contract!Init
<1> SUFFICES ASSUME Init PROVE Settled /\ Contract!Init
  OBVIOUS
<1>1. /\ probe \in Probe /\ at = Script[probe].first /\ settled = Unset
      /\ at \in Label(probe) /\ at \notin Script[probe].harvest
  BY ScriptAssumption DEF Init
<1>2. at \notin Ends
  BY <1>1, LabelNotEnd
<1>3. Phase = "trying" /\ at \notin Lost
  BY <1>1, <1>2 DEF Phase, Ends, Lost
<1> QED
  BY <1>1, <1>2, <1>3 DEF Settled, Contract!Init, Ends, Final, Lost

LEMMA NextSettled ==
  TypeOK /\ Settled /\ [Next]_vars => Settled' /\ (Contract!Next \/ UNCHANGED Contract!vars)
<1> SUFFICES ASSUME TypeOK, Settled, [Next]_vars
             PROVE  Settled' /\ (Contract!Next \/ UNCHANGED Contract!vars)
  OBVIOUS
<1>1. ASSUME NEW o \in Outcomes, Answer(o)
      PROVE  Settled' /\ (Contract!Next \/ UNCHANGED Contract!vars)
  BY <1>1, GoOnSettled DEF Answer
<1>2. CASE Break
  <2>1. "broken" \in DOMAIN Now.on
    BY <1>2, FailureIsAnOutcome DEF Break, Failure
  <2> QED
    BY <1>2, <2>1, GoOnSettled DEF Break
<1>3. CASE Expire
  <2>1. "timeout" \in DOMAIN Now.on
    BY <1>3, FailureIsAnOutcome DEF Expire, Failure
  <2> QED
    BY <1>3, <2>1, GoOnSettled DEF Expire
<1>4. CASE Wait
  BY <1>4 DEF Wait, Settled, Phase, Contract!vars
<1>5. CASE UNCHANGED vars
  BY <1>5 DEF vars, Settled, Phase, Contract!vars
<1>6. CASE Over
  BY <1>5, <1>6 DEF Over
<1>7. CASE Spin
  BY <1>7 DEF Spin, Settled, Phase, Contract!vars
<1>8. CASE Exhaust
  <2>1. settled = Unset /\ settled' = Unset /\ Phase = "trying" /\ Phase' = "crashed"
    BY <1>8 DEF Exhaust, Settled, Phase, Final
  <2>2. Fragile[probe] # {} /\ probe' = probe
    BY <1>8, LabelNotEnd DEF Exhaust, TypeOK, Final, Lost
  <2> QED
    BY <1>8, <2>1, <2>2 DEF Exhaust, Settled, Contract!Next, Contract!Crash, Ends, Lost
<1> QED
  BY <1>1, <1>2, <1>3, <1>4, <1>5, <1>6, <1>7, <1>8 DEF Next

\* Whatever the protocol, a call of Ping keeps the contract: once its target is
\* known to be up, no failure of a diagnostic reports it down.
THEOREM KeepsTheContract == Spec => ImplementsContract
<1>1. Init => TypeOK /\ Settled /\ Contract!Init
  BY InitType, InitSettled
<1>2. TypeOK /\ Settled /\ [Next]_vars => (TypeOK /\ Settled)'
  BY NextType, NextSettled
<1>3. TypeOK /\ Settled /\ [Next]_vars => [Contract!Next]_(Contract!vars)
  BY NextSettled
<1> QED
  BY <1>1, <1>2, <1>3, PTL DEF Spec, ImplementsContract, Contract!Spec

-----------------------------------------------------------------------------
\* The latency clock of a punctual prober has stopped at the labels that only
\* the stopping label leads to, and since before the harvest began.
Stopped ==
  probe \in Punctual =>
    /\ at \in Timed(probe) => rtt # Unset
    /\ settled # Unset /\ at # "down" => rtt # Unset /\ rtt <= settled

LEMMA GoOnStopped ==
  ASSUME TypeOK, Settled, Stopped, at \notin Ends, NEW o \in DOMAIN Now.on, GoOn(o)
  PROVE  Stopped'
<1> DEFINE next == Now.on[o]
           H == Script[probe].harvest
           r == Script[probe].rtt
<1>1. /\ probe \in Probe /\ at \in Label(probe) /\ probe' = probe
      /\ next \in After(probe, at) /\ next \in Label(probe) \union Ends
      /\ at' = next
  BY NextLabel, RunningAtLabel DEF Now, GoOn
<1>2. /\ clock \in Nat /\ clock # Unset
      /\ rtt \in {Unset} \union 0..clock /\ settled \in {Unset} \union 0..clock
  BY DEF TypeOK, Unset
<1>3. /\ rtt' = IF at = r \/ (rtt = Unset /\ next \in Final) THEN clock ELSE rtt
      /\ settled' = IF settled = Unset /\ next \in H \union {"up"} THEN clock ELSE settled
  BY DEF GoOn
<1> SUFFICES ASSUME probe \in Punctual PROVE Stopped'
  BY <1>1 DEF Stopped
<1>4. next \in Timed(probe) => rtt' # Unset
  <2>1. next \in Timed(probe) => at = r
    BY <1>1 DEF Timed
  <2> QED
    BY <1>2, <1>3, <2>1
<1>5. ASSUME settled' # Unset, next # "down"
      PROVE  rtt' # Unset /\ rtt' <= settled'
  <2>1. CASE settled # Unset
    <3>1. at \in H /\ at # r
      BY <2>1, PunctualAssumption DEF Settled
    <3>2. rtt # Unset /\ rtt <= settled
      BY <2>1, <3>1, LabelNotEnd, <1>1 DEF Stopped, Final
    <3> QED
      BY <1>3, <2>1, <3>1, <3>2
  <2>2. CASE settled = Unset
    <3>1. settled' = clock /\ next \in H \union {"up"}
      BY <1>3, <1>5, <2>2
    <3>2. at \notin H
      BY <2>2 DEF Settled
    <3>3. CASE next \in H
      <4>1. After(probe, at) \cap H # {}
        BY <1>1, <3>3
      <4>2. at \in Timed(probe) \union {r}
        BY <1>1, <3>2, <4>1, PunctualAssumption
      <4>3. CASE at = r
        BY <1>2, <1>3, <3>1, <4>3
      <4>4. CASE at # r
        <5>1. rtt # Unset
          BY <4>2, <4>4 DEF Stopped
        <5>2. rtt' = rtt
          BY <1>3, <4>4, <5>1
        <5> QED
          BY <1>2, <3>1, <5>1, <5>2
      <4> QED
        BY <4>3, <4>4
    <3>4. CASE next = "up"
      <4>1. rtt' \in {clock, rtt} /\ rtt' # Unset
        BY <1>2, <1>3, <3>4 DEF Final
      <4>2. rtt' <= clock
        BY <1>2, <4>1
      <4> QED
        BY <3>1, <4>1, <4>2
    <3> QED
      BY <3>1, <3>3, <3>4
  <2> QED
    BY <2>1, <2>2
<1> QED
  BY <1>1, <1>4, <1>5 DEF Stopped

LEMMA NextStopped ==
  TypeOK /\ Settled /\ Stopped /\ [Next]_vars => Stopped'
<1> SUFFICES ASSUME TypeOK, Settled, Stopped, [Next]_vars PROVE Stopped'
  OBVIOUS
<1>1. ASSUME NEW o \in Outcomes, Answer(o) PROVE Stopped'
  BY <1>1, GoOnStopped DEF Answer
<1>2. CASE Break
  <2>1. "broken" \in DOMAIN Now.on
    BY <1>2, FailureIsAnOutcome DEF Break, Failure
  <2> QED
    BY <1>2, <2>1, GoOnStopped DEF Break
<1>3. CASE Expire
  <2>1. "timeout" \in DOMAIN Now.on
    BY <1>3, FailureIsAnOutcome DEF Expire, Failure
  <2> QED
    BY <1>3, <2>1, GoOnStopped DEF Expire
<1>4. CASE Wait
  BY <1>4 DEF Wait, Stopped
<1>5. CASE UNCHANGED vars
  BY <1>5 DEF vars, Stopped
<1>6. CASE Over
  BY <1>5, <1>6 DEF Over
<1>7. CASE Spin
  BY <1>7 DEF Spin, Stopped
<1>8. CASE Exhaust
  <2>1. settled' = Unset /\ probe' = probe /\ probe \in Probe
    BY <1>8 DEF Exhaust, Settled, TypeOK
  <2>2. probe \in Punctual => at' \notin Timed(probe)
    BY <1>8, <2>1, LabelNotEnd DEF Exhaust, Timed, Lost
  <2> QED
    BY <2>1, <2>2 DEF Stopped
<1> QED
  BY <1>1, <1>2, <1>3, <1>4, <1>5, <1>6, <1>7, <1>8 DEF Next

LEMMA InitStopped == Init => Stopped
<1> SUFFICES ASSUME Init PROVE Stopped
  OBVIOUS
<1>1. at = Script[probe].first /\ settled = Unset
  BY DEF Init
<1>2. at \notin Timed(probe)
  BY <1>1 DEF Timed
<1> QED
  BY <1>1, <1>2 DEF Stopped

\* The latency a punctual prober reports for a reachable target excludes the
\* time of its diagnostics, however long the peer draws them out.
THEOREM LatencyIsOfTheService == Spec => []LatencyExcludesHarvest
<1>1. Init => TypeOK /\ Settled /\ Stopped
  BY InitType, InitSettled, InitStopped
<1>2. TypeOK /\ Settled /\ Stopped /\ [Next]_vars => (TypeOK /\ Settled /\ Stopped)'
  BY NextType, NextSettled, NextStopped
<1>3. TypeOK /\ Settled /\ Stopped => LatencyExcludesHarvest
  BY DEF Settled, Stopped, LatencyExcludesHarvest
<1> QED
  BY <1>1, <1>2, <1>3, PTL DEF Spec

-----------------------------------------------------------------------------
\* Under a watched call no step has more time than the budget of its label.
InBudget ==
  Watched =>
    /\ clock <= Patience \/ (at \in Lost /\ "spin" \in Fragile[probe])
    /\ at \notin Ends =>
         /\ clock <= Budget[probe][at]
         /\ IF Now.op \in DialerOps /\ dialer = "nic"
              THEN caller = "timed" /\ Timeout <= Budget[probe][at]
              ELSE deadline <= Budget[probe][at]

LEMMA BudgetType ==
  ASSUME NEW p \in Probe, NEW l \in Label(p)
  PROVE  Budget[p][l] \in Nat /\ Budget[p][l] <= Patience
<1>1. Budget[p] \in [Label(p) -> 0..Patience]
  BY BudgetAssumption
<1>2. Patience \in Nat
  BY StepsAssumption DEF Patience, TwoSeconds
<1> QED
  BY <1>1, <1>2

\* The time left to a step is within the budget.
LEMMA LimitInBudget ==
  ASSUME TypeOK, InBudget, Watched, at \notin Ends, clock < Limit
  PROVE  clock + 1 <= Budget[probe][at]
<1>1. probe \in Probe /\ at \in Label(probe)
  BY RunningAtLabel
<1>2. Budget[probe][at] \in Nat /\ Timeout \in Nat /\ deadline \in Nat /\ clock \in Nat
  BY <1>1, BudgetType, StepsAssumption DEF TypeOK
<1>3. Limit \in Nat /\ Limit <= deadline
  BY <1>2 DEF Limit, Least
<1>4. CASE Now.op \in DialerOps /\ dialer = "nic"
  <2>1. caller = "timed" /\ Timeout <= Budget[probe][at] /\ Now.op \in ContextOps
    BY <1>4 DEF InBudget, DialerOps, ContextOps
  <2>2. Limit <= Timeout
    BY <1>2, <2>1 DEF Limit, Least
  <2> QED
    BY <1>2, <1>3, <2>1, <2>2
<1>5. CASE ~(Now.op \in DialerOps /\ dialer = "nic")
  <2>1. deadline <= Budget[probe][at]
    BY <1>5 DEF InBudget
  <2> QED
    BY <1>2, <1>3, <2>1
<1> QED
  BY <1>4, <1>5

LEMMA GoOnInBudget ==
  ASSUME TypeOK, InBudget, at \notin Ends, NEW o \in DOMAIN Now.on, GoOn(o)
  PROVE  InBudget'
<1> DEFINE m == Now.on[o]
<1>1. /\ probe \in Probe /\ at \in Label(probe) /\ m \in Label(probe) \union Ends
      /\ m \in After(probe, at) /\ at' = m /\ UNCHANGED <<probe, caller, dialer, clock>>
  BY NextLabel, RunningAtLabel DEF Now, GoOn
<1> SUFFICES ASSUME Watched PROVE InBudget'
  BY <1>1 DEF InBudget, Watched
<1>2. clock <= Patience /\ clock <= Budget[probe][at]
  BY DEF InBudget, Ends
<1>3. CASE m \in Ends
  BY <1>1, <1>2, <1>3 DEF InBudget, Patience
<1>4. CASE m \notin Ends
  <2>1. m \in Label(probe) /\ m \in After(probe, at) \ Ends
    BY <1>1, <1>4
  <2>2. /\ Budget[probe][at] \in Nat /\ Budget[probe][m] \in Nat
        /\ At(probe, m).d \in Nat /\ clock \in Nat
    BY <1>1, <2>1, BudgetType, ScriptAssumption DEF TypeOK
  <2>3. Budget[probe][at] + At(probe, m).d <= Budget[probe][m]
    BY <1>1, <2>1, BudgetAssumption
  <2>4. Budget[probe][at] <= Budget[probe][m] /\ At(probe, m).d <= Budget[probe][m]
    BY <2>2, <2>3
  <2>5. Now' = At(probe, m)
    BY <1>1 DEF Now
  <2>6. clock' <= Budget[probe'][at']
    BY <1>1, <1>2, <2>2, <2>4
  <2>7. CASE At(probe, m).op \in DialerOps /\ dialer = "nic"
    <3>1. At(probe, m).d = Timeout
      BY <1>1, <2>1, <2>7, DialAssumption
    <3>2. caller = "timed"
      BY <2>7 DEF Watched
    <3> QED
      BY <1>1, <1>2, <2>4, <2>5, <2>6, <2>7, <3>1, <3>2 DEF InBudget, Patience
  <2>8. CASE ~(At(probe, m).op \in DialerOps /\ dialer = "nic")
    <3>1. deadline' = IF At(probe, m).d = Keep THEN deadline ELSE clock + At(probe, m).d
      BY <1>4, <2>8 DEF GoOn, Until
    <3>2. deadline' <= Budget[probe][m]
      <4>1. CASE At(probe, m).d = Keep
        <5>1. Now.op \notin DialerOps
          BY <1>1, <2>1, <4>1, DialAssumption DEF Now
        <5>2. deadline <= Budget[probe][at] /\ deadline \in Nat
          BY <5>1 DEF InBudget, TypeOK
        <5> QED
          BY <2>2, <2>4, <3>1, <4>1, <5>2
      <4>2. CASE At(probe, m).d # Keep
        BY <1>2, <2>2, <2>3, <3>1, <4>2
      <4> QED
        BY <4>1, <4>2
    <3> QED
      BY <1>1, <1>2, <2>5, <2>6, <2>8, <3>2 DEF InBudget, Patience
  <2> QED
    BY <2>7, <2>8
<1> QED
  BY <1>3, <1>4

LEMMA NextInBudget == TypeOK /\ InBudget /\ [Next]_vars => InBudget'
<1> SUFFICES ASSUME TypeOK, InBudget, [Next]_vars PROVE InBudget'
  OBVIOUS
<1>1. ASSUME NEW o \in Outcomes, Answer(o) PROVE InBudget'
  BY <1>1, GoOnInBudget DEF Answer
<1>2. CASE Break
  <2>1. "broken" \in DOMAIN Now.on
    BY <1>2, FailureIsAnOutcome DEF Break, Failure
  <2> QED
    BY <1>2, <2>1, GoOnInBudget DEF Break
<1>3. CASE Expire
  <2>1. "timeout" \in DOMAIN Now.on
    BY <1>3, FailureIsAnOutcome DEF Expire, Failure
  <2> QED
    BY <1>3, <2>1, GoOnInBudget DEF Expire
<1>4. CASE Wait
  <2>1. /\ at \notin Ends /\ InTime /\ clock' = clock + 1
        /\ UNCHANGED <<probe, caller, dialer, at, deadline>>
    BY <1>4 DEF Wait
  <2> SUFFICES ASSUME Watched PROVE InBudget'
    BY <2>1 DEF InBudget, Watched
  <2>2. clock < Limit
    BY <2>1 DEF InTime, Endless
  <2>3. clock' <= Budget[probe][at]
    BY <2>1, <2>2, LimitInBudget
  <2>4. probe \in Probe /\ at \in Label(probe) /\ clock \in Nat
    BY <2>1, RunningAtLabel DEF TypeOK
  <2>5. Budget[probe][at] \in Nat /\ Budget[probe][at] <= Patience /\ Patience \in Nat
    BY <2>4, BudgetType, StepsAssumption DEF Patience, TwoSeconds
  <2>6. clock' <= Patience
    BY <2>1, <2>3, <2>4, <2>5
  <2>7. Now' = Now /\ Patience' = Patience
    BY <2>1 DEF Now, Patience
  <2> QED
    BY <2>1, <2>3, <2>6, <2>7 DEF InBudget
<1>5. CASE UNCHANGED vars
  BY <1>5 DEF vars, InBudget, Watched, Now, Patience
<1>6. CASE Over
  BY <1>5, <1>6 DEF Over
<1>7. CASE Spin
  <2>1. "spin" \in Fragile[probe] /\ at' \in Lost /\ at' \in Ends
    BY <1>7, LabelNotEnd DEF Spin, TypeOK, Final, Lost, Ends
  <2> QED
    BY <1>7, <2>1 DEF Spin, InBudget, Watched
<1>8. CASE Exhaust
  <2>1. "spin" \in Fragile[probe] /\ at' \in Lost /\ at' \in Ends
    BY <1>8, LabelNotEnd DEF Exhaust, TypeOK, Final, Lost, Ends
  <2> QED
    BY <1>8, <2>1 DEF Exhaust, InBudget, Watched
<1> QED
  BY <1>1, <1>2, <1>3, <1>4, <1>5, <1>6, <1>7, <1>8 DEF Next

LEMMA InitInBudget == Init => InBudget
<1> SUFFICES ASSUME Init, Watched PROVE InBudget
  BY DEF InBudget
<1>1. /\ probe \in Probe /\ at = Script[probe].first /\ at \in Label(probe) /\ clock = 0
      /\ At(probe, at).d <= Budget[probe][at]
  BY ScriptAssumption, BudgetAssumption DEF Init
<1>2. Budget[probe][at] \in Nat /\ 0 <= Patience /\ At(probe, at).d \in Nat
  <2>1. Patience \in Nat
    BY StepsAssumption DEF Patience, TwoSeconds
  <2> QED
    BY <1>1, <2>1, BudgetType, ScriptAssumption
<1>3. CASE At(probe, at).op \in DialerOps /\ dialer = "nic"
  <2>1. At(probe, at).d = Timeout
    BY <1>1, <1>3, DialAssumption
  <2>2. caller = "timed"
    BY <1>3 DEF Watched
  <2> QED
    BY <1>1, <1>2, <1>3, <2>1, <2>2 DEF InBudget, Now
<1>4. CASE ~(At(probe, at).op \in DialerOps /\ dialer = "nic")
  <2>1. deadline = IF At(probe, at).d = Keep THEN 0 ELSE 0 + At(probe, at).d
    BY <1>4 DEF Init, Until
  <2>2. deadline <= Budget[probe][at]
    BY <1>1, <1>2, <2>1
  <2> QED
    BY <1>1, <1>2, <1>4, <2>2 DEF InBudget, Now
<1> QED
  BY <1>3, <1>4

\* A call with a context that expires, or with the prober's own dialer, is over
\* within the patience, for every script without a loop that starts its time
\* again and whatever the peer does, unless the decoder of a reply is one that
\* may not end and has been lost in it.
THEOREM CallsAreBounded == Spec => []Bounded
<1>1. Init => TypeOK /\ InBudget
  BY InitType, InitInBudget
<1>2. TypeOK /\ InBudget /\ [Next]_vars => (TypeOK /\ InBudget)'
  BY NextType, NextInBudget
<1>3. InBudget => Bounded
  BY DEF InBudget, Bounded, Watched
<1> QED
  BY <1>1, <1>2, <1>3, PTL DEF Spec
-----------------------------------------------------------------------------
\* The labels at which a probe can be before it has heard anything decisive.
Early(p) == CHOOSE early \in SUBSET Label(p) : Script[p].first \in early /\ Undecided(p, early)

LEMMA EarlyIs ==
  ASSUME NEW p \in Probe
  PROVE  Early(p) \subseteq Label(p) /\ Script[p].first \in Early(p) /\ Undecided(p, Early(p))
BY EarnedAssumption DEF Early

Undecisive == heard \cap Decisive[probe] = {} => at \in Early(probe) \union {"down"} \union Lost

LEMMA GoOnUndecisive ==
  ASSUME TypeOK, Undecisive, at \notin Ends, NEW o \in DOMAIN Now.on, GoOn(o)
  PROVE  Undecisive'
<1>1. /\ probe \in Probe /\ probe' = probe
      /\ at' = Now.on[o] /\ heard' = heard \union {<<at, o>>}
  BY DEF TypeOK, GoOn
<1> SUFFICES ASSUME heard' \cap Decisive[probe] = {}
             PROVE  at' \in Early(probe) \union {"down"} \union Lost
  BY <1>1 DEF Undecisive
<1>2. heard \cap Decisive[probe] = {} /\ <<at, o>> \notin Decisive[probe]
  BY <1>1
<1>3. at \in Early(probe)
  BY <1>2 DEF Undecisive, Ends, Final
<1>4. At(probe, at).on[o] \in Early(probe) \union {"down"} \union Lost
  BY <1>1, <1>2, <1>3, EarlyIs DEF Undecided, Now
<1> QED
  BY <1>1, <1>4 DEF Now

LEMMA NextUndecisive == TypeOK /\ Undecisive /\ [Next]_vars => Undecisive'
<1> SUFFICES ASSUME TypeOK, Undecisive, [Next]_vars PROVE Undecisive'
  OBVIOUS
<1>1. ASSUME NEW o \in Outcomes, Answer(o) PROVE Undecisive'
  BY <1>1, GoOnUndecisive DEF Answer
<1>2. CASE Break
  <2>1. "broken" \in DOMAIN Now.on
    BY <1>2, FailureIsAnOutcome DEF Break, Failure
  <2> QED
    BY <1>2, <2>1, GoOnUndecisive DEF Break
<1>3. CASE Expire
  <2>1. "timeout" \in DOMAIN Now.on
    BY <1>3, FailureIsAnOutcome DEF Expire, Failure
  <2> QED
    BY <1>3, <2>1, GoOnUndecisive DEF Expire
<1>4. CASE Wait
  BY <1>4 DEF Wait, Undecisive
<1>5. CASE UNCHANGED vars
  BY <1>5 DEF vars, Undecisive
<1>6. CASE Over
  BY <1>5, <1>6 DEF Over
<1>7. CASE Spin
  BY <1>7 DEF Spin, Undecisive
<1>8. CASE Exhaust
  BY <1>8 DEF Exhaust, Undecisive, Lost
<1> QED
  BY <1>1, <1>2, <1>3, <1>4, <1>5, <1>6, <1>7, <1>8 DEF Next

\* No probe reports its target up before it has heard what shows a live
\* service of its protocol, whatever the peer says, breaks off or keeps back
\* (Ping of every prober).
THEOREM UpIsEarnedAlways == Spec => []UpIsEarned
<1>1. Init => TypeOK /\ Undecisive
  BY InitType, EarlyIs DEF Init, Undecisive
<1>2. TypeOK /\ Undecisive /\ [Next]_vars => (TypeOK /\ Undecisive)'
  BY NextType, NextUndecisive
<1>3. TypeOK /\ Undecisive => UpIsEarned
  <2> SUFFICES ASSUME TypeOK, Undecisive, at = "up", heard \cap Decisive[probe] = {}
               PROVE  FALSE
    BY DEF UpIsEarned
  <2>1. probe \in Probe /\ "up" \in Early(probe)
    BY DEF TypeOK, Undecisive, Lost
  <2>2. "up" \in Label(probe)
    BY <2>1, EarlyIs
  <2> QED
    BY <2>1, <2>2, LabelNotEnd DEF Final
<1> QED
  BY <1>1, <1>2, <1>3, PTL DEF Spec

-----------------------------------------------------------------------------
(***************************************************************************)
(* Startup: the process before its first dialogue.  The proofs are for any *)
(* command line, of any length, any words and URIs, any interfaces and any *)
(* answers of the name servers.  PoolAssumption and StartupAssumption,     *)
(* which TLC evaluates when it checks Startup, say what kind of value the  *)
(* parsers return.                                                         *)
(***************************************************************************)
LEMMA LargerRange ==
  ASSUME NEW Y, NEW T, Y \subseteq T, NEW s \in Seq(Y)
  PROVE  s \in Seq(T)
OBVIOUS

LEMMA SequenceOfText ==
  ASSUME NEW s \in Seq(STRING)
  PROVE  s \in Seq(Text)
<1>1. STRING \subseteq Text
  BY DEF Text
<1> QED  BY <1>1, LargerRange

LEMMA Singleton ==
  ASSUME NEW Y, NEW x \in Y
  PROVE  <<x>> \in Seq(Y) /\ Len(<<x>>) = 1 /\ DOMAIN <<x>> = {1} /\ <<x>>[1] = x
OBVIOUS

LEMMA ElementOf ==
  ASSUME NEW Y, NEW s \in Seq(Y), NEW i \in 1..Len(s)
  PROVE  s[i] \in Y
OBVIOUS

LEMMA DomainOf ==
  ASSUME NEW Y, NEW s \in Seq(Y)
  PROVE  DOMAIN s = 1..Len(s)
OBVIOUS

LEMMA MappedSequence ==
  ASSUME NEW Y, NEW s \in Seq(Y), NEW T, NEW f, f = [i \in DOMAIN s |-> f[i]],
         \A i \in DOMAIN s : f[i] \in T
  PROVE  f \in Seq(T) /\ Len(f) = Len(s)
OBVIOUS

(* The values of the flags, one by one.                                    *)
LEMMA OptionsAreText ==
  ASSUME NEW o \in [DOMAIN Defaults -> Text]
  PROVE  /\ o.host \in Text /\ o.port \in Text /\ o.uri \in Text
         /\ o.protocol \in Text /\ o.interface \in Text
<1>1. {"host", "port", "uri", "protocol", "interface"} \subseteq DOMAIN Defaults
  BY DEF Defaults, Switches, FlagsRequiringValue
<1> QED  BY <1>1

LEMMA DefaultsAreText == Defaults \in [DOMAIN Defaults -> Text]
<1>1. Defaults \in [DOMAIN Defaults -> {Empty, "tcp", "1", "0", "false"}]
  BY DEF Defaults
<1>2. {Empty, "tcp", "1", "0", "false"} \subseteq Text
  BY Zenon DEF Text
<1> QED  BY <1>1, <1>2

LEMMA TcpIsProtocol == "tcp" \in Protocol
BY DEF Protocol, DefaultPorts

LEMMA MongodbsIsProtocol == "mongodbs" \in Protocol
BY DEF Protocol, DefaultPorts

LEMMA PortsOfProtocols == \A p \in Protocol : DefaultPorts[p] \in Port
BY DEF Protocol, DefaultPorts, Port

LEMMA NormalizedIsProtocol ==
  ASSUME NEW name
  PROVE  NormalizeProtocol(name) \in Protocol
BY TcpIsProtocol DEF NormalizeProtocol, Known

LEMMA DefaultPortIsPort ==
  ASSUME NEW p \in Protocol
  PROVE  DefaultPort(p) \in Port \ {0}
<1>1. DefaultPorts[p] \in Port
  BY PortsOfProtocols
<1> QED  BY <1>1 DEF DefaultPort, Port

LEMMA ItemsAreText ==
  ASSUME NEW w \in Text
  PROVE  ItemsOf(w) \in Seq(Text)
<1>1. Items \in [DOMAIN Items -> Seq(STRING)]
  BY PoolAssumption
<1>2. w \in DOMAIN Items => Items[w] \in Seq(Text)
  BY <1>1, SequenceOfText
<1>3. <<w>> \in Seq(Text) /\ <<>> \in Seq(Text)
  BY Singleton
<1> QED  BY <1>2, <1>3 DEF ItemsOf

LEMMA NumberIsPort ==
  ASSUME NEW item
  PROVE  Number(item) \in Port
<1>1. PortOf \in [DOMAIN PortOf -> Port] /\ 0 \in Port
  BY PoolAssumption DEF Port
<1> QED  BY <1>1 DEF Number

LEMMA ParsedIs ==
  ASSUME NEW item \in Text
  PROVE  Parsed(item).host \in Text /\ Parsed(item).port \in Port
<1>1. CASE item \in DOMAIN Url
  <2>1. Url[item] \in [scheme : STRING, host : STRING, port : Port]
    BY <1>1, PoolAssumption
  <2> QED  BY <1>1, <2>1 DEF Parsed, Text
<1>2. CASE item \notin DOMAIN Url
  <2>1. 0 \in Port
    BY DEF Port
  <2> QED  BY <1>2, <2>1 DEF Parsed
<1> QED  BY <1>1, <1>2

LEMMA PortsAre ==
  ASSUME NEW o \in [DOMAIN Defaults -> Text]
  PROVE  Ports(o) \in Seq(Port)
<1>1. ItemsOf(o.port) \in Seq(Text)
  BY OptionsAreText, ItemsAreText
<1>2. \A i \in DOMAIN ItemsOf(o.port) : Number(ItemsOf(o.port)[i]) \in Port
  BY NumberIsPort
<1> QED  BY <1>1, <1>2 DEF Ports

LEMMA ProtocolsAre ==
  ASSUME NEW o \in [DOMAIN Defaults -> Text]
  PROVE  Protocols(o) \in Seq(Protocol) /\ Len(Protocols(o)) >= 1
<1> DEFINE s == ItemsOf(o.protocol)
           n == [i \in DOMAIN s |-> NormalizeProtocol(s[i])]
<1>1. s \in Seq(Text)
  BY OptionsAreText, ItemsAreText
<1>2. \A i \in DOMAIN s : NormalizeProtocol(s[i]) \in Protocol
  BY NormalizedIsProtocol
<1> HIDE DEF s
<1>3. n \in Seq(Protocol) /\ Len(n) = Len(s)
  BY <1>1, <1>2
<1>4. s # <<>> => Len(s) >= 1
  BY <1>1
<1>5. <<"tcp">> \in Seq(Protocol) /\ Len(<<"tcp">>) = 1
  BY TcpIsProtocol, Singleton
<1>6. Protocols(o) = IF s = <<>> THEN <<"tcp">> ELSE n
  BY DEF Protocols, s
<1> QED  BY <1>3, <1>4, <1>5, <1>6

LEMMA HostsAre ==
  ASSUME NEW o \in [DOMAIN Defaults -> Text]
  PROVE  Hosts(o) \in Seq(Text) /\ Len(Hosts(o)) >= 1
<1> DEFINE s == ItemsOf(HostWord(o))
<1>1. HostWord(o) \in Text
  BY OptionsAreText, NormalizedIsProtocol DEF HostWord, Text
<1>2. s \in Seq(Text)
  BY <1>1, ItemsAreText
<1>3. "127.0.0.1" \in Text
  BY Zenon DEF Text
<1>4. <<"127.0.0.1">> \in Seq(Text) /\ Len(<<"127.0.0.1">>) = 1
  BY <1>3, Singleton
<1>5. Hosts(o) = IF s = <<>> THEN <<"127.0.0.1">> ELSE s
  BY DEF Hosts
<1> HIDE DEF s
<1> QED  BY <1>2, <1>4, <1>5


(* A turn of the loops of ResolveTargetPool, one before another, and one   *)
(* that is still to be made or under way.                                  *)
Turns == [host : Nat, port : Nat, protocol : Nat]

Within(o, t) ==
  /\ t.host \in 1..LastTurn(o).host
  /\ t.port \in 1..LastTurn(o).port
  /\ t.protocol \in 1..LastTurn(o).protocol

Before(t, u) ==
  \/ t.host < u.host
  \/ t.host = u.host /\ t.port < u.port
  \/ t.host = u.host /\ t.port = u.port /\ t.protocol < u.protocol

Reached(o, t) ==
  /\ t \in Turns
  /\ t.host \in 1..LastTurn(o).host + 1
  /\ t.port \in 1..LastTurn(o).port
  /\ t.protocol \in 1..LastTurn(o).protocol

LEMMA LastTurnIs ==
  ASSUME NEW o \in [DOMAIN Defaults -> Text]
  PROVE  /\ LastTurn(o).host \in Nat
         /\ LastTurn(o).port \in Nat /\ LastTurn(o).port >= 1
         /\ LastTurn(o).protocol \in Nat /\ LastTurn(o).protocol >= 1
<1>1. Len(ItemsOf(o.uri)) \in Nat
  <2>1. ItemsOf(o.uri) \in Seq(Text)
    BY OptionsAreText, ItemsAreText
  <2> QED  BY <2>1
<1>2. Len(Hosts(o)) \in Nat
  BY HostsAre
<1>3. Len(Protocols(o)) \in Nat /\ Len(Protocols(o)) >= 1
  BY ProtocolsAre
<1>4. Len(Ports(o)) \in Nat /\ (Ports(o) # <<>> => Len(Ports(o)) >= 1)
  BY PortsAre
<1>5. CASE o.uri # Empty
  <2>1. LastTurn(o) = [host |-> Len(ItemsOf(o.uri)), port |-> 1, protocol |-> 1]
    BY <1>5 DEF LastTurn
  <2> QED  BY <2>1, <1>1
<1>6. CASE o.uri = Empty
  <2>1. LastTurn(o) = [host |-> Len(Hosts(o)),
                       port |-> IF Ports(o) = <<>> \/ Paired(o) THEN 1 ELSE Len(Ports(o)),
                       protocol |-> Len(Protocols(o))]
    BY <1>6 DEF LastTurn
  <2> QED  BY <2>1, <1>2, <1>3, <1>4
<1> QED  BY <1>5, <1>6

LEMMA FirstIsReached ==
  ASSUME NEW o \in [DOMAIN Defaults -> Text]
  PROVE  Reached(o, FirstTurn)
BY LastTurnIs DEF Reached, FirstTurn, Turns

LEMMA NothingBeforeFirst ==
  ASSUME NEW o, NEW t, Within(o, t)
  PROVE  ~Before(t, FirstTurn)
BY DEF Within, Before, FirstTurn

(* The turn after u: those before it are u and those before u.             *)
LEMMA NextTurnIs ==
  ASSUME NEW o \in [DOMAIN Defaults -> Text],
         NEW u, Reached(o, u), u.host <= LastTurn(o).host
  PROVE  /\ Reached(o, NextTurn(o, u))
         /\ \A t \in Turns : Within(o, t) =>
              (Before(t, NextTurn(o, u)) <=> Before(t, u) \/ t = u)
<1> DEFINE l == LastTurn(o)
           v == NextTurn(o, u)
<1>1. /\ l.host \in Nat
      /\ l.port \in Nat /\ l.port >= 1
      /\ l.protocol \in Nat /\ l.protocol >= 1
  BY LastTurnIs
<1>2. /\ u \in Turns
      /\ u.host \in 1..l.host
      /\ u.port \in 1..l.port
      /\ u.protocol \in 1..l.protocol
  BY <1>1 DEF Reached, Turns
<1>3. ASSUME NEW t \in Turns
      PROVE  t = u <=> t.host = u.host /\ t.port = u.port /\ t.protocol = u.protocol
  BY <1>2 DEF Turns
<1>4. ASSUME NEW t \in Turns, Within(o, t)
      PROVE  /\ t.host \in Nat /\ t.host >= 1 /\ t.host <= l.host
             /\ t.port \in Nat /\ t.port >= 1 /\ t.port <= l.port
             /\ t.protocol \in Nat /\ t.protocol >= 1 /\ t.protocol <= l.protocol
  BY <1>1, <1>4 DEF Within, Turns
<1>5. CASE u.protocol < l.protocol
  <2>1. v = [u EXCEPT !.protocol = @ + 1]
    BY <1>5 DEF NextTurn
  <2>2. v \in Turns /\ v.host = u.host /\ v.port = u.port /\ v.protocol = u.protocol + 1
    BY <2>1, <1>2 DEF Turns
  <2> HIDE DEF l, v
  <2>3. Reached(o, v)
    BY <2>2, <1>1, <1>2, <1>5 DEF Reached, Turns, l
  <2>4. ASSUME NEW t \in Turns, Within(o, t)
        PROVE  Before(t, v) <=> Before(t, u) \/ t = u
    BY <2>2, <1>1, <1>2, <1>3, <1>4, <1>5, <2>4 DEF Before, Turns
  <2> QED  BY <2>3, <2>4 DEF v
<1>6. CASE u.protocol = l.protocol /\ u.port < l.port
  <2>1. v = [host |-> u.host, port |-> u.port + 1, protocol |-> 1]
    BY <1>6, <1>1 DEF NextTurn
  <2>2. v \in Turns /\ v.host = u.host /\ v.port = u.port + 1 /\ v.protocol = 1
    BY <2>1, <1>2 DEF Turns
  <2> HIDE DEF l, v
  <2>3. Reached(o, v)
    BY <2>2, <1>1, <1>2, <1>6 DEF Reached, Turns, l
  <2>4. ASSUME NEW t \in Turns, Within(o, t)
        PROVE  Before(t, v) <=> Before(t, u) \/ t = u
    BY <2>2, <1>1, <1>2, <1>3, <1>4, <1>6, <2>4 DEF Before, Turns
  <2> QED  BY <2>3, <2>4 DEF v
<1>7. CASE u.protocol = l.protocol /\ u.port = l.port
  <2>1. v = [host |-> u.host + 1, port |-> 1, protocol |-> 1]
    BY <1>7, <1>1 DEF NextTurn
  <2>2. v \in Turns /\ v.host = u.host + 1 /\ v.port = 1 /\ v.protocol = 1
    BY <2>1, <1>2 DEF Turns
  <2> HIDE DEF l, v
  <2>3. Reached(o, v)
    BY <2>2, <1>1, <1>2, <1>7 DEF Reached, Turns, l
  <2>4. ASSUME NEW t \in Turns, Within(o, t)
        PROVE  Before(t, v) <=> Before(t, u) \/ t = u
    BY <2>2, <1>1, <1>2, <1>3, <1>4, <1>7, <2>4 DEF Before, Turns
  <2> QED  BY <2>3, <2>4 DEF v
<1> QED  BY <1>1, <1>2, <1>5, <1>6, <1>7

(* The target of a turn.                                                   *)
LEMMA UriTargetIs ==
  ASSUME NEW o \in [DOMAIN Defaults -> Text], o.uri # Empty,
         NEW t, Within(o, t)
  PROVE  /\ TargetAt(o, t) \in TargetDef /\ TargetAt(o, t).port # 0
         /\ TargetAt(o, t).host = UriAt(o, t).host
<1>1. ItemsOf(o.uri) \in Seq(Text) /\ t.host \in 1..Len(ItemsOf(o.uri))
  <2>1. ItemsOf(o.uri) \in Seq(Text)
    BY OptionsAreText, ItemsAreText
  <2>2. LastTurn(o).host = Len(ItemsOf(o.uri))
    BY DEF LastTurn
  <2> QED  BY <2>1, <2>2 DEF Within
<1>2. UriAt(o, t).host \in Text /\ UriAt(o, t).port \in Port
  <2>1. ItemsOf(o.uri)[t.host] \in Text
    BY <1>1, ElementOf
  <2> QED  BY <2>1, ParsedIs DEF UriAt
<1>3. UriProtocol(o, t) \in Protocol
  BY NormalizedIsProtocol DEF UriProtocol
<1>4. DefaultPort(UriProtocol(o, t)) \in Port \ {0}
  BY <1>3, DefaultPortIsPort
<1> QED  BY <1>2, <1>3, <1>4 DEF TargetAt, Target, TargetDef

LEMMA PortAtIs ==
  ASSUME NEW o \in [DOMAIN Defaults -> Text], o.uri = Empty,
         0 \notin Elements(Ports(o)), NEW t, Within(o, t)
  PROVE  /\ t.host \in 1..Len(Hosts(o)) /\ Hosts(o)[t.host] \in Text
         /\ t.protocol \in 1..Len(Protocols(o)) /\ Protocols(o)[t.protocol] \in Protocol
         /\ PortAt(o, t) \in Port \ {0}
         /\ Ports(o) # <<>> => PortAt(o, t) \in Elements(Ports(o))
<1>1. /\ t.host \in 1..Len(Hosts(o)) /\ t.protocol \in 1..Len(Protocols(o))
      /\ t.port \in 1..(IF Ports(o) = <<>> \/ Paired(o) THEN 1 ELSE Len(Ports(o)))
  BY DEF Within, LastTurn
<1>2. Hosts(o)[t.host] \in Text
  BY <1>1, HostsAre, ElementOf
<1>3. Protocols(o)[t.protocol] \in Protocol
  BY <1>1, ProtocolsAre, ElementOf
<1>4. ASSUME NEW k \in 1..Len(Ports(o))
      PROVE  Ports(o)[k] \in Port \ {0} /\ Ports(o)[k] \in Elements(Ports(o))
  <2>1. Ports(o) \in Seq(Port)
    BY PortsAre
  <2>2. Ports(o)[k] \in Port
    BY <2>1, ElementOf
  <2>3. k \in DOMAIN Ports(o)
    BY <2>1, DomainOf
  <2> QED  BY <2>2, <2>3 DEF Elements
<1>5. CASE Ports(o) = <<>>
  BY <1>3, <1>5, DefaultPortIsPort, <1>1, <1>2 DEF PortAt
<1>6. CASE Ports(o) # <<>> /\ Paired(o)
  <2>1. t.protocol \in 1..Len(Ports(o))
    BY <1>1, <1>6 DEF Paired
  <2>2. PortAt(o, t) = Ports(o)[t.protocol]
    BY <1>6 DEF PortAt
  <2> QED  BY <2>1, <2>2, <1>1, <1>2, <1>3, <1>4
<1>7. CASE Ports(o) # <<>> /\ ~Paired(o)
  <2>1. t.port \in 1..Len(Ports(o))
    BY <1>1, <1>7
  <2>2. PortAt(o, t) = Ports(o)[t.port]
    BY <1>7 DEF PortAt
  <2> QED  BY <2>1, <2>2, <1>1, <1>2, <1>3, <1>4
<1> QED  BY <1>5, <1>6, <1>7

LEMMA TargetAtIs ==
  ASSUME NEW o \in [DOMAIN Defaults -> Text], ~Rejected(o),
         NEW t, Within(o, t)
  PROVE  TargetAt(o, t) \in TargetDef /\ TargetAt(o, t).port # 0
<1>1. CASE o.uri # Empty
  BY <1>1, UriTargetIs
<1>2. CASE o.uri = Empty
  <2>1. 0 \notin Elements(Ports(o))
    BY <1>2 DEF Rejected
  <2>2. /\ Hosts(o)[t.host] \in Text /\ Protocols(o)[t.protocol] \in Protocol
        /\ PortAt(o, t) \in Port \ {0}
    BY <1>2, <2>1, PortAtIs
  <2>3. TargetAt(o, t) =
          Target(Hosts(o)[t.host], PortAt(o, t), Protocols(o)[t.protocol])
    BY <1>2 DEF TargetAt
  <2> QED  BY <2>2, <2>3 DEF Target, TargetDef
<1> QED  BY <1>1, <1>2

LEMMA NodesAre ==
  ASSUME NEW answer \in Seq([host : STRING, port : Port])
  PROVE  /\ Nodes(answer) \in Seq(TargetDef) /\ Len(Nodes(answer)) = Len(answer)
         /\ \A i \in 1..Len(answer) :
              Nodes(answer)[i].port # 0 /\ Nodes(answer)[i].protocol = "mongodbs"
<1> DEFINE node(i) == Target(answer[i].host,
                             IF answer[i].port = 0 THEN 27017 ELSE answer[i].port, "mongodbs")
<1>1. ASSUME NEW i \in 1..Len(answer)
      PROVE  node(i) \in TargetDef /\ node(i).port # 0 /\ node(i).protocol = "mongodbs"
  <2>1. answer[i] \in [host : STRING, port : Port]
    BY ElementOf
  <2>2. answer[i].host \in Text /\ answer[i].port \in Port
    BY <2>1 DEF Text
  <2>3. 27017 \in Port
    BY DEF Port
  <2> QED  BY <2>2, <2>3, MongodbsIsProtocol DEF Target, TargetDef
<1>2. Nodes(answer) = [i \in 1..Len(answer) |-> node(i)]
  <2>1. DOMAIN answer = 1..Len(answer)
    BY DomainOf
  <2> QED  BY <2>1 DEF Nodes
<1>3. Len(answer) \in Nat
  OBVIOUS
<1> HIDE DEF node
<1> QED  BY <1>1, <1>2, <1>3

-----------------------------------------------------------------------------
(* While the pool is made, its targets are wanted and were not rejected.   *)
Expanded == {"interval", "lookup", "main"}

TurnInv ==
  /\ step = "expand" => NeedsTargets(opts) /\ Reached(opts, turn)
  /\ step \in {"expand"} \union Expanded /\ NeedsTargets(opts) => ~Rejected(opts)
  /\ step \in {"permute", "parse", "flags", "pool"} => turn = FirstTurn

LEMMA TurnInvInit ==
  ASSUME StartInit
  PROVE  TurnInv
BY DEF StartInit, TurnInv, Expanded

LEMMA TurnStep ==
  ASSUME StartTypeOK, TurnInv, [StartNext]_startVars
  PROVE  TurnInv'
<1> USE DEF TurnInv, Expanded
<1>1. CASE Resolve
  <2>1. opts \in [DOMAIN Defaults -> Text]
    BY DEF StartTypeOK
  <2>2. Reached(opts, FirstTurn)
    BY <2>1, FirstIsReached
  <2>3. turn = FirstTurn /\ turn' = turn /\ opts' = opts
    BY <1>1 DEF Resolve, poolVars
  <2>4. \/ step' = "done"
        \/ /\ ~(NeedsTargets(opts) /\ Rejected(opts))
           /\ step' = IF NeedsTargets(opts) THEN "expand" ELSE "interval"
    BY <1>1 DEF Resolve, Goto, End
  <2> QED  BY <2>2, <2>3, <2>4
<1>2. CASE Expand
  <2>1. opts \in [DOMAIN Defaults -> Text] /\ Reached(opts, turn) /\ opts' = opts
    BY <1>2 DEF StartTypeOK, Expand
  <2>2. \/ step' = "done"
        \/ step' = "expand" /\ turn' = NextTurn(opts, turn)
    BY <1>2 DEF Expand, End
  <2>3. turn.host <= LastTurn(opts).host
    BY <1>2 DEF Expand
  <2>4. Reached(opts, NextTurn(opts, turn))
    BY <2>1, <2>3, NextTurnIs
  <2> QED  BY <1>2, <2>1, <2>2, <2>4 DEF Expand
<1>3. CASE Permuted \/ ParseOne \/ ParseDone \/ Inform \/ Generate
  BY <1>3 DEF Permuted, ParseOne, ParseDone, Inform, Generate, Goto, End,
       poolVars
<1>4. CASE PermuteWord \/ PermuteSwitch \/ PermuteValue
  BY <1>4 DEF PermuteWord, PermuteSwitch, PermuteValue, Permuting, End, poolVars
<1>5. CASE ExpandDone \/ CheckInterval \/ Lookup \/ Bind \/ Listen \/ RunProbers
  BY <1>5 DEF ExpandDone, CheckInterval, Lookup, Bind, LookupsDone, Listen,
       RunProbers,
       Goto, End, poolVars
<1>6. CASE UNCHANGED startVars
  BY <1>6 DEF startVars, poolVars
<1> QED  BY <1>1, <1>2, <1>3, <1>4, <1>5, <1>6 DEF StartNext, Started

LEMMA EmptySequence ==
  ASSUME NEW Y
  PROVE  <<>> \in Seq(Y)
OBVIOUS

LEMMA TypeInit ==
  ASSUME StartInit
  PROVE  StartTypeOK
<1>1. FirstTurn \in [host : Nat, port : Nat, protocol : Nat]
  BY DEF FirstTurn
<1>2. opts \in [DOMAIN Defaults -> Text]
  BY DefaultsAreText DEF StartInit
<1>3. /\ flagArgs \in Seq(1..Len(given)) /\ nonFlagArgs \in Seq(1..Len(given))
      /\ pool \in Seq(TargetDef) /\ asked \in Seq(TargetDef)
      /\ targets \in Seq(TargetConfig)
  BY EmptySequence DEF StartInit
<1>4. /\ given \in Commands /\ cursor \in Nat /\ cursor >= 1 /\ step = "permute"
      /\ turn = FirstTurn /\ source = 0 /\ outcome = Empty
  BY DEF StartInit
<1> QED  BY <1>1, <1>2, <1>3, <1>4 DEF StartTypeOK

LEMMA Appended ==
  ASSUME NEW Y, NEW s \in Seq(Y), NEW x \in Y
  PROVE  /\ Append(s, x) \in Seq(Y) /\ Len(Append(s, x)) = Len(s) + 1
         /\ \A i \in 1..Len(s) : Append(s, x)[i] = s[i]
         /\ Append(s, x)[Len(s) + 1] = x
OBVIOUS

LEMMA Joined ==
  ASSUME NEW Y, NEW r \in Seq(Y), NEW s \in Seq(Y)
  PROVE  /\ r \o s \in Seq(Y) /\ Len(r \o s) = Len(r) + Len(s)
         /\ \A i \in 1..Len(r) : (r \o s)[i] = r[i]
         /\ \A i \in 1..Len(s) : (r \o s)[Len(r) + i] = s[i]
         /\ \A i \in (Len(r) + 1)..(Len(r) + Len(s)) : (r \o s)[i] = s[i - Len(r)]
OBVIOUS

LEMMA GivenIs ==
  ASSUME StartTypeOK
  PROVE  given \in Seq([name : STRING, word : STRING])
BY StartupAssumption DEF StartTypeOK

(* The arguments on the line that flag.Parse reads.                        *)
LEMMA ArgIs ==
  ASSUME StartTypeOK, NEW i \in 1..Len(Line)
  PROVE  /\ Line \in Seq(1..Len(given)) /\ Line[i] \in 1..Len(given)
         /\ Arg(i) \in [name : STRING, word : STRING]
<1>1. flagArgs \in Seq(1..Len(given)) /\ nonFlagArgs \in Seq(1..Len(given))
  BY DEF StartTypeOK
<1>2. Line \in Seq(1..Len(given))
  BY <1>1, Joined DEF Line
<1>3. Line[i] \in 1..Len(given)
  BY <1>2, ElementOf
<1>4. given[Line[i]] \in [name : STRING, word : STRING]
  BY <1>3, GivenIs, ElementOf
<1> QED  BY <1>2, <1>3, <1>4 DEF Arg

LEMMA ArgumentsTyped ==
  ASSUME StartTypeOK, [StartNext]_startVars
  PROVE  /\ given' = given
         /\ flagArgs' \in Seq(1..Len(given)) /\ nonFlagArgs' \in Seq(1..Len(given))
         /\ cursor' \in Nat /\ cursor' >= 1
         /\ opts' \in [DOMAIN Defaults -> Text]
<1>1. /\ flagArgs \in Seq(1..Len(given)) /\ nonFlagArgs \in Seq(1..Len(given))
      /\ cursor \in Nat /\ cursor >= 1 /\ opts \in [DOMAIN Defaults -> Text]
      /\ Len(given) \in Nat
  <2>1. Len(given) \in Nat
    BY GivenIs
  <2> QED  BY <2>1 DEF StartTypeOK
<1>2. CASE PermuteWord
  <2>1. cursor \in 1..Len(given)
    BY <1>1, <1>2 DEF PermuteWord, Permuting
  <2>2. nonFlagArgs' \in Seq(1..Len(given))
    BY <1>1, <1>2, <2>1, Appended DEF PermuteWord
  <2> QED  BY <1>1, <1>2, <2>2 DEF PermuteWord
<1>3. CASE PermuteSwitch
  <2>1. cursor \in 1..Len(given)
    BY <1>1, <1>3 DEF PermuteSwitch, Permuting
  <2>2. flagArgs' \in Seq(1..Len(given))
    BY <1>1, <1>3, <2>1, Appended DEF PermuteSwitch
  <2> QED  BY <1>1, <1>3, <2>2 DEF PermuteSwitch
<1>4. CASE PermuteValue
  <2>1. CASE cursor = Len(given) \/ IsFlag(given[cursor + 1])
    BY <1>1, <1>4, <2>1 DEF PermuteValue, argVars
  <2>2. CASE ~(cursor = Len(given) \/ IsFlag(given[cursor + 1]))
    <3>1. cursor \in 1..Len(given) /\ cursor + 1 \in 1..Len(given)
      BY <1>1, <1>4, <2>2 DEF PermuteValue, Permuting
    <3>2. <<cursor, cursor + 1>> \in Seq(1..Len(given))
      BY <3>1
    <3>3. flagArgs' = flagArgs \o <<cursor, cursor + 1>> /\ cursor' = cursor + 2
      BY <1>4, <2>2 DEF PermuteValue
    <3>4. flagArgs' \in Seq(1..Len(given))
      BY <1>1, <3>2, <3>3, Joined
    <3>5. cursor' \in Nat /\ cursor' >= 1
      BY <1>1, <3>3
    <3> QED  BY <1>1, <1>4, <2>2, <3>4, <3>5 DEF PermuteValue
  <2> QED  BY <2>1, <2>2
<1>5. CASE ParseOne
  <2> DEFINE a == Arg(cursor)
             v == IF TakesNext(a) THEN Arg(cursor + 1).word
                  ELSE IF a.word = Empty THEN "true" ELSE a.word
           refused == \/ a.name \notin DOMAIN Defaults
                      \/ TakesNext(a) /\ cursor = Len(Line)
                      \/ <<a.name, v>> \in Malformed
  <2>1. CASE refused
    BY <1>1, <1>5, <2>1 DEF ParseOne
  <2>2. CASE ~refused
    <3>1. Len(Line) \in Nat /\ cursor \in 1..Len(Line)
      <4>1. Line \in Seq(1..Len(given))
        BY <1>1, Joined DEF Line
      <4>2. cursor <= Len(Line)
        BY <1>5 DEF ParseOne, ParseEnds
      <4> QED  BY <1>1, <4>1, <4>2
    <3>2. a.word \in STRING
      BY <3>1, ArgIs
    <3>3. TakesNext(a) => Arg(cursor + 1).word \in STRING
      <4>1. TakesNext(a) => cursor + 1 \in 1..Len(Line)
        BY <2>2, <3>1
      <4> QED  BY <4>1, ArgIs
    <3>4. v \in Text
      <4>1. STRING \subseteq Text /\ "true" \in Text
        BY Zenon DEF Text
      <4> QED  BY <3>2, <3>3, <4>1
    <3>5. opts' = [opts EXCEPT ![a.name] = v]
      BY <1>5, <2>2 DEF ParseOne
    <3>6. cursor' = IF TakesNext(a) THEN cursor + 2 ELSE cursor + 1
      BY <1>5, <2>2 DEF ParseOne
    <3> HIDE DEF a, v
    <3>7. opts' \in [DOMAIN Defaults -> Text]
      BY <1>1, <3>4, <3>5
    <3>8. cursor' \in Nat /\ cursor' >= 1
      BY <1>1, <3>6
    <3> QED  BY <1>1, <1>5, <3>7, <3>8 DEF ParseOne
  <2> QED  BY <2>1, <2>2
<1>6. CASE Permuted \/ ParseDone \/ Inform \/ Generate \/ Resolve
  BY <1>1, <1>6 DEF Permuted, ParseDone, Inform, Generate, Resolve, argVars
<1>7. CASE Expand \/ ExpandDone \/ CheckInterval \/ Lookup \/ Bind \/ Listen \/ RunProbers
  BY <1>1, <1>7 DEF Expand, ExpandDone, CheckInterval, Lookup, Bind, Listen,
       RunProbers, argVars
<1>8. CASE UNCHANGED startVars
  BY <1>1, <1>8 DEF startVars, argVars
<1> QED  BY <1>2, <1>3, <1>4, <1>5, <1>6, <1>7, <1>8 DEF StartNext, Started

(* A turn of Expand that goes on.                                          *)
LEMMA ExpandIs ==
  ASSUME StartTypeOK, TurnInv, Expand, step' # "done"
  PROVE  /\ step' = step /\ turn' = NextTurn(opts, turn) /\ Within(opts, turn)
         /\ opts' = opts /\ TargetAt(opts, turn) \in TargetDef
         /\ \E found \in Seq(TargetDef) :
              /\ pool' = pool \o found
              /\ asked' = asked \o [i \in 1..Len(found) |-> TargetAt(opts, turn)]
              /\ Len(found) >= 1 /\ (Len(found) = 1 \/ ClusterAt(opts, turn))
              /\ \A i \in 1..Len(found) : found[i].port # 0
              /\ \/ found = <<TargetAt(opts, turn)>>
                 \/ /\ ClusterAt(opts, turn)
                    /\ \E answer \in SrvAnswers : found = Nodes(answer)
<1> DEFINE t == TargetAt(opts, turn)
<1>1. opts \in [DOMAIN Defaults -> Text] /\ opts' = opts
  BY DEF StartTypeOK, Expand
<1>2. Within(opts, turn) /\ ~Rejected(opts)
  <2>1. Reached(opts, turn) /\ turn.host <= LastTurn(opts).host /\ ~Rejected(opts)
    BY DEF Expand, TurnInv
  <2>2. /\ LastTurn(opts).host \in Nat
        /\ turn.host \in 1..LastTurn(opts).host + 1
        /\ turn.port \in 1..LastTurn(opts).port
        /\ turn.protocol \in 1..LastTurn(opts).protocol
    BY <1>1, <2>1, LastTurnIs DEF Reached
  <2>3. turn.host \in 1..LastTurn(opts).host
    BY <2>1, <2>2
  <2> QED  BY <2>1, <2>2, <2>3 DEF Within
<1>3. t \in TargetDef /\ t.port # 0
  BY <1>1, <1>2, TargetAtIs
<1>4. PICK answer \in SrvAnswers :
        /\ pool' = pool \o OrNodes(ClusterAt(opts, turn), answer, t)
        /\ asked' = asked \o
             [i \in DOMAIN OrNodes(ClusterAt(opts, turn), answer, t) |-> t]
        /\ turn' = NextTurn(opts, turn)
        /\ UNCHANGED <<step, outcome>>
  BY DEF Expand, End
<1> DEFINE found == OrNodes(ClusterAt(opts, turn), answer, t)
<1>5. answer \in Seq([host : STRING, port : Port])
  BY StartupAssumption
<1>6. /\ found \in Seq(TargetDef) /\ Len(found) >= 1
      /\ \A i \in 1..Len(found) : found[i].port # 0
      /\ Len(found) = 1 \/ ClusterAt(opts, turn)
      /\ \/ found = <<t>>
         \/ ClusterAt(opts, turn) /\ \E x \in SrvAnswers : found = Nodes(x)
  <2>1. CASE ClusterAt(opts, turn) /\ answer # <<>>
    <3>1. found = Nodes(answer)
      BY <2>1 DEF OrNodes
    <3>2. Len(answer) >= 1
      BY <1>5, <2>1
    <3> HIDE DEF found, t
    <3> QED  BY <1>5, <2>1, <3>1, <3>2, NodesAre
  <2>2. CASE ~(ClusterAt(opts, turn) /\ answer # <<>>)
    <3>1. found = <<t>>
      BY <2>2 DEF OrNodes
    <3> HIDE DEF found, t
    <3> QED  BY <1>3, <3>1, Singleton
  <2> QED  BY <2>1, <2>2
<1>7. DOMAIN found = 1..Len(found)
  BY <1>6, DomainOf
<1> HIDE DEF found, t
<1>8. pool' = pool \o found /\ asked' = asked \o [i \in 1..Len(found) |-> t]
  BY <1>4, <1>7 DEF found
<1> QED  BY <1>1, <1>2, <1>3, <1>4, <1>6, <1>8 DEF t

LEMMA PoolTyped ==
  ASSUME StartTypeOK, TurnInv, [StartNext]_startVars
  PROVE  /\ turn' \in Turns
         /\ pool' \in Seq(TargetDef) /\ asked' \in Seq(TargetDef)
<1>1. turn \in Turns /\ pool \in Seq(TargetDef) /\ asked \in Seq(TargetDef)
  BY DEF StartTypeOK, Turns
<1>2. CASE Expand
  <2>1. CASE step' = "done"
    <3>1. step = "expand"
      BY <1>2 DEF Expand
    <3>2. UNCHANGED poolVars
      BY <1>2, <2>1, <3>1 DEF Expand
    <3> QED  BY <1>1, <3>2 DEF poolVars
  <2>2. CASE step' # "done"
    <3> DEFINE t == TargetAt(opts, turn)
    <3>1. turn' = NextTurn(opts, turn) /\ Within(opts, turn) /\ t \in TargetDef
      BY <1>2, <2>2, ExpandIs
    <3>2. PICK found \in Seq(TargetDef) :
            pool' = pool \o found /\ asked' = asked \o [i \in 1..Len(found) |-> t]
      BY <1>2, <2>2, ExpandIs
    <3> HIDE DEF t
    <3>3. [i \in 1..Len(found) |-> t] \in Seq(TargetDef)
      BY <3>1
    <3>4. pool' \in Seq(TargetDef) /\ asked' \in Seq(TargetDef)
      BY <1>1, <3>2, <3>3, Joined
    <3>5. Reached(opts, turn) /\ turn.host <= LastTurn(opts).host
      BY <1>2 DEF Expand, TurnInv
    <3>6. Reached(opts, turn')
      BY <3>1, <3>5, NextTurnIs DEF StartTypeOK
    <3> QED  BY <3>4, <3>6 DEF Reached
  <2> QED  BY <2>1, <2>2
<1>3. CASE UNCHANGED poolVars
  BY <1>1, <1>3 DEF poolVars
<1>4. CASE Permuted \/ ParseOne \/ ParseDone \/ Inform \/ Generate \/ Resolve
  BY <1>3, <1>4 DEF Permuted, ParseOne, ParseDone, Inform, Generate, Resolve
<1>5. CASE PermuteWord \/ PermuteSwitch \/ PermuteValue
  BY <1>3, <1>5 DEF PermuteWord, PermuteSwitch, PermuteValue
<1>6. CASE ExpandDone \/ CheckInterval \/ Lookup \/ Bind \/ Listen \/ RunProbers
  BY <1>3, <1>6 DEF ExpandDone, CheckInterval, Lookup, Bind, Listen, RunProbers
<1>7. CASE UNCHANGED startVars
  BY <1>3, <1>7 DEF startVars
<1> QED  BY <1>2, <1>4, <1>5, <1>6, <1>7 DEF StartNext, Started

(* The address of a target and the source, of the wanted family.           *)
LEMMA ResolvedIs ==
  ASSUME NEW o, NEW f \in SUBSET {4, 6}
  PROVE  /\ Resolved(o, f) \in {0, 4, 6}
         /\ On(o, "ipv4") => Resolved(o, f) \in {0, 4}
         /\ On(o, "ipv6") /\ ~On(o, "ipv4") => Resolved(o, f) \in {0, 6}
BY DEF Resolved

LEMMA SourceIs ==
  ASSUME NEW o \in [DOMAIN Defaults -> Text],
         NEW s \in SourceFamilies(o)
  PROVE  /\ s \in {4, 6}
         /\ o.interface \in DOMAIN Nics \ DOMAIN Addresses =>
              /\ On(o, "ipv4") => s = 4
              /\ On(o, "ipv6") => s = 6
<1>1. CASE o.interface \in DOMAIN Addresses
  <2>1. SourceFamilies(o) = {Addresses[o.interface]}
    BY <1>1, Zenon DEF SourceFamilies
  <2>2. Addresses[o.interface] \in {4, 6}
    BY <1>1, StartupAssumption
  <2> QED  BY <1>1, <2>1, <2>2
<1>2. CASE o.interface \in DOMAIN Nics \ DOMAIN Addresses
  <2> DEFINE nic == Nics[o.interface]
  <2>1. SourceFamilies(o) = FirstUsable(o, nic)
    BY <1>2, Zenon DEF SourceFamilies
  <2>2. nic \in Seq([family : {4, 6}, linklocal : BOOLEAN])
    BY <1>2, StartupAssumption
  <2> HIDE DEF nic
  <2>3. PICK i \in DOMAIN nic : s = nic[i].family /\ Usable(o, nic[i])
    BY <2>1 DEF FirstUsable
  <2>4. nic[i] \in [family : {4, 6}, linklocal : BOOLEAN]
    BY <2>2, <2>3, DomainOf, ElementOf
  <2> QED  BY <2>3, <2>4 DEF Usable
<1>3. CASE o.interface \notin DOMAIN Nics \union DOMAIN Addresses
  <2>1. SourceFamilies(o) = {}
    BY <1>3, Zenon DEF SourceFamilies
  <2> QED  BY <2>1
<1> QED  BY <1>1, <1>2, <1>3

LEMMA LookupIs ==
  ASSUME StartTypeOK, Lookup
  PROVE  /\ Len(targets) + 1 \in 1..Len(pool)
         /\ \E t \in TargetConfig :
              /\ targets' = Append(targets, t)
              /\ Target(t.host, t.port, t.protocol) = pool[Len(targets) + 1]
              /\ t.ip = 0 => t.retry
              /\ t.host \notin DOMAIN Literals =>
                   /\ On(opts, "ipv4") => t.ip \in {0, 4}
                   /\ On(opts, "ipv6") /\ ~On(opts, "ipv4") => t.ip \in {0, 6}
<1> DEFINE d == pool[Len(targets) + 1]
<1>1. Len(targets) + 1 \in 1..Len(pool)
  <2>1. Len(targets) \in Nat /\ Len(pool) \in Nat
    BY DEF StartTypeOK
  <2> QED  BY <2>1 DEF Lookup
<1>2. d \in TargetDef
  BY <1>1, ElementOf DEF StartTypeOK
<1>3. PICK ip \in IF d.host \in DOMAIN Literals THEN {Literals[d.host]}
                  ELSE {Resolved(opts, f) : f \in SUBSET {4, 6}} :
        targets' = Append(targets, [host |-> d.host, port |-> d.port, protocol |-> d.protocol,
                                    ip |-> ip, retry |-> RetryResolve(opts, d.host, ip)])
  BY DEF Lookup
<1>4. d.host \in DOMAIN Literals => ip \in {4, 6}
  BY <1>3, StartupAssumption
<1>5. d.host \notin DOMAIN Literals =>
        /\ ip \in {0, 4, 6}
        /\ On(opts, "ipv4") => ip \in {0, 4}
        /\ On(opts, "ipv6") /\ ~On(opts, "ipv4") => ip \in {0, 6}
  BY <1>3, ResolvedIs
<1> DEFINE t == [host |-> d.host, port |-> d.port, protocol |-> d.protocol,
                 ip |-> ip, retry |-> RetryResolve(opts, d.host, ip)]
<1> HIDE DEF d
<1>6. t \in TargetConfig
  BY <1>2, <1>4, <1>5 DEF TargetDef, TargetConfig, RetryResolve
<1>7. Target(t.host, t.port, t.protocol) = d
  BY <1>2 DEF Target, TargetDef
<1>8. t.ip = 0 => t.retry
  <2>1. ip = 0 => d.host \notin DOMAIN Literals
    BY <1>4
  <2>2. ip = 0 => RetryResolve(opts, d.host, ip)
    BY <2>1, Zenon DEF RetryResolve
  <2>3. t.ip = ip /\ t.retry = RetryResolve(opts, d.host, ip)
    OBVIOUS
  <2> QED  BY <2>2, <2>3, Zenon
<1> QED  BY <1>1, <1>3, <1>5, <1>6, <1>7, <1>8 DEF d

LEMMA ResultTyped ==
  ASSUME StartTypeOK, [StartNext]_startVars
  PROVE  /\ step' \in {"permute", "parse", "flags", "pool", "expand", "interval", "lookup",
                       "main", "done"}
         /\ targets' \in Seq(TargetConfig)
         /\ source' \in {0, 4, 6}
         /\ outcome' \in Modes \union {Empty, "success", "general", "usage", "storage"}
<1>1. /\ step \in {"permute", "parse", "flags", "pool", "expand", "interval", "lookup",
                   "main", "done"}
      /\ targets \in Seq(TargetConfig)
      /\ source \in {0, 4, 6}
      /\ outcome \in Modes \union {Empty, "success", "general", "usage", "storage"}
  BY DEF StartTypeOK
<1> USE DEF Goto, End
<1>2. CASE Permuted \/ ParseOne \/ ParseDone \/ Inform \/ Generate \/ Resolve
  BY <1>1, <1>2 DEF Permuted, ParseOne, ParseDone, Inform, Generate, Resolve
<1>3. CASE PermuteWord \/ PermuteSwitch \/ PermuteValue
  BY <1>1, <1>3 DEF PermuteWord, PermuteSwitch, PermuteValue, Permuting
<1>4. CASE Expand \/ ExpandDone \/ CheckInterval
  BY <1>1, <1>4 DEF Expand, ExpandDone, CheckInterval
<1>5. CASE Lookup
  <2>1. PICK t \in TargetConfig : targets' = Append(targets, t)
    BY <1>5, LookupIs
  <2> QED  BY <1>1, <1>5, <2>1, Appended DEF Lookup
<1>6. CASE Bind
  <2>1. source' = source \/ source' \in SourceFamilies(opts)
    BY <1>6 DEF Bind
  <2>2. source' \in {0, 4, 6}
    BY <1>1, <2>1, SourceIs DEF StartTypeOK
  <2> QED  BY <1>1, <1>6, <2>2 DEF Bind, LookupsDone
<1>7. CASE Listen
  BY <1>1, <1>7 DEF Listen, Modes
<1>8. CASE RunProbers
  BY <1>1, <1>8 DEF RunProbers, Modes
<1>9. CASE UNCHANGED startVars
  BY <1>1, <1>9 DEF startVars
<1> QED  BY <1>2, <1>3, <1>4, <1>5, <1>6, <1>7, <1>8, <1>9 DEF StartNext, Started

LEMMA TypeStep ==
  ASSUME StartTypeOK, TurnInv, [StartNext]_startVars
  PROVE  StartTypeOK'
<1>1. /\ given' = given
      /\ flagArgs' \in Seq(1..Len(given)) /\ nonFlagArgs' \in Seq(1..Len(given))
      /\ cursor' \in Nat /\ cursor' >= 1
      /\ opts' \in [DOMAIN Defaults -> Text]
  BY ArgumentsTyped
<1>2. turn' \in Turns /\ pool' \in Seq(TargetDef) /\ asked' \in Seq(TargetDef)
  BY PoolTyped
<1>3. given \in Commands
  BY DEF StartTypeOK
<1> QED  BY <1>1, <1>2, <1>3, ResultTyped DEF StartTypeOK, Turns

(* The types of a start, and that the loops over the targets stay within   *)
(* the words of the command line (ProcessUserInput, ResolveTargetPool).    *)
THEOREM StartTyped == StartSpec => [](StartTypeOK /\ TurnInv)
<1>1. StartInit => StartTypeOK /\ TurnInv
  BY TypeInit, TurnInvInit
<1>2. StartTypeOK /\ TurnInv /\ [StartNext]_startVars => StartTypeOK' /\ TurnInv'
  BY TypeStep, TurnStep
<1> QED  BY <1>1, <1>2, PTL DEF StartSpec

-----------------------------------------------------------------------------
(* The run: the targets looked up so far, in the order of the pool, and    *)
(* what main finds.                                                        *)
FamilyOf(t) ==
  t.host \notin DOMAIN Literals =>
    /\ On(opts, "ipv4") => t.ip \in {0, 4}
    /\ On(opts, "ipv6") => t.ip \in {0, 6}

LookedUp ==
  /\ Len(targets) <= Len(pool)
  /\ \A i \in 1..Len(targets) :
       /\ Target(targets[i].host, targets[i].port, targets[i].protocol) = pool[i]
       /\ targets[i].ip = 0 => targets[i].retry
       /\ FamilyOf(targets[i])

SourceFits ==
  /\ opts.interface # Empty => source # 0
  /\ opts.interface \in DOMAIN Nics \ (DOMAIN Addresses \union {Empty}) =>
       /\ On(opts, "ipv4") => source = 4
       /\ On(opts, "ipv6") => source = 6

RunInv ==
  /\ step \in {"expand"} \union Expanded => ~(On(opts, "ipv4") /\ On(opts, "ipv6"))
  /\ step \notin {"lookup", "main", "done"} => targets = <<>>
  /\ LookedUp
  /\ step \in Expanded /\ NeedsTargets(opts) => pool # <<>>
  /\ step = "main" => Len(targets) = Len(pool) /\ SourceFits
  /\ outcome \in Modes => step = "done"

LEMMA EmptyIsNoMode == Empty \notin Modes
BY Zenon DEF Empty, Modes

LEMMA RunInit ==
  ASSUME StartInit
  PROVE  RunInv /\ RunFits
<1>1. step = "permute" /\ targets = <<>> /\ outcome = Empty /\ pool = <<>>
  BY DEF StartInit
<1>2. LookedUp
  BY <1>1 DEF LookedUp
<1>3. outcome \notin Modes
  BY <1>1, EmptyIsNoMode
<1> QED  BY <1>1, <1>2, <1>3 DEF RunInv, RunFits, Expanded

(* A step that leaves the pool, the flags, the targets and the source.     *)
LEMMA LookedUpKept ==
  ASSUME LookedUp, \/ UNCHANGED <<opts, pool, targets>>
                   \/ targets = <<>> /\ targets' = targets /\ Len(pool') \in Nat
  PROVE  LookedUp'
<1>1. CASE UNCHANGED <<opts, pool, targets>>
  BY <1>1 DEF LookedUp, FamilyOf, On
<1>2. CASE targets = <<>> /\ targets' = targets /\ Len(pool') \in Nat
  BY <1>2 DEF LookedUp
<1> QED  BY <1>1, <1>2

LEMMA LookedUpStep ==
  ASSUME StartTypeOK, RunInv, Lookup
  PROVE  LookedUp'
<1>1. PICK t \in TargetConfig :
        /\ targets' = Append(targets, t)
        /\ Target(t.host, t.port, t.protocol) = pool[Len(targets) + 1]
        /\ t.ip = 0 => t.retry
        /\ t.host \notin DOMAIN Literals =>
             /\ On(opts, "ipv4") => t.ip \in {0, 4}
             /\ On(opts, "ipv6") /\ ~On(opts, "ipv4") => t.ip \in {0, 6}
  BY LookupIs
<1>2. /\ targets \in Seq(TargetConfig)
      /\ Len(targets) \in Nat /\ Len(pool) \in Nat /\ Len(targets) + 1 \in 1..Len(pool)
  <2>1. Len(targets) + 1 \in 1..Len(pool)
    BY LookupIs
  <2>2. targets \in Seq(TargetConfig) /\ pool \in Seq(TargetDef)
    BY DEF StartTypeOK
  <2> QED  BY <2>1, <2>2
<1>3. /\ Len(targets') = Len(targets) + 1
      /\ \A i \in 1..Len(targets) : targets'[i] = targets[i]
      /\ targets'[Len(targets) + 1] = t
  BY <1>1, <1>2, Appended
<1>4. opts' = opts /\ pool' = pool /\ FamilyOf(t)
  BY <1>1 DEF Lookup, poolVars, RunInv, Expanded, FamilyOf
<1>5. ASSUME NEW i \in 1..Len(targets')
      PROVE  /\ Target(targets'[i].host, targets'[i].port, targets'[i].protocol) = pool[i]
             /\ targets'[i].ip = 0 => targets'[i].retry
             /\ FamilyOf(targets'[i])
  <2>1. CASE i = Len(targets) + 1
    BY <1>1, <1>3, <1>4, <2>1
  <2>2. CASE i \in 1..Len(targets)
    BY <1>3, <2>2 DEF RunInv, LookedUp
  <2> QED  BY <1>2, <1>3, <2>1, <2>2
<1> QED  BY <1>2, <1>3, <1>4, <1>5 DEF LookedUp, FamilyOf, On

LEMMA BindIs ==
  ASSUME StartTypeOK, RunInv, Bind, step' # "done"
  PROVE  step' = "main" /\ Len(targets) = Len(pool) /\ SourceFits'
<1>1. opts \in [DOMAIN Defaults -> Text] /\ opts' = opts /\ Len(targets) = Len(pool)
  BY DEF StartTypeOK, Bind, LookupsDone
<1>2. /\ step' = "main"
      /\ source' \in IF opts.interface = Empty THEN {source} ELSE SourceFamilies(opts)
  BY DEF Bind, Goto, End
<1>3. CASE opts.interface = Empty
  BY <1>1, <1>2, <1>3 DEF SourceFits
<1>4. CASE opts.interface # Empty
  <2>1. source' \in SourceFamilies(opts)
    BY <1>2, <1>4
  <2>2. /\ source' \in {4, 6}
        /\ opts.interface \in DOMAIN Nics \ DOMAIN Addresses =>
             /\ On(opts, "ipv4") => source' = 4
             /\ On(opts, "ipv6") => source' = 6
    BY <1>1, <2>1, SourceIs
  <2> QED  BY <1>1, <1>2, <2>2 DEF SourceFits, On
<1> QED  BY <1>1, <1>2, <1>3, <1>4

LEMMA RunStep ==
  ASSUME StartTypeOK, StartTypeOK', TurnInv, RunInv,
         [StartNext]_startVars
  PROVE  RunInv'
<1>1. Len(pool') \in Nat /\ Len(targets) \in Nat /\ Len(pool) \in Nat
  <2>1. /\ pool' \in Seq(TargetDef) /\ pool \in Seq(TargetDef)
        /\ targets \in Seq(TargetConfig)
    BY DEF StartTypeOK
  <2> QED  BY <2>1
<1>2. CASE PermuteWord \/ PermuteSwitch \/ PermuteValue
  <2>1. step = "permute" /\ UNCHANGED <<pool, targets>> /\ step' \in {"permute", "done"}
    BY <1>2 DEF PermuteWord, PermuteSwitch, PermuteValue, Permuting, poolVars,
         End
  <2>2. targets = <<>> /\ outcome \notin Modes /\ outcome' \notin Modes
    BY <1>2, <2>1 DEF RunInv, PermuteWord, PermuteSwitch, PermuteValue, Modes, End
  <2>3. LookedUp'
    BY <1>1, <2>1, <2>2, LookedUpKept DEF RunInv
  <2> QED  BY <2>1, <2>2, <2>3 DEF RunInv, Expanded
<1>3. CASE Permuted \/ ParseOne \/ ParseDone \/ Inform \/ Generate
  <2>1. /\ step \in {"permute", "parse", "flags", "pool"} /\ UNCHANGED <<pool, targets>>
        /\ step' \in {"parse", "flags", "pool", "done"}
    BY <1>3 DEF Permuted, ParseOne, ParseDone, Inform, Generate, poolVars,
         Goto, End
  <2>2. targets = <<>> /\ outcome \notin Modes /\ outcome' \notin Modes
    BY <1>3, <2>1 DEF RunInv, Permuted, ParseOne, ParseDone, Inform, Generate,
         Modes,
         Goto, End
  <2>3. LookedUp'
    BY <1>1, <2>1, <2>2, LookedUpKept DEF RunInv
  <2> QED  BY <2>1, <2>2, <2>3 DEF RunInv, Expanded
<1>4. CASE Resolve
  <2>1. /\ step = "pool" /\ UNCHANGED <<opts, pool, targets>>
        /\ \/ step' = "done"
           \/ /\ ~(On(opts, "ipv4") /\ On(opts, "ipv6"))
              /\ step' = IF NeedsTargets(opts) THEN "expand" ELSE "interval"
    BY <1>4 DEF Resolve, poolVars, Goto, End
  <2>2. targets = <<>> /\ outcome \notin Modes /\ outcome' \notin Modes
    BY <1>4, <2>1 DEF RunInv, Resolve, Modes, Goto, End
  <2>3. LookedUp'
    BY <1>1, <2>1, <2>2, LookedUpKept DEF RunInv
  <2> QED  BY <2>1, <2>2, <2>3 DEF RunInv, Expanded
<1>5. CASE Expand \/ ExpandDone
  <2>1. /\ step = "expand" /\ UNCHANGED <<opts, targets>>
        /\ \/ step' \in {"expand", "done"}
           \/ step' = "interval" /\ pool # <<>> /\ pool' = pool
    BY <1>5 DEF Expand, ExpandDone, poolVars, Goto, End
  <2>2. targets = <<>> /\ outcome \notin Modes /\ outcome' \notin Modes
    BY <1>5, <2>1 DEF RunInv, Expand, ExpandDone, Modes, Goto, End
  <2>3. LookedUp'
    BY <1>1, <2>1, <2>2, LookedUpKept DEF RunInv
  <2> QED  BY <2>1, <2>2, <2>3 DEF RunInv, Expanded, On
<1>6. CASE CheckInterval
  <2>1. /\ step = "interval" /\ UNCHANGED <<opts, pool, targets>>
        /\ step' \in {"lookup", "done"} /\ outcome' \in {outcome, "usage"}
    BY <1>6 DEF CheckInterval, poolVars, Goto, End
  <2>2. LookedUp'
    BY <2>1, LookedUpKept DEF RunInv
  <2> QED  BY <2>1, <2>2 DEF RunInv, Expanded, Modes, On
<1>7. CASE Lookup
  <2>1. step = "lookup" /\ UNCHANGED <<opts, pool, step, outcome>>
    BY <1>7 DEF Lookup, poolVars
  <2>2. LookedUp'
    BY <1>7, LookedUpStep
  <2> QED  BY <2>1, <2>2 DEF RunInv, Expanded, On
<1>8. CASE Bind
  <2>1. /\ step = "lookup" /\ UNCHANGED <<opts, pool, targets>>
        /\ step' \in {"main", "done"} /\ outcome' \in {outcome, "usage"}
    BY <1>8 DEF Bind, LookupsDone, poolVars, Goto, End
  <2>2. LookedUp'
    BY <2>1, LookedUpKept DEF RunInv
  <2>3. step' = "main" => Len(targets) = Len(pool) /\ SourceFits'
    BY <1>8, BindIs
  <2> QED  BY <2>1, <2>2, <2>3 DEF RunInv, Expanded, Modes, On
<1>9. CASE Listen \/ RunProbers
  <2>1. UNCHANGED <<opts, pool, targets>> /\ step' = "done"
    BY <1>9 DEF Listen, RunProbers, poolVars, End
  <2>2. LookedUp'
    BY <2>1, LookedUpKept DEF RunInv
  <2> QED  BY <2>1, <2>2 DEF RunInv, Expanded
<1>10. CASE UNCHANGED startVars
  <2>1. UNCHANGED <<opts, pool, targets, step, outcome, source>>
    BY <1>10 DEF startVars, poolVars
  <2>2. LookedUp'
    BY <2>1, LookedUpKept DEF RunInv
  <2> QED  BY <2>1, <2>2 DEF RunInv, Expanded, On, SourceFits
<1> QED  BY <1>2, <1>3, <1>4, <1>5, <1>6, <1>7, <1>8, <1>9, <1>10 DEF StartNext, Started


(* What main starts fits the targets it was given.                         *)
LEMMA ModeFits ==
  ASSUME StartTypeOK, RunInv, Listen \/ RunProbers, outcome' \in Modes
  PROVE  RunFits'
<1>1. /\ step = "main" /\ UNCHANGED <<opts, pool, targets, source>>
      /\ targets \in Seq(TargetConfig) /\ pool \in Seq(TargetDef)
  BY DEF Listen, RunProbers, poolVars, StartTypeOK
<1>2. /\ DOMAIN targets = 1..Len(targets) /\ Len(targets) \in Nat
      /\ Len(targets) = Len(pool)
      /\ targets # <<>> => Len(targets) >= 1
      /\ pool # <<>> => Len(pool) >= 1
  BY <1>1, DomainOf DEF RunInv
<1>3. NeedsTargets(opts) => targets # <<>>
  BY <1>1, <1>2 DEF RunInv, Expanded
<1>4. /\ (outcome' = "listener") = (targets = <<>>)
      /\ outcome' = "listener" => ~AsksForTargets(opts)
      /\ outcome' = "fleet" => Len(targets) > 1
      /\ outcome' = "single" => Len(targets) = 1
  <2>1. CASE Listen
    <3>1. outcome' = "listener" /\ targets = <<>>
      BY <2>1 DEF Listen, End, Modes
    <3>2. ~AsksForTargets(opts)
      BY <1>3, <3>1 DEF NeedsTargets
    <3> QED  BY <3>1, <3>2
  <2>2. CASE RunProbers
    <3>1. outcome' = IF On(opts, "traceroute") THEN "traceroute"
                     ELSE IF Len(targets) > 1 THEN "fleet" ELSE "single"
      BY <2>2 DEF RunProbers, End, Modes
    <3>2. targets # <<>>
      BY <1>3, <2>2 DEF RunProbers, NeedsTargets
    <3> QED  BY <1>2, <3>1, <3>2
  <2> QED  BY <2>1, <2>2
<1>5. \A i \in DOMAIN targets :
        /\ Target(targets[i].host, targets[i].port, targets[i].protocol) = pool[i]
        /\ targets[i].ip = 0 => targets[i].retry
        /\ FamilyOf(targets[i])
  BY <1>2 DEF RunInv, LookedUp
<1>6. (On(opts, "ipv4") => OfFamily(4)) /\ (On(opts, "ipv6") => OfFamily(6))
  <2>1. SourceFits
    BY <1>1 DEF RunInv
  <2> QED  BY <1>5, <2>1 DEF OfFamily, FamilyOf, SourceFits
<1>7. opts.interface # Empty => source # 0
  BY <1>1 DEF RunInv, SourceFits
<1>8. outcome' = "single" => (targets[1].ip = 0 => targets[1].retry)
  BY <1>2, <1>4, <1>5
<1> QED  BY <1>1, <1>4, <1>5, <1>6, <1>7, <1>8 DEF RunFits, OfFamily, On,
     AsksForTargets

LEMMA RunFitsStep ==
  ASSUME StartTypeOK, RunInv, RunFits, [StartNext]_startVars
  PROVE  RunFits'
<1>1. CASE (Listen \/ RunProbers) /\ outcome' \in Modes
  BY <1>1, ModeFits
<1>2. CASE outcome' \notin Modes
  BY <1>2 DEF RunFits
<1>3. CASE UNCHANGED startVars
  BY <1>3 DEF startVars, poolVars, RunFits, OfFamily, On, AsksForTargets
<1>4. ASSUME StartNext, ~(Listen \/ RunProbers), ~UNCHANGED startVars
      PROVE  outcome' \notin Modes
  <2>1. step # "done" => outcome \notin Modes
    BY DEF RunInv
  <2> USE DEF Goto, End, Modes
  <2>2. CASE PermuteWord \/ PermuteSwitch \/ PermuteValue \/ Permuted
    BY <2>1, <2>2 DEF PermuteWord, PermuteSwitch, PermuteValue, Permuting,
         Permuted
  <2>3. CASE ParseOne \/ ParseDone \/ Inform \/ Generate \/ Resolve
    BY <2>1, <2>3 DEF ParseOne, ParseDone, Inform, Generate, Resolve
  <2>4. CASE Expand \/ ExpandDone \/ CheckInterval \/ Lookup \/ Bind
    BY <2>1, <2>4 DEF Expand, ExpandDone, CheckInterval, Lookup, Bind,
         LookupsDone
  <2> QED  BY <1>4, <2>2, <2>3, <2>4 DEF StartNext, Started
<1> QED  BY <1>1, <1>2, <1>3, <1>4

(* The mode fits what was asked for, whatever the machine's interfaces and *)
(* the name servers answer.                                                *)
THEOREM RunCorrect == StartSpec => []RunFits
<1>1. StartInit => RunInv /\ RunFits
  BY RunInit
<1>2. StartTypeOK /\ StartTypeOK' /\ TurnInv /\ RunInv /\ RunFits /\ [StartNext]_startVars =>
        RunInv' /\ RunFits'
  BY RunStep, RunFitsStep
<1> QED  BY <1>1, <1>2, StartTyped, PTL DEF StartSpec

-----------------------------------------------------------------------------
(* The arguments as permuteArgs arranges those before c: F are the places  *)
(* of the flags and their values, in order, each value after its flag and  *)
(* no flag left out; W are places of words.                                *)
Arranged(F, W, c) ==
  /\ c \in 1..Len(given) + 1
  /\ \A i \in 1..Len(F) : F[i] \in 1..(c - 1)
  /\ \A i, j \in 1..Len(F) : i < j => F[i] < F[j]
  /\ \A p \in 1..(c - 1) : IsFlag(given[p]) => \E i \in 1..Len(F) : F[i] = p
  /\ \A i \in 1..Len(F) :
       TakesNext(given[F[i]]) =>
         /\ i + 1 \in 1..Len(F) /\ F[i + 1] = F[i] + 1
         /\ ~IsFlag(given[F[i] + 1])
  /\ \A i \in 1..Len(F) :
       ~IsFlag(given[F[i]]) => i > 1 /\ TakesNext(given[F[i - 1]])
  /\ \A i \in 1..Len(W) : ~IsFlag(given[W[i]])

LEMMA EmptyIsNoName == Empty \notin DOMAIN Defaults
<1>1. DOMAIN Defaults = Switches \union FlagsRequiringValue
  BY DEF Defaults
<1>2. Empty \notin Switches /\ Empty \notin FlagsRequiringValue
  BY Zenon DEF Empty, Switches, FlagsRequiringValue
<1> QED  BY <1>1, <1>2

LEMMA TakesNextIsFlag ==
  ASSUME NEW a, TakesNext(a)
  PROVE  IsFlag(a)
<1>1. FlagsRequiringValue \subseteq DOMAIN Defaults
  BY DEF Defaults
<1> QED  BY <1>1, EmptyIsNoName DEF TakesNext, IsFlag

LEMMA DashIsFlag ==
  IsFlag(Dash) /\ ~TakesNext(Dash) /\ Dash.name \notin DOMAIN Defaults
<1>1. Dash.name = "-"
  BY DEF Dash, Flag
<1>2. "-" # Empty
  BY Zenon DEF Empty
<1>3. "-" \notin Switches \union FlagsRequiringValue
  BY DEF Switches, FlagsRequiringValue
<1> QED  BY <1>1, <1>2, <1>3 DEF IsFlag, TakesNext, Defaults

LEMMA WordArranged ==
  ASSUME NEW Y, NEW F \in Seq(Y), NEW W \in Seq(Nat), NEW c \in Nat, Len(given) \in Nat,
         Arranged(F, W, c), c <= Len(given), ~IsFlag(given[c])
  PROVE  Arranged(F, Append(W, c), c + 1)
<1> DEFINE X == Append(W, c)
<1>1. /\ Len(X) = Len(W) + 1 /\ \A i \in 1..Len(W) : X[i] = W[i]
      /\ X[Len(W) + 1] = c /\ Len(W) \in Nat /\ Len(F) \in Nat
  BY Appended
<1> HIDE DEF X
<1>2. ASSUME NEW i \in 1..Len(X)
      PROVE  ~IsFlag(given[X[i]])
  <2>1. i = Len(W) + 1 \/ i \in 1..Len(W)
    BY <1>1
  <2> QED  BY <1>1, <2>1 DEF Arranged
<1>3. c + 1 \in 1..Len(given) + 1 /\ (c + 1) - 1 = c
  BY DEF Arranged
<1>4. \A i \in 1..Len(F) : F[i] \in 1..c
  BY DEF Arranged
<1>5. \A p \in 1..c : IsFlag(given[p]) => \E i \in 1..Len(F) : F[i] = p
  <2>1. \A p \in 1..c : p = c \/ p \in 1..(c - 1)
    OBVIOUS
  <2> QED  BY <2>1 DEF Arranged
<1>6. Arranged(F, X, c + 1)
  BY <1>2, <1>3, <1>4, <1>5 DEF Arranged
<1> QED  BY <1>6 DEF X

LEMMA SwitchArranged ==
  ASSUME NEW F \in Seq(Nat), NEW W, NEW c \in Nat, Len(given) \in Nat,
         Arranged(F, W, c), c <= Len(given), IsFlag(given[c]), ~TakesNext(given[c])
  PROVE  Arranged(Append(F, c), W, c + 1)
<1> DEFINE G == Append(F, c)
           n == Len(F)
<1>1. /\ Len(G) = n + 1 /\ \A i \in 1..n : G[i] = F[i]
      /\ G[n + 1] = c /\ n \in Nat
  BY Appended
<1> HIDE DEF G, n
<1>2. \A i \in 1..Len(G) : i = n + 1 \/ i \in 1..n
  BY <1>1
<1>3. \A i \in 1..n : F[i] \in 1..(c - 1) /\ G[i] \in 1..(c - 1)
  BY <1>1 DEF Arranged, n
<1>4. c + 1 \in 1..Len(given) + 1 /\ (c + 1) - 1 = c /\ c >= 1
  BY DEF Arranged
<1>5. \A i \in 1..Len(G) : G[i] \in 1..c
  BY <1>1, <1>2, <1>3, <1>4
<1>6. ASSUME NEW i \in 1..Len(G), NEW j \in 1..Len(G), i < j
      PROVE  G[i] < G[j]
  <2>1. i \in 1..n
    BY <1>1, <1>6
  <2>2. CASE j \in 1..n
    BY <1>1, <1>6, <2>1, <2>2 DEF Arranged, n
  <2>3. CASE j = n + 1
    BY <1>1, <1>3, <1>4, <2>1, <2>3
  <2> QED  BY <1>2, <2>2, <2>3
<1>7. ASSUME NEW p \in 1..c, IsFlag(given[p])
      PROVE  \E i \in 1..Len(G) : G[i] = p
  <2>1. CASE p = c
    BY <1>1, <2>1
  <2>2. CASE p \in 1..(c - 1)
    <3>1. PICK i \in 1..n : F[i] = p
      BY <1>7, <2>2 DEF Arranged, n
    <3> QED  BY <1>1, <3>1
  <2> QED  BY <2>1, <2>2
<1>8. ASSUME NEW i \in 1..Len(G), TakesNext(given[G[i]])
      PROVE  /\ i + 1 \in 1..Len(G) /\ G[i + 1] = G[i] + 1
             /\ ~IsFlag(given[G[i] + 1])
  <2>1. i \in 1..n
    BY <1>1, <1>2, <1>8
  <2>2. i + 1 \in 1..n /\ F[i + 1] = F[i] + 1 /\ ~IsFlag(given[F[i] + 1])
    BY <1>1, <1>8, <2>1 DEF Arranged, n
  <2> QED  BY <1>1, <2>1, <2>2
<1>9. ASSUME NEW i \in 1..Len(G), ~IsFlag(given[G[i]])
      PROVE  i > 1 /\ TakesNext(given[G[i - 1]])
  <2>1. i \in 1..n
    BY <1>1, <1>2, <1>9
  <2>2. i > 1 /\ TakesNext(given[F[i - 1]])
    BY <1>1, <1>9, <2>1 DEF Arranged, n
  <2>3. i - 1 \in 1..n
    BY <1>1, <2>1, <2>2
  <2> QED  BY <1>1, <2>2, <2>3
<1>10. Arranged(G, W, c + 1)
  BY <1>4, <1>5, <1>6, <1>7, <1>8, <1>9 DEF Arranged
<1> QED  BY <1>10 DEF G

LEMMA ValueArranged ==
  ASSUME NEW F \in Seq(Nat), NEW W, NEW c \in Nat, Len(given) \in Nat,
         Arranged(F, W, c), c < Len(given), TakesNext(given[c]), ~IsFlag(given[c + 1])
  PROVE  Arranged(F \o <<c, c + 1>>, W, c + 2)
<1> DEFINE G == F \o <<c, c + 1>>
           n == Len(F)
<1>1. /\ Len(G) = n + 2 /\ \A i \in 1..n : G[i] = F[i]
      /\ G[n + 1] = c /\ G[n + 2] = c + 1 /\ n \in Nat
  <2>1. <<c, c + 1>> \in Seq(Nat) /\ Len(<<c, c + 1>>) = 2
    OBVIOUS
  <2> QED  BY <2>1, Joined
<1> HIDE DEF G, n
<1>2. \A i \in 1..Len(G) : i = n + 2 \/ i = n + 1 \/ i \in 1..n
  BY <1>1
<1>3. \A i \in 1..n : F[i] \in 1..(c - 1) /\ G[i] \in 1..(c - 1)
  BY <1>1 DEF Arranged, n
<1>4. c + 2 \in 1..Len(given) + 1 /\ (c + 2) - 1 = c + 1 /\ c >= 1
  BY DEF Arranged
<1>5. ASSUME NEW i \in 1..Len(G)
      PROVE  G[i] \in 1..(c + 1)
  <2>1. CASE i \in 1..n
    <3>1. G[i] \in 1..(c - 1)
      BY <1>3, <2>1
    <3> QED  BY <3>1
  <2>2. CASE i \in {n + 1, n + 2}
    BY <1>1, <1>4, <2>2
  <2> QED  BY <1>2, <2>1, <2>2
<1>6. ASSUME NEW i \in 1..Len(G), NEW j \in 1..Len(G), i < j
      PROVE  G[i] < G[j]
  <2>1. CASE i = n + 1
    <3>1. j = n + 2
      BY <1>1, <1>6, <2>1
    <3> QED  BY <1>1, <2>1, <3>1
  <2>2. CASE i \in 1..n /\ j \in 1..n
    BY <1>1, <1>6, <2>2 DEF Arranged, n
  <2>3. CASE i \in 1..n /\ j \in {n + 1, n + 2}
    <3>1. G[i] \in 1..(c - 1)
      BY <1>3, <2>3
    <3>2. G[j] \in {c, c + 1}
      BY <1>1, <2>3
    <3> QED  BY <1>4, <3>1, <3>2
  <2> QED  BY <1>1, <1>2, <1>6, <2>1, <2>2, <2>3
<1>7. ASSUME NEW p \in 1..(c + 1), IsFlag(given[p])
      PROVE  \E i \in 1..Len(G) : G[i] = p
  <2>1. CASE p = c
    BY <1>1, <2>1
  <2>2. CASE p \in 1..(c - 1)
    <3>1. PICK i \in 1..n : F[i] = p
      BY <1>7, <2>2 DEF Arranged, n
    <3> QED  BY <1>1, <3>1
  <2>3. p # c + 1
    BY <1>7
  <2> QED  BY <2>1, <2>2, <2>3
<1>8. ASSUME NEW i \in 1..Len(G), TakesNext(given[G[i]])
      PROVE  /\ i + 1 \in 1..Len(G) /\ G[i + 1] = G[i] + 1
             /\ ~IsFlag(given[G[i] + 1])
  <2>1. i # n + 2
    <3>1. ~TakesNext(given[c + 1])
      BY TakesNextIsFlag
    <3> QED  BY <1>1, <1>8, <3>1
  <2>2. CASE i = n + 1
    BY <1>1, <2>2
  <2>3. CASE i \in 1..n
    <3>1. i + 1 \in 1..n /\ F[i + 1] = F[i] + 1 /\ ~IsFlag(given[F[i] + 1])
      BY <1>1, <1>8, <2>3 DEF Arranged, n
    <3> QED  BY <1>1, <2>3, <3>1
  <2> QED  BY <1>2, <2>1, <2>2, <2>3
<1>9. ASSUME NEW i \in 1..Len(G), ~IsFlag(given[G[i]])
      PROVE  i > 1 /\ TakesNext(given[G[i - 1]])
  <2>1. CASE i = n + 2
    BY <1>1, <2>1
  <2>2. i # n + 1
    <3>1. IsFlag(given[c])
      BY TakesNextIsFlag
    <3> QED  BY <1>1, <1>9, <3>1
  <2>3. CASE i \in 1..n
    <3>1. i > 1 /\ TakesNext(given[F[i - 1]])
      BY <1>1, <1>9, <2>3 DEF Arranged, n
    <3>2. i - 1 \in 1..n
      BY <1>1, <2>3, <3>1
    <3> QED  BY <1>1, <3>1, <3>2
  <2> QED  BY <1>2, <2>1, <2>2, <2>3
<1>10. Arranged(G, W, c + 2)
  BY <1>4, <1>5, <1>6, <1>7, <1>8, <1>9 DEF Arranged
<1> QED  BY <1>10 DEF G

(* What flag.Parse has read before the place k of its line: of each flag   *)
(* the last one, and no "--".                                              *)
ReadLast(name, k, j) ==
  /\ given[flagArgs[j]].name = name
  /\ \A m \in 1..(k - 1) : given[flagArgs[m]].name = name => m <= j
  /\ opts[name] = ValueAt(flagArgs[j])

Unread(name, k) ==
  /\ \A m \in 1..(k - 1) : given[flagArgs[m]].name # name
  /\ opts[name] = Defaults[name]

ReadTo(k) ==
  /\ k \in 1..Len(flagArgs) + 1
  /\ k <= Len(flagArgs) => IsFlag(given[flagArgs[k]])
  /\ \A m \in 1..(k - 1) : given[flagArgs[m]] # Dash
  /\ \A name \in DOMAIN Defaults :
       Unread(name, k) \/ \E j \in 1..(k - 1) : ReadLast(name, k, j)

ArgInv ==
  /\ step = "permute" => Arranged(flagArgs, nonFlagArgs, cursor) /\ opts = Defaults
  /\ step = "parse" => Arranged(flagArgs, nonFlagArgs, Len(given) + 1) /\ ReadTo(cursor)

LEMMA ArgInit ==
  ASSUME StartTypeOK, StartInit
  PROVE  ArgInv /\ OptionsAreRead
<1>1. /\ step = "permute" /\ flagArgs = <<>> /\ nonFlagArgs = <<>> /\ cursor = 1
      /\ opts = Defaults /\ Len(given) \in Nat
  BY GivenIs DEF StartInit
<1>2. Arranged(flagArgs, nonFlagArgs, cursor)
  BY <1>1 DEF Arranged
<1> QED  BY <1>1, <1>2 DEF ArgInv, OptionsAreRead

LEMMA LineTyped ==
  ASSUME StartTypeOK
  PROVE  /\ Len(given) \in Nat /\ Len(flagArgs) \in Nat /\ Len(nonFlagArgs) \in Nat
         /\ flagArgs \in Seq(Nat) /\ nonFlagArgs \in Seq(Nat)
         /\ Len(Line) = Len(flagArgs) + Len(nonFlagArgs)
         /\ \A i \in 1..Len(flagArgs) : Line[i] = flagArgs[i]
         /\ \A i \in 1..Len(nonFlagArgs) : Line[Len(flagArgs) + i] = nonFlagArgs[i]
<1>1. flagArgs \in Seq(1..Len(given)) /\ nonFlagArgs \in Seq(1..Len(given))
  BY DEF StartTypeOK
<1>2. Len(given) \in Nat
  BY GivenIs
<1>3. 1..Len(given) \subseteq Nat
  OBVIOUS
<1>4. flagArgs \in Seq(Nat) /\ nonFlagArgs \in Seq(Nat)
  BY <1>1, <1>3, LargerRange
<1>5. Len(flagArgs) \in Nat /\ Len(nonFlagArgs) \in Nat
  BY <1>1
<1> QED  BY <1>2, <1>4, <1>5, Joined DEF Line

LEMMA PermuteStep ==
  ASSUME StartTypeOK, ArgInv,
         PermuteWord \/ PermuteSwitch \/ PermuteValue \/ Permuted
  PROVE  ArgInv'
<1> DEFINE F == flagArgs
           W == nonFlagArgs
<1>1. /\ Arranged(F, W, cursor) /\ opts = Defaults /\ opts' = opts /\ given' = given
      /\ step = "permute" /\ cursor \in Nat
  BY DEF ArgInv, PermuteWord, PermuteSwitch, PermuteValue, Permuting,
       Permuted, StartTypeOK
<1>2. /\ Len(given) \in Nat /\ F \in Seq(Nat) /\ W \in Seq(Nat)
  BY LineTyped
<1>3. CASE PermuteWord
  <2>1. /\ cursor <= Len(given) /\ ~IsFlag(given[cursor])
        /\ flagArgs' = F /\ nonFlagArgs' = Append(W, cursor) /\ cursor' = cursor + 1
        /\ step' = "permute"
    BY <1>3 DEF PermuteWord, Permuting
  <2>2. Arranged(F, Append(W, cursor), cursor + 1)
    BY <1>1, <1>2, <2>1, WordArranged
  <2> QED  BY <1>1, <2>1, <2>2 DEF ArgInv, Arranged
<1>4. CASE PermuteSwitch
  <2>1. /\ cursor <= Len(given) /\ IsFlag(given[cursor]) /\ ~TakesNext(given[cursor])
        /\ flagArgs' = Append(F, cursor) /\ nonFlagArgs' = W /\ cursor' = cursor + 1
        /\ step' = "permute"
    BY <1>4 DEF PermuteSwitch, Permuting
  <2>2. Arranged(Append(F, cursor), W, cursor + 1)
    BY <1>1, <1>2, <2>1, SwitchArranged
  <2> QED  BY <1>1, <2>1, <2>2 DEF ArgInv, Arranged
<1>5. CASE PermuteValue
  <2>1. CASE cursor = Len(given) \/ IsFlag(given[cursor + 1])
    BY <1>5, <2>1 DEF PermuteValue, End, ArgInv
  <2>2. CASE ~(cursor = Len(given) \/ IsFlag(given[cursor + 1]))
    <3>1. /\ cursor <= Len(given) /\ TakesNext(given[cursor])
          /\ flagArgs' = F \o <<cursor, cursor + 1>> /\ nonFlagArgs' = W
          /\ cursor' = cursor + 2 /\ step' = "permute"
      BY <1>1, <1>5, <2>2 DEF PermuteValue, Permuting
    <3>2. cursor < Len(given) /\ ~IsFlag(given[cursor + 1])
      BY <1>1, <1>2, <2>2, <3>1
    <3>3. Arranged(F \o <<cursor, cursor + 1>>, W, cursor + 2)
      BY <1>1, <1>2, <3>1, <3>2, ValueArranged
    <3> QED  BY <1>1, <3>1, <3>3 DEF ArgInv, Arranged
  <2> QED  BY <2>1, <2>2
<1>6. CASE Permuted
  <2>1. /\ cursor > Len(given) /\ flagArgs' = F /\ nonFlagArgs' = W /\ cursor' = 1
        /\ step' = "parse"
    BY <1>6 DEF Permuted, Goto
  <2>2. cursor = Len(given) + 1
    BY <1>1, <1>2, <2>1 DEF Arranged
  <2>3. 1 <= Len(F) => IsFlag(given[F[1]])
    <3>1. Len(F) \in Nat
      BY <1>2
    <3>2. 1 <= Len(F) => 1 \in 1..Len(F)
      BY <3>1
    <3> QED  BY <1>1, <3>2 DEF Arranged
  <2>4. ReadTo(1)
    <3>1. Len(F) \in Nat
      BY <1>2
    <3> QED  BY <1>1, <2>3, <3>1 DEF ReadTo, Unread
  <2> QED  BY <1>1, <2>1, <2>2, <2>4
        DEF ArgInv, Arranged, ReadTo, Unread, ReadLast, ValueAt
<1> QED  BY <1>3, <1>4, <1>5, <1>6

(* A turn of flag.Parse that goes on is at a flag among flagArgs.          *)
LEMMA ParseIsAt ==
  ASSUME StartTypeOK, ArgInv, step = "parse", ~ParseEnds
  PROVE  /\ cursor \in 1..Len(flagArgs) /\ Arg(cursor) = given[flagArgs[cursor]]
         /\ Arg(cursor) # Dash
         /\ TakesNext(Arg(cursor)) =>
              /\ cursor + 1 \in 1..Len(flagArgs)
              /\ Arg(cursor + 1) = given[flagArgs[cursor] + 1]
              /\ given[flagArgs[cursor + 1]] = given[flagArgs[cursor] + 1]
              /\ ~IsFlag(given[flagArgs[cursor] + 1])
<1>1. /\ Len(flagArgs) \in Nat /\ Len(nonFlagArgs) \in Nat
      /\ Len(Line) = Len(flagArgs) + Len(nonFlagArgs)
      /\ \A i \in 1..Len(flagArgs) : Line[i] = flagArgs[i]
      /\ \A i \in 1..Len(nonFlagArgs) : Line[Len(flagArgs) + i] = nonFlagArgs[i]
  BY LineTyped
<1>2. /\ cursor \in 1..Len(flagArgs) + 1 /\ Arranged(flagArgs, nonFlagArgs, Len(given) + 1)
  BY DEF ArgInv, ReadTo
<1>3. cursor <= Len(Line) /\ IsFlag(Arg(cursor)) /\ Arg(cursor) # Dash
  BY DEF ParseEnds
<1>4. cursor # Len(flagArgs) + 1
  <2> SUFFICES ASSUME cursor = Len(flagArgs) + 1
               PROVE  FALSE
    OBVIOUS
  <2>1. 1 \in 1..Len(nonFlagArgs)
    BY <1>1, <1>3
  <2>2. Line[cursor] = nonFlagArgs[1]
    BY <1>1, <2>1
  <2>3. ~IsFlag(given[nonFlagArgs[1]])
    BY <1>2, <2>1 DEF Arranged
  <2> QED  BY <1>3, <2>2, <2>3 DEF Arg
<1>5. cursor \in 1..Len(flagArgs) /\ Arg(cursor) = given[flagArgs[cursor]]
  BY <1>1, <1>2, <1>4 DEF Arg
<1>6. ASSUME TakesNext(Arg(cursor))
      PROVE  /\ cursor + 1 \in 1..Len(flagArgs)
             /\ Arg(cursor + 1) = given[flagArgs[cursor] + 1]
             /\ given[flagArgs[cursor + 1]] = given[flagArgs[cursor] + 1]
             /\ ~IsFlag(given[flagArgs[cursor] + 1])
  <2>1. /\ cursor + 1 \in 1..Len(flagArgs) /\ flagArgs[cursor + 1] = flagArgs[cursor] + 1
        /\ ~IsFlag(given[flagArgs[cursor] + 1])
    BY <1>2, <1>5, <1>6 DEF Arranged
  <2> QED  BY <1>1, <2>1 DEF Arg
<1> QED  BY <1>3, <1>5, <1>6

(* The value that such a turn gives to its flag is the one at its place.   *)
LEMMA ParseOneIs ==
  ASSUME StartTypeOK, ArgInv, ParseOne, step' # "done"
  PROVE  LET a == given[flagArgs[cursor]]
         IN  /\ cursor \in 1..Len(flagArgs) /\ step' = "parse"
             /\ UNCHANGED <<given, flagArgs, nonFlagArgs>>
             /\ a.name \in DOMAIN Defaults /\ a # Dash
             /\ opts' = [opts EXCEPT ![a.name] = ValueAt(flagArgs[cursor])]
             /\ cursor' = IF TakesNext(a) THEN cursor + 2 ELSE cursor + 1
<1> DEFINE a == given[flagArgs[cursor]]
           v == IF TakesNext(a) THEN Arg(cursor + 1).word
                ELSE IF a.word = Empty THEN "true" ELSE a.word
<1>1. step = "parse" /\ ~ParseEnds /\ UNCHANGED <<given, flagArgs, nonFlagArgs>>
  BY DEF ParseOne
<1>2. /\ cursor \in 1..Len(flagArgs) /\ Arg(cursor) = a /\ a # Dash
      /\ TakesNext(a) => Arg(cursor + 1) = given[flagArgs[cursor] + 1]
  BY <1>1, ParseIsAt
<1>3. /\ a.name \in DOMAIN Defaults /\ step' = "parse"
      /\ opts' = [opts EXCEPT ![a.name] = v]
      /\ cursor' = IF TakesNext(a) THEN cursor + 2 ELSE cursor + 1
  BY <1>1, <1>2 DEF ParseOne, End
<1>4. v = ValueAt(flagArgs[cursor])
  <2>1. DOMAIN Defaults = Switches \union FlagsRequiringValue
    BY DEF Defaults
  <2>2. Switches \intersect FlagsRequiringValue = {}
    BY DEF Switches, FlagsRequiringValue
  <2>3. CASE TakesNext(a)
    <3>1. a.word = Empty /\ a.name \notin Switches
      BY <2>2, <2>3 DEF TakesNext
    <3> QED  BY <1>2, <2>3, <3>1 DEF ValueAt
  <2>4. CASE ~TakesNext(a)
    <3>1. a.word = Empty => a.name \in Switches
      BY <1>3, <2>1, <2>4 DEF TakesNext
    <3> QED  BY <2>4, <3>1 DEF ValueAt
  <2> QED  BY <2>3, <2>4
<1> HIDE DEF v
<1> QED  BY <1>1, <1>2, <1>3, <1>4

LEMMA ParseStep ==
  ASSUME StartTypeOK, ArgInv, ParseOne
  PROVE  ArgInv'
<1>1. CASE step' = "done"
  BY <1>1 DEF ArgInv
<1>2. CASE step' # "done"
  <2> DEFINE a == given[flagArgs[cursor]]
             k == cursor
             l == cursor'
             n == Len(flagArgs)
  <2>1. /\ k \in 1..n /\ step' = "parse"
        /\ UNCHANGED <<given, flagArgs, nonFlagArgs>>
        /\ a.name \in DOMAIN Defaults /\ a # Dash
        /\ opts' = [opts EXCEPT ![a.name] = ValueAt(flagArgs[k])]
        /\ l = IF TakesNext(a) THEN k + 2 ELSE k + 1
    BY <1>2, ParseOneIs
  <2>2. n \in Nat /\ Len(given) \in Nat /\ k \in Nat /\ opts \in [DOMAIN Defaults -> Text]
    <3>1. n \in Nat /\ Len(given) \in Nat
      BY LineTyped
    <3> QED  BY <3>1 DEF StartTypeOK
  <2>3. Arranged(flagArgs, nonFlagArgs, Len(given) + 1) /\ ReadTo(k)
    BY DEF ArgInv, ParseOne
  <2>4. TakesNext(a) =>
          /\ k + 1 \in 1..n /\ flagArgs[k + 1] = flagArgs[k] + 1
          /\ ~IsFlag(given[flagArgs[k + 1]])
    BY <2>1, <2>3 DEF Arranged
  <2>5. l \in 1..n + 1 /\ \A m \in 1..(l - 1) : m \in 1..(k - 1) \/ m = k
                                              \/ (TakesNext(a) /\ m = k + 1)
    BY <2>1, <2>2, <2>4
  <2>6. l <= n => IsFlag(given[flagArgs[l]])
    <3> SUFFICES ASSUME l <= n, ~IsFlag(given[flagArgs[l]])
                 PROVE  FALSE
      OBVIOUS
    <3>1. l \in 1..n
      BY <2>2, <2>5
    <3>2. TakesNext(given[flagArgs[l - 1]])
      BY <2>3, <3>1 DEF Arranged
    <3>3. CASE TakesNext(a)
      <4>1. l - 1 = k + 1
        BY <2>1, <2>2, <3>3
      <4> QED  BY <2>4, <3>2, <3>3, <4>1, TakesNextIsFlag
    <3>4. CASE ~TakesNext(a)
      <4>1. l - 1 = k
        BY <2>1, <2>2, <3>4
      <4> QED  BY <3>2, <3>4, <4>1
    <3> QED  BY <3>3, <3>4
  <2>7. \A m \in 1..(l - 1) : given[flagArgs[m]] # Dash
    <3>1. TakesNext(a) => given[flagArgs[k + 1]] # Dash
      BY <2>4, DashIsFlag
    <3>2. \A m \in 1..(k - 1) : given[flagArgs[m]] # Dash
      BY <2>3 DEF ReadTo
    <3> QED  BY <2>1, <2>5, <3>1, <3>2
  <2>8. \A m \in 1..(l - 1) : given[flagArgs[m]].name \in DOMAIN Defaults =>
                                m \in 1..(k - 1) \/ m = k
    <3>1. TakesNext(a) => given[flagArgs[k + 1]].name \notin DOMAIN Defaults
      BY <2>4, EmptyIsNoName DEF IsFlag
    <3> QED  BY <2>5, <3>1
  <2>9. \A m \in 1..(k - 1) : m \in 1..(l - 1) /\ m <= k
    BY <2>1, <2>2
  <2>10. k \in 1..(l - 1)
    BY <2>1, <2>2
  <2> HIDE DEF k, l, n
  <2>11. ASSUME NEW name \in DOMAIN Defaults
         PROVE  (\/ Unread(name, cursor)
                 \/ \E j \in 1..(cursor - 1) : ReadLast(name, cursor, j))'
    <3>1. CASE name = a.name
      <4>1. opts'[name] = ValueAt(flagArgs[k])
        BY <2>1, <2>2, <3>1
      <4>2. \A m \in 1..(l - 1) : given[flagArgs[m]].name = name => m <= k
        BY <2>2, <2>8, <2>9
      <4> QED  BY <2>1, <2>10, <3>1, <4>1, <4>2 DEF ReadLast, ValueAt, k, l
    <3>2. CASE name # a.name
      <4>1. opts'[name] = opts[name]
        BY <2>1, <2>2, <3>2
      <4>2. \A m \in 1..(l - 1) : given[flagArgs[m]].name = name => m \in 1..(k - 1)
        BY <2>8, <3>2 DEF k
      <4>3. CASE Unread(name, k)
        BY <2>1, <4>1, <4>2, <4>3 DEF Unread, k, l
      <4>4. CASE \E j \in 1..(k - 1) : ReadLast(name, k, j)
        <5>1. PICK j \in 1..(k - 1) : ReadLast(name, k, j)
          BY <4>4
        <5> QED  BY <2>1, <2>9, <4>1, <4>2, <5>1 DEF ReadLast, ValueAt, l
      <4> QED  BY <2>3, <4>3, <4>4 DEF ReadTo
    <3> QED  BY <3>1, <3>2
  <2> QED  BY <2>1, <2>3, <2>5, <2>6, <2>7, <2>11 DEF ArgInv, Arranged, ReadTo, l, n
<1> QED  BY <1>1, <1>2

(* When flag.Parse ends, it has read every flag before a "--".             *)
LEMMA ParseDoneReads ==
  ASSUME StartTypeOK, ArgInv, ParseDone, NEW name \in DOMAIN Defaults
  PROVE  Given(name) = {flagArgs[j] : j \in {m \in 1..(cursor - 1) :
                                               given[flagArgs[m]].name = name}}
<1> DEFINE n == Len(flagArgs)
<1>1. /\ n \in Nat /\ Len(given) \in Nat /\ cursor \in Nat
      /\ Arranged(flagArgs, nonFlagArgs, Len(given) + 1) /\ ReadTo(cursor)
  <2>1. n \in Nat /\ Len(given) \in Nat
    BY LineTyped
  <2> QED  BY <2>1 DEF ArgInv, ParseDone, StartTypeOK
<1>2. (Len(given) + 1) - 1 = Len(given) /\ DOMAIN given = 1..Len(given)
  BY <1>1, GivenIs, DomainOf
<1>3. /\ \A i \in 1..n : flagArgs[i] \in 1..Len(given)
      /\ \A i, j \in 1..n : i < j => flagArgs[i] < flagArgs[j]
      /\ \A p \in 1..Len(given) : IsFlag(given[p]) => \E i \in 1..n : flagArgs[i] = p
  BY <1>1, <1>2 DEF Arranged
<1>4. /\ cursor \in 1..n + 1
      /\ cursor <= n => IsFlag(given[flagArgs[cursor]])
      /\ \A m \in 1..(cursor - 1) : given[flagArgs[m]] # Dash
  BY <1>1 DEF ReadTo
<1>5. cursor <= n => given[flagArgs[cursor]] = Dash
  <2> SUFFICES ASSUME cursor <= n
               PROVE  given[flagArgs[cursor]] = Dash
    OBVIOUS
  <2>1. ParseEnds
    BY DEF ParseDone
  <2>2. cursor \in 1..n /\ cursor <= Len(Line) /\ Line[cursor] = flagArgs[cursor]
    <3>1. cursor \in 1..n
      BY <1>1, <1>4
    <3>2. /\ Len(Line) = n + Len(nonFlagArgs) /\ Len(nonFlagArgs) \in Nat
          /\ \A i \in 1..n : Line[i] = flagArgs[i]
      BY LineTyped
    <3>3. cursor <= Len(Line)
      BY <1>1, <3>1, <3>2
    <3> QED  BY <3>1, <3>2, <3>3
  <2> QED  BY <1>4, <2>1, <2>2 DEF ParseEnds, Arg
<1> HIDE DEF n
<1>6. ASSUME NEW i \in Given(name)
      PROVE  \E j \in 1..(cursor - 1) : flagArgs[j] = i /\ given[flagArgs[j]].name = name
  <2>1. i \in 1..Len(given) /\ given[i].name = name /\ \A j \in 1..i : given[j] # Dash
    BY <1>2 DEF Given
  <2>2. IsFlag(given[i])
    BY <2>1, EmptyIsNoName DEF IsFlag
  <2>3. PICK j \in 1..n : flagArgs[j] = i
    BY <1>3, <2>1, <2>2
  <2>4. j < cursor
    <3> SUFFICES ASSUME j >= cursor
                 PROVE  FALSE
      BY <1>1, <2>3
    <3>1. cursor \in 1..n
      BY <1>1, <1>4, <2>3
    <3>2. flagArgs[cursor] <= i /\ flagArgs[cursor] \in 1..Len(given)
      BY <1>1, <1>3, <2>1, <2>3, <3>1
    <3>3. flagArgs[cursor] \in 1..i
      BY <1>1, <2>1, <3>2
    <3> QED  BY <1>1, <1>5, <2>1, <3>1, <3>3
  <2>5. j \in 1..(cursor - 1)
    BY <1>1, <2>3, <2>4
  <2> QED  BY <2>1, <2>3, <2>5
<1>7. ASSUME NEW j \in 1..(cursor - 1), given[flagArgs[j]].name = name
      PROVE  flagArgs[j] \in Given(name)
  <2>1. j \in 1..n /\ flagArgs[j] \in 1..Len(given)
    <3>1. j \in 1..n
      BY <1>1, <1>4
    <3> QED  BY <1>3, <3>1
  <2>2. ASSUME NEW p \in 1..flagArgs[j], given[p] = Dash
        PROVE  FALSE
    <3>1. p \in 1..Len(given)
      BY <1>1, <2>1
    <3>2. PICK m \in 1..n : flagArgs[m] = p
      BY <1>3, <2>2, <3>1, DashIsFlag
    <3>3. m <= j
      BY <1>1, <1>3, <2>1, <2>2, <3>2
    <3>4. m \in 1..(cursor - 1)
      BY <1>1, <3>2, <3>3
    <3> QED  BY <1>4, <2>2, <3>2, <3>4
  <2> QED  BY <1>2, <1>7, <2>1, <2>2 DEF Given
<1> QED  BY <1>6, <1>7

LEMMA ParseDoneStep ==
  ASSUME StartTypeOK, ArgInv, ParseDone
  PROVE  OptionsAreRead'
<1> DEFINE n == Len(flagArgs)
<1>1. /\ n \in Nat /\ Len(given) \in Nat /\ cursor \in 1..n + 1
      /\ \A i \in 1..n : flagArgs[i] \in 1..Len(given)
      /\ \A i, j \in 1..n : i < j => flagArgs[i] < flagArgs[j]
  <2>1. n \in Nat /\ Len(given) \in Nat
    BY LineTyped
  <2>2. Arranged(flagArgs, nonFlagArgs, Len(given) + 1) /\ ReadTo(cursor)
    BY DEF ArgInv, ParseDone
  <2> QED  BY <2>1, <2>2 DEF Arranged, ReadTo
<1>2. ASSUME NEW name \in DOMAIN Defaults
      PROVE  IF Given(name) = {} THEN opts[name] = Defaults[name]
             ELSE \E i \in Given(name) :
                    (\A j \in Given(name) : j <= i) /\ opts[name] = ValueAt(i)
  <2>1. Given(name) = {flagArgs[j] : j \in {m \in 1..(cursor - 1) :
                                              given[flagArgs[m]].name = name}}
    BY ParseDoneReads
  <2>2. Unread(name, cursor) \/ \E j \in 1..(cursor - 1) : ReadLast(name, cursor, j)
    BY DEF ArgInv, ParseDone, ReadTo
  <2>3. CASE Unread(name, cursor)
    BY <2>1, <2>3 DEF Unread
  <2>4. CASE \E j \in 1..(cursor - 1) : ReadLast(name, cursor, j)
    <3>1. PICK j \in 1..(cursor - 1) : ReadLast(name, cursor, j)
      BY <2>4
    <3>2. flagArgs[j] \in Given(name) /\ opts[name] = ValueAt(flagArgs[j])
      BY <2>1, <3>1 DEF ReadLast
    <3>3. ASSUME NEW i \in Given(name)
          PROVE  i <= flagArgs[j]
      <4>1. PICK m \in 1..(cursor - 1) : i = flagArgs[m] /\ given[flagArgs[m]].name = name
        BY <2>1
      <4>2. m <= j /\ m \in 1..n /\ j \in 1..n
        BY <1>1, <3>1, <4>1 DEF ReadLast
      <4> QED  BY <1>1, <4>1, <4>2
    <3> QED  BY <3>2, <3>3
  <2> QED  BY <2>2, <2>3, <2>4
<1>3. given' = given /\ opts' = opts
  BY DEF ParseDone
<1> QED  BY <1>2, <1>3 DEF OptionsAreRead, Given, ValueAt

LEMMA ArgStep ==
  ASSUME StartTypeOK, ArgInv, OptionsAreRead, [StartNext]_startVars
  PROVE  ArgInv' /\ OptionsAreRead'
<1>1. CASE PermuteWord \/ PermuteSwitch \/ PermuteValue \/ Permuted
  <2>1. step' \in {"permute", "parse", "done"}
    BY <1>1 DEF PermuteWord, PermuteSwitch, PermuteValue, Permuting, Permuted,
         Goto, End
  <2> QED  BY <1>1, <2>1, PermuteStep DEF OptionsAreRead
<1>2. CASE ParseOne
  <2>1. step' \in {"parse", "done"}
    BY <1>2 DEF ParseOne, End
  <2> QED  BY <1>2, <2>1, ParseStep DEF OptionsAreRead
<1>3. CASE ParseDone
  <2>1. step' = "flags"
    BY <1>3 DEF ParseDone, Goto
  <2> QED  BY <1>3, <2>1, ParseDoneStep DEF ArgInv
<1>4. CASE \/ Inform \/ Generate \/ Resolve \/ Expand \/ ExpandDone \/ CheckInterval
           \/ Lookup \/ Bind \/ Listen \/ RunProbers
  <2>1. /\ step \notin {"permute", "parse", "done"} /\ step' \notin {"permute", "parse"}
        /\ given' = given /\ opts' = opts
    BY <1>4 DEF Inform, Generate, Resolve, Expand, ExpandDone,
         CheckInterval, Lookup, Bind,
         LookupsDone, Listen, RunProbers, Goto, End
  <2> QED  BY <2>1 DEF ArgInv, OptionsAreRead, Given, ValueAt
<1>5. CASE UNCHANGED startVars
  BY <1>5 DEF startVars, argVars, ArgInv, Arranged, ReadTo, ReadLast, Unread,
       OptionsAreRead,
       Given, ValueAt
<1> QED  BY <1>1, <1>2, <1>3, <1>4, <1>5 DEF StartNext, Started

(* Every flag has the value given last, or its default, whatever the order *)
(* of the arguments and the words among them.                              *)
THEOREM OptionsCorrect == StartSpec => []OptionsAreRead
<1>1. StartInit /\ StartTypeOK => ArgInv /\ OptionsAreRead
  BY ArgInit
<1>2. StartTypeOK /\ ArgInv /\ OptionsAreRead /\ [StartNext]_startVars =>
        ArgInv' /\ OptionsAreRead'
  BY ArgStep
<1> QED  BY <1>1, <1>2, StartTyped, PTL DEF StartSpec

-----------------------------------------------------------------------------
(* The pool while it is made: w is the turn that each of its targets is    *)
(* from, and every turn that was made has its target.                      *)
FromTurns(w) ==
  /\ \A i \in 1..Len(asked) : /\ Within(opts, w[i]) /\ Before(w[i], turn)
                              /\ asked[i] = TargetAt(opts, w[i])
  /\ \A i, j \in 1..Len(asked) : w[i] = w[j] => i = j \/ ClusterAt(opts, w[i])

PoolMade ==
  /\ Len(asked) = Len(pool)
  /\ \A i \in 1..Len(pool) : pool[i].port # 0 /\ (pool[i] = asked[i] \/ IsNode(i))
  /\ \A t \in Turns : Within(opts, t) /\ Before(t, turn) =>
       \E i \in 1..Len(asked) : asked[i] = TargetAt(opts, t)
  /\ \E w \in [1..Len(asked) -> Turns] : FromTurns(w)

PoolInv ==
  /\ step \in {"permute", "parse", "flags", "pool"} => pool = <<>> /\ asked = <<>>
  /\ step \in {"expand"} \union Expanded /\ NeedsTargets(opts) => PoolMade
  /\ step \in Expanded /\ NeedsTargets(opts) => turn.host > LastTurn(opts).host

LEMMA NothingMade ==
  ASSUME turn = FirstTurn, pool = <<>>, asked = <<>>
  PROVE  PoolMade
<1>1. Len(asked) = 0 /\ Len(pool) = 0
  OBVIOUS
<1>2. FirstTurn \in Turns
  BY DEF FirstTurn, Turns
<1> DEFINE w == [i \in 1..Len(asked) |-> FirstTurn]
<1>3. w \in [1..Len(asked) -> Turns]
  BY <1>2
<1> HIDE DEF w
<1>4. FromTurns(w)
  BY <1>1 DEF FromTurns
<1>5. \A t \in Turns : Within(opts, t) => ~Before(t, turn)
  BY NothingBeforeFirst
<1>6. \A i \in 1..Len(pool) : FALSE
  BY <1>1
<1> QED  BY <1>1, <1>3, <1>4, <1>5, <1>6 DEF PoolMade

(* What the loop takes for a cluster is one by its name.                   *)
LEMMA ClusterIsNamed ==
  ASSUME NEW o \in [DOMAIN Defaults -> Text], NEW t \in Turns, Within(o, t),
         ClusterAt(o, t)
  PROVE  NamesCluster(o, TargetAt(o, t))
<1>1. CASE o.uri # Empty
  <2>1. TargetAt(o, t).host = UriAt(o, t).host
    BY <1>1, UriTargetIs
  <2>2. TargetAt(o, t).protocol = UriProtocol(o, t)
    BY <1>1 DEF TargetAt, Target
  <2>3. ItemsOf(o.uri)[t.host] \in Elements(ItemsOf(o.uri))
    <3>1. ItemsOf(o.uri) \in Seq(Text)
      BY OptionsAreText, ItemsAreText
    <3>2. t.host \in DOMAIN ItemsOf(o.uri)
      BY <1>1, <3>1, DomainOf DEF Within, LastTurn
    <3> QED  BY <3>2 DEF Elements
  <2>4. CASE UriAt(o, t).scheme \in ClusterSchemes
    BY <1>1, <2>1, <2>3, <2>4 DEF NamesCluster, UriAt
  <2>5. CASE IsCluster(TargetAt(o, t)) /\ UriProtocol(o, t) # "tcp"
    BY <1>1, <2>2, <2>5 DEF NamesCluster
  <2> QED  BY <1>1, <2>4, <2>5 DEF ClusterAt
<1>2. CASE o.uri = Empty
  <2>1. Ports(o) = <<>> /\ IsCluster(TargetAt(o, t))
    BY <1>2 DEF ClusterAt
  <2> QED  BY <1>2, <2>1 DEF NamesCluster
<1> QED  BY <1>1, <1>2

LEMMA ExpandMade ==
  ASSUME StartTypeOK, TurnInv, PoolMade, Expand,
         step' # "done"
  PROVE  PoolMade'
<1> DEFINE t == TargetAt(opts, turn)
           n == Len(asked)
           u == NextTurn(opts, turn)
<1>1. /\ turn' = u /\ Within(opts, turn) /\ opts' = opts
  BY ExpandIs
<1>2. PICK found \in Seq(TargetDef) :
        /\ pool' = pool \o found /\ asked' = asked \o [i \in 1..Len(found) |-> t]
        /\ Len(found) >= 1 /\ (Len(found) = 1 \/ ClusterAt(opts, turn))
        /\ \A i \in 1..Len(found) : found[i].port # 0
        /\ \/ found = <<t>>
           \/ ClusterAt(opts, turn) /\ \E answer \in SrvAnswers : found = Nodes(answer)
  BY ExpandIs
<1> DEFINE m == Len(found)
           more == [i \in 1..Len(found) |-> t]
<1>3. /\ pool \in Seq(TargetDef) /\ asked \in Seq(TargetDef) /\ turn \in Turns
      /\ opts \in [DOMAIN Defaults -> Text] /\ t \in TargetDef /\ Len(pool) = n
  BY ExpandIs DEF StartTypeOK, Turns, PoolMade
<1> HIDE DEF t
<1>4. n \in Nat /\ m \in Nat /\ more \in Seq(TargetDef) /\ Len(more) = m
      /\ \A i \in 1..m : more[i] = t
  BY <1>3
<1> HIDE DEF n, m, more, u
<1>5. /\ Len(pool') = n + m /\ Len(asked') = n + m
      /\ \A i \in 1..n : pool'[i] = pool[i] /\ asked'[i] = asked[i]
      /\ \A i \in (n + 1)..(n + m) : pool'[i] = found[i - n] /\ asked'[i] = more[i - n]
  <2>1. pool' = pool \o found /\ asked' = asked \o more
    BY <1>2 DEF more
  <2>2. /\ Len(pool') = n + m /\ \A i \in 1..n : pool'[i] = pool[i]
        /\ \A i \in (n + 1)..(n + m) : pool'[i] = found[i - n]
    <3>1. /\ Len(pool \o found) = Len(pool) + Len(found)
          /\ \A i \in 1..Len(pool) : (pool \o found)[i] = pool[i]
          /\ \A i \in (Len(pool) + 1)..(Len(pool) + Len(found)) :
               (pool \o found)[i] = found[i - Len(pool)]
      <4>1. pool \in Seq(TargetDef) /\ found \in Seq(TargetDef)
        BY <1>3
      <4>2. Len(pool \o found) = Len(pool) + Len(found)
        BY <4>1, Joined
      <4>3. \A i \in 1..Len(pool) : (pool \o found)[i] = pool[i]
        BY <4>1, Joined
      <4>4. \A i \in (Len(pool) + 1)..(Len(pool) + Len(found)) :
               (pool \o found)[i] = found[i - Len(pool)]
        BY <4>1, Joined
      <4> QED  BY <4>2, <4>3, <4>4
    <3> QED  BY <1>3, <2>1, <3>1 DEF m
  <2>3. /\ Len(asked') = n + m /\ \A i \in 1..n : asked'[i] = asked[i]
        /\ \A i \in (n + 1)..(n + m) : asked'[i] = more[i - n]
    <3>1. /\ Len(asked \o more) = Len(asked) + Len(more)
          /\ \A i \in 1..Len(asked) : (asked \o more)[i] = asked[i]
          /\ \A i \in (Len(asked) + 1)..(Len(asked) + Len(more)) :
               (asked \o more)[i] = more[i - Len(asked)]
      <4>1. asked \in Seq(TargetDef) /\ more \in Seq(TargetDef)
        BY <1>3, <1>4
      <4>2. Len(asked \o more) = Len(asked) + Len(more)
        BY <4>1, Joined
      <4>3. \A i \in 1..Len(asked) : (asked \o more)[i] = asked[i]
        BY <4>1, Joined
      <4>4. \A i \in (Len(asked) + 1)..(Len(asked) + Len(more)) :
               (asked \o more)[i] = more[i - Len(asked)]
        BY <4>1, Joined
      <4> QED  BY <4>2, <4>3, <4>4
    <3> QED  BY <1>4, <2>1, <3>1 DEF n
  <2> QED  BY <2>2, <2>3
<1>6. \A i \in 1..(n + m) : i \in 1..n \/ (i \in (n + 1)..(n + m) /\ i - n \in 1..m)
  BY <1>4
<1>7. \A i \in (n + 1)..(n + m) : i - n \in 1..m /\ asked'[i] = t
  BY <1>4, <1>5
<1>8. \A v \in Turns : Within(opts, v) => (Before(v, u) <=> Before(v, turn) \/ v = turn)
  <2>1. Reached(opts, turn) /\ turn.host <= LastTurn(opts).host
    BY DEF Expand, TurnInv
  <2> QED  BY <1>3, <2>1, NextTurnIs DEF u
<1>9. ASSUME NEW i \in 1..(n + m)
      PROVE  pool'[i].port # 0 /\ (pool'[i] = asked'[i] \/ IsNode(i)')
  <2>1. DOMAIN pool = 1..n /\ DOMAIN pool' = 1..(n + m)
    <3>1. pool' \in Seq(TargetDef)
      <4>1. pool \o found \in Seq(TargetDef)
        BY <1>3, Joined
      <4> QED  BY <1>2, <4>1
    <3> QED  BY <1>3, <1>5, <3>1, DomainOf
  <2>2. CASE i \in 1..n
    <3>1. /\ pool'[i] = pool[i] /\ asked'[i] = asked[i] /\ pool[i].port # 0
          /\ pool[i] = asked[i] \/ IsNode(i)
      BY <1>3, <1>5, <2>2 DEF PoolMade
    <3>2. ASSUME IsNode(i)
          PROVE  IsNode(i)'
      <4>1. PICK answer \in SrvAnswers :
              /\ pool[i] \in Elements(Nodes(answer))
              /\ \A node \in Elements(Nodes(answer)) :
                   \E j \in DOMAIN pool : pool[j] = node /\ asked[j] = asked[i]
        BY <3>2 DEF IsNode
      <4>2. ASSUME NEW node \in Elements(Nodes(answer))
            PROVE  \E j \in DOMAIN pool' : pool'[j] = node /\ asked'[j] = asked'[i]
        <5>1. PICK j \in 1..n : pool[j] = node /\ asked[j] = asked[i]
          BY <2>1, <4>1
        <5>2. j \in 1..(n + m)
          BY <1>4
        <5>3. pool'[j] = pool[j] /\ asked'[j] = asked[j]
          BY <1>5
        <5> QED  BY <2>1, <3>1, <5>1, <5>2, <5>3
      <4>3. NamesCluster(opts', asked'[i])
        BY <1>1, <3>1, <3>2 DEF IsNode
      <4> QED  BY <3>1, <4>1, <4>2, <4>3 DEF IsNode
    <3> QED  BY <3>1, <3>2
  <2>3. CASE i \in (n + 1)..(n + m)
    <3>1. /\ pool'[i] = found[i - n] /\ i - n \in 1..m /\ asked'[i] = t
          /\ found[i - n].port # 0
      BY <1>2, <1>5, <1>7, <2>3 DEF m
    <3>2. CASE found = <<t>>
      <4>1. i - n = 1
        BY <3>1, <3>2 DEF m
      <4>2. found[1] = t
        BY <3>2
      <4> QED  BY <3>1, <4>1, <4>2
    <3>3. CASE ClusterAt(opts, turn) /\ \E answer \in SrvAnswers : found = Nodes(answer)
      <4>1. PICK answer \in SrvAnswers : found = Nodes(answer)
        BY <3>3
      <4>2. DOMAIN found = 1..m
        BY DomainOf DEF m
      <4>3. Elements(Nodes(answer)) = {found[k] : k \in 1..m}
        BY <4>1, <4>2 DEF Elements
      <4>4. ASSUME NEW node \in Elements(Nodes(answer))
            PROVE  \E j \in DOMAIN pool' : pool'[j] = node /\ asked'[j] = asked'[i]
        <5>1. PICK k \in 1..m : node = found[k]
          BY <4>3
        <5>2. k + n \in (n + 1)..(n + m) /\ k + n \in 1..(n + m) /\ (k + n) - n = k
          BY <1>4
        <5>3. pool'[k + n] = found[(k + n) - n] /\ asked'[k + n] = t
          BY <1>5, <1>7, <5>2
        <5> QED  BY <2>1, <3>1, <5>1, <5>2, <5>3
      <4>5. pool'[i] \in Elements(Nodes(answer))
        BY <3>1, <4>3
      <4>6. NamesCluster(opts', asked'[i])
        <5>1. NamesCluster(opts, TargetAt(opts, turn))
          BY <1>1, <1>3, <3>3, ClusterIsNamed
        <5> QED  BY <1>1, <3>1, <5>1 DEF t
      <4> QED  BY <3>1, <4>4, <4>5, <4>6 DEF IsNode
    <3> QED  BY <1>2, <3>2, <3>3
  <2> QED  BY <1>6, <2>2, <2>3
<1>10. ASSUME NEW v \in Turns, Within(opts, v), Before(v, u)
       PROVE  \E i \in 1..(n + m) : asked'[i] = TargetAt(opts, v)
  <2>1. CASE v = turn
    <3>1. n + 1 \in 1..(n + m) /\ n + 1 \in (n + 1)..(n + m)
      BY <1>2, <1>4 DEF m
    <3> QED  BY <1>7, <2>1, <3>1 DEF t
  <2>2. CASE Before(v, turn)
    <3>1. PICK i \in 1..n : asked[i] = TargetAt(opts, v)
      BY <1>10, <2>2 DEF PoolMade, n
    <3>2. i \in 1..(n + m)
      BY <1>4
    <3> QED  BY <1>5, <3>1, <3>2
  <2> QED  BY <1>8, <1>10, <2>1, <2>2
<1>11. PICK w \in [1..n -> Turns] : FromTurns(w)
  BY DEF PoolMade, n
<1>12. PICK x \in [1..(n + m) -> Turns] :
         /\ \A i \in 1..(n + m) : i \in 1..n => x[i] = w[i]
         /\ \A i \in 1..(n + m) : i \notin 1..n => x[i] = turn
  <2> DEFINE y == [i \in 1..(n + m) |-> IF i \in 1..n THEN w[i] ELSE turn]
  <2>1. /\ y \in [1..(n + m) -> Turns]
        /\ \A i \in 1..(n + m) : i \in 1..n => y[i] = w[i]
        /\ \A i \in 1..(n + m) : i \notin 1..n => y[i] = turn
    BY <1>3
  <2> HIDE DEF y
  <2> QED  BY <2>1
<1>13. ASSUME NEW i \in 1..(n + m)
       PROVE  /\ Within(opts, x[i]) /\ Before(x[i], u)
              /\ asked'[i] = TargetAt(opts, x[i])
  <2>1. CASE i \in 1..n
    <3>1. /\ Within(opts, w[i]) /\ Before(w[i], turn) /\ asked[i] = TargetAt(opts, w[i])
          /\ w[i] \in Turns
      BY <1>11, <2>1 DEF FromTurns, n
    <3> QED  BY <1>5, <1>8, <1>12, <2>1, <3>1
  <2>2. CASE i \notin 1..n
    <3>1. asked'[i] = t
      BY <1>6, <1>7, <2>2
    <3> QED  BY <1>1, <1>3, <1>8, <1>12, <2>2, <3>1 DEF t
  <2> QED  BY <2>1, <2>2
<1>14. \A i \in 1..n : w[i] # turn
  <2>1. ~Before(turn, turn)
    BY <1>3 DEF Before, Turns
  <2> QED  BY <1>11, <2>1 DEF FromTurns, n
<1>15. ASSUME NEW i \in 1..(n + m), NEW j \in 1..(n + m), x[i] = x[j], i # j
       PROVE  ClusterAt(opts, x[i])
  <2>1. CASE i \in 1..n /\ j \in 1..n
    BY <1>11, <1>12, <1>15, <2>1 DEF FromTurns, n
  <2>2. CASE i \notin 1..n /\ j \notin 1..n
    <3>1. i \in (n + 1)..(n + m) /\ j \in (n + 1)..(n + m)
      BY <1>6, <2>2
    <3>2. m # 1
      BY <1>4, <1>15, <3>1
    <3>3. ClusterAt(opts, turn)
      BY <1>2, <3>2 DEF m
    <3> QED  BY <1>12, <2>2, <3>3
  <2>3. ~(i \in 1..n /\ j \notin 1..n) /\ ~(i \notin 1..n /\ j \in 1..n)
    BY <1>12, <1>14, <1>15
  <2> QED  BY <2>1, <2>2, <2>3
<1>16. FromTurns(x)'
  BY <1>1, <1>5, <1>13, <1>15 DEF FromTurns, Within
<1> QED  BY <1>1, <1>5, <1>9, <1>10, <1>12, <1>16 DEF PoolMade, Within

LEMMA PoolKept ==
  ASSUME PoolMade, UNCHANGED <<opts, pool, asked, turn>>
  PROVE  PoolMade'
<1>1. ASSUME NEW i \in 1..Len(pool), IsNode(i)
      PROVE  IsNode(i)'
  <2>1. NamesCluster(opts', asked'[i])
    BY <1>1 DEF IsNode
  <2> QED  BY <1>1, <2>1 DEF IsNode
<1> QED  BY <1>1 DEF PoolMade, FromTurns, Within

LEMMA PoolStep ==
  ASSUME StartTypeOK, TurnInv, PoolInv,
         [StartNext]_startVars
  PROVE  PoolInv'
<1> USE DEF Goto, End, poolVars
<1>1. CASE PermuteWord \/ PermuteSwitch \/ PermuteValue
  <2>1. step = "permute" /\ step' \in {"permute", "done"} /\ UNCHANGED <<pool, asked>>
    BY <1>1 DEF PermuteWord, PermuteSwitch, PermuteValue, Permuting
  <2> QED  BY <2>1 DEF PoolInv, Expanded
<1>2. CASE Permuted \/ ParseOne \/ ParseDone \/ Inform \/ Generate
  <2>1. /\ step \in {"permute", "parse", "flags", "pool"}
        /\ step' \in {"parse", "flags", "pool", "done"} /\ UNCHANGED <<pool, asked>>
    BY <1>2 DEF Permuted, ParseOne, ParseDone, Inform, Generate
  <2> QED  BY <2>1 DEF PoolInv, Expanded
<1>3. CASE Resolve
  <2>1. /\ step = "pool" /\ UNCHANGED <<opts, pool, asked, turn>>
        /\ \/ step' = "done"
           \/ step' = IF NeedsTargets(opts) THEN "expand" ELSE "interval"
    BY <1>3 DEF Resolve
  <2>2. turn = FirstTurn /\ pool = <<>> /\ asked = <<>>
    BY <2>1 DEF TurnInv, PoolInv
  <2>3. PoolMade
    BY <2>2, NothingMade
  <2>4. PoolMade'
    BY <2>1, <2>3, PoolKept
  <2> QED  BY <2>1, <2>4 DEF PoolInv, Expanded
<1>4. CASE Expand
  <2>1. /\ step = "expand" /\ step' \in {"expand", "done"} /\ NeedsTargets(opts)
    BY <1>4 DEF Expand, TurnInv
  <2>2. step' # "done" => PoolMade'
    <3>1. PoolMade
      BY <2>1 DEF PoolInv
    <3> QED  BY <1>4, <3>1, ExpandMade
  <2> QED  BY <2>1, <2>2 DEF PoolInv, Expanded
<1>5. CASE ExpandDone
  <2>1. /\ step = "expand" /\ step' \in {"interval", "done"}
        /\ UNCHANGED <<opts, pool, asked, turn>>
        /\ turn.host > LastTurn(opts).host /\ NeedsTargets(opts)
    BY <1>5 DEF ExpandDone, TurnInv
  <2>2. PoolMade'
    BY <2>1, PoolKept DEF PoolInv
  <2> QED  BY <2>1, <2>2 DEF PoolInv, Expanded
<1>6. CASE CheckInterval \/ Lookup \/ Bind \/ Listen \/ RunProbers
  <2>1. /\ step \in Expanded /\ step' \in Expanded \union {"done"}
        /\ UNCHANGED <<opts, pool, asked, turn>>
    BY <1>6 DEF CheckInterval, Lookup, Bind, LookupsDone, Listen, RunProbers,
         Expanded
  <2>2. NeedsTargets(opts) => PoolMade'
    BY <2>1, PoolKept DEF PoolInv
  <2> QED  BY <2>1, <2>2 DEF PoolInv, Expanded
<1>7. CASE UNCHANGED startVars
  <2>1. UNCHANGED <<step, opts, pool, asked, turn>>
    BY <1>7 DEF startVars
  <2>2. PoolMade => PoolMade'
    BY <2>1, PoolKept
  <2> QED  BY <2>1, <2>2 DEF PoolInv, Expanded
<1> QED  BY <1>1, <1>2, <1>3, <1>4, <1>5, <1>6, <1>7 DEF StartNext, Started

LEMMA PoolInit ==
  ASSUME StartInit
  PROVE  PoolInv
BY DEF StartInit, PoolInv, Expanded

(* The words of a command line as sequences, and the turns in which it has *)
(* ports.                                                                  *)
LEMMA WordsAre ==
  ASSUME NEW o \in [DOMAIN Defaults -> Text], o.uri = Empty
  PROVE  /\ DOMAIN Hosts(o) = 1..Len(Hosts(o)) /\ Len(Hosts(o)) \in Nat
         /\ DOMAIN Protocols(o) = 1..Len(Protocols(o))
         /\ Len(Protocols(o)) \in Nat /\ Len(Protocols(o)) >= 1
         /\ DOMAIN Ports(o) = 1..Len(Ports(o)) /\ Len(Ports(o)) \in Nat
         /\ Ports(o) # <<>> => Len(Ports(o)) >= 1
         /\ LastTurn(o).host = Len(Hosts(o)) /\ LastTurn(o).protocol = Len(Protocols(o))
         /\ LastTurn(o).port = IF Ports(o) = <<>> \/ Paired(o) THEN 1 ELSE Len(Ports(o))
<1>1. /\ Hosts(o) \in Seq(Text) /\ Protocols(o) \in Seq(Protocol) /\ Ports(o) \in Seq(Port)
      /\ Len(Protocols(o)) >= 1
  BY HostsAre, ProtocolsAre, PortsAre
<1>2. /\ LastTurn(o).host = Len(Hosts(o)) /\ LastTurn(o).protocol = Len(Protocols(o))
      /\ LastTurn(o).port = IF Ports(o) = <<>> \/ Paired(o) THEN 1 ELSE Len(Ports(o))
  BY DEF LastTurn
<1>3. Len(Hosts(o)) \in Nat /\ Len(Protocols(o)) \in Nat /\ Len(Ports(o)) \in Nat
  BY <1>1
<1>4. Ports(o) # <<>> => Len(Ports(o)) >= 1
  BY <1>1
<1> QED  BY <1>1, <1>2, <1>3, <1>4, DomainOf

(* What a turn makes is asked for.                                         *)
LEMMA TurnIsWanted ==
  ASSUME NEW o \in [DOMAIN Defaults -> Text], NEW t \in Turns, Within(o, t)
  PROVE  TargetAt(o, t) \in Wanted(o)
<1>1. CASE o.uri # Empty
  <2>1. ItemsOf(o.uri)[t.host] \in Elements(ItemsOf(o.uri))
    <3>1. ItemsOf(o.uri) \in Seq(Text)
      BY OptionsAreText, ItemsAreText
    <3>2. t.host \in DOMAIN ItemsOf(o.uri)
      BY <1>1, <3>1, DomainOf DEF Within, LastTurn
    <3> QED  BY <3>2 DEF Elements
  <2> QED  BY <1>1, <2>1 DEF TargetAt, UriAt, UriProtocol, Wanted
<1>2. CASE o.uri = Empty
  <2>1. /\ t.host \in DOMAIN Hosts(o) /\ t.protocol \in DOMAIN Protocols(o)
        /\ t.port \in 1..(IF Ports(o) = <<>> \/ Paired(o) THEN 1 ELSE Len(Ports(o)))
    BY <1>2, WordsAre DEF Within
  <2>2. /\ Hosts(o)[t.host] \in Elements(Hosts(o))
        /\ Protocols(o)[t.protocol] \in Elements(Protocols(o))
    BY <2>1 DEF Elements
  <2>3. TargetAt(o, t) = Target(Hosts(o)[t.host], PortAt(o, t), Protocols(o)[t.protocol])
    BY <1>2 DEF TargetAt
  <2>4. CASE Ports(o) = <<>>
    BY <1>2, <2>2, <2>3, <2>4 DEF PortAt, Wanted
  <2>5. CASE Ports(o) # <<>> /\ Len(Ports(o)) = Len(Protocols(o))
    <3>1. t.protocol \in DOMAIN Ports(o) /\ PortAt(o, t) = Ports(o)[t.protocol]
      <4>1. CASE Paired(o)
        BY <1>2, <2>1, <2>5, <4>1, WordsAre DEF PortAt
      <4>2. CASE ~Paired(o)
        <5>1. Len(Ports(o)) = 1
          BY <1>2, <2>5, <4>2, WordsAre DEF Paired
        <5>2. t.port = 1 /\ t.protocol = 1
          <6>1. t.port \in 1..1 /\ t.protocol \in 1..1
            BY <1>2, <2>1, <2>5, <4>2, <5>1, WordsAre
          <6> QED  BY <6>1
        <5> QED  BY <1>2, <2>5, <4>2, <5>1, <5>2, WordsAre DEF PortAt
      <4> QED  BY <4>1, <4>2
    <3> QED  BY <1>2, <2>2, <2>3, <2>5, <3>1 DEF Wanted
  <2>6. CASE Ports(o) # <<>> /\ Len(Ports(o)) # Len(Protocols(o))
    <3>1. ~Paired(o)
      BY <2>6 DEF Paired
    <3>2. t.port \in DOMAIN Ports(o) /\ PortAt(o, t) = Ports(o)[t.port]
      BY <1>2, <2>1, <2>6, <3>1, WordsAre DEF PortAt
    <3>3. Ports(o)[t.port] \in Elements(Ports(o))
      BY <3>2 DEF Elements
    <3> QED  BY <1>2, <2>2, <2>3, <2>6, <3>2, <3>3 DEF Wanted
  <2> QED  BY <2>4, <2>5, <2>6
<1> QED  BY <1>1, <1>2

(* A target that is asked for has its turn.                                *)
LEMMA WantedHasTurn ==
  ASSUME NEW o \in [DOMAIN Defaults -> Text], NEW d \in Wanted(o)
  PROVE  \E t \in Turns : Within(o, t) /\ d = TargetAt(o, t)
<1>1. CASE o.uri # Empty
  <2>1. /\ DOMAIN ItemsOf(o.uri) = 1..Len(ItemsOf(o.uri))
        /\ LastTurn(o).host = Len(ItemsOf(o.uri))
        /\ LastTurn(o).port = 1 /\ LastTurn(o).protocol = 1
    <3>1. ItemsOf(o.uri) \in Seq(Text)
      BY OptionsAreText, ItemsAreText
    <3> QED  BY <1>1, <3>1, DomainOf DEF LastTurn
  <2> DEFINE By(u) == NormalizeProtocol(IF o.protocol # Empty THEN o.protocol ELSE u.scheme)
             Own(u) == Target(u.host, IF u.port # 0 THEN u.port ELSE DefaultPort(By(u)), By(u))
  <2>2. PICK h \in 1..Len(ItemsOf(o.uri)) : d = Own(Parsed(ItemsOf(o.uri)[h]))
    BY <1>1, <2>1 DEF Wanted, Elements
  <2> DEFINE t == [host |-> h, port |-> 1, protocol |-> 1]
  <2>3. t \in Turns /\ t.host = h /\ t.port = 1 /\ t.protocol = 1
    BY DEF Turns
  <2> HIDE DEF t
  <2>4. Within(o, t)
    BY <2>1, <2>3 DEF Within
  <2>5. TargetAt(o, t) = d
    BY <1>1, <2>2, <2>3 DEF TargetAt, UriAt, UriProtocol
  <2> QED  BY <2>3, <2>4, <2>5
<1>2. CASE o.uri = Empty
  <2>1. ASSUME NEW h \in DOMAIN Hosts(o), NEW n \in 1..LastTurn(o).port,
               NEW p \in DOMAIN Protocols(o),
               \A t \in Turns : t.port = n /\ t.protocol = p =>
                 d = Target(Hosts(o)[h], PortAt(o, t), Protocols(o)[p])
        PROVE  \E t \in Turns : Within(o, t) /\ d = TargetAt(o, t)
    <3> DEFINE t == [host |-> h, port |-> n, protocol |-> p]
    <3>1. h \in Nat /\ n \in Nat /\ p \in Nat
      <4>1. LastTurn(o).port \in Nat
        BY LastTurnIs
      <4> QED  BY <1>2, <4>1, WordsAre
    <3>2. t \in Turns /\ t.host = h /\ t.port = n /\ t.protocol = p
      BY <3>1 DEF Turns
    <3> HIDE DEF t
    <3>3. Within(o, t)
      BY <1>2, <3>2, WordsAre DEF Within
    <3>4. TargetAt(o, t) = Target(Hosts(o)[h], PortAt(o, t), Protocols(o)[p])
      BY <1>2, <3>2 DEF TargetAt
    <3> QED  BY <2>1, <3>2, <3>3, <3>4
  <2>2. CASE Ports(o) = <<>>
    <3>1. PICK h \in DOMAIN Hosts(o), p \in DOMAIN Protocols(o) :
            d = Target(Hosts(o)[h], DefaultPort(Protocols(o)[p]), Protocols(o)[p])
      BY <1>2, <2>2 DEF Wanted, Elements
    <3>2. 1 \in 1..LastTurn(o).port
      BY <1>2, <2>2, WordsAre
    <3>3. \A t \in Turns : t.port = 1 /\ t.protocol = p =>
            d = Target(Hosts(o)[h], PortAt(o, t), Protocols(o)[p])
      BY <2>2, <3>1 DEF PortAt
    <3> QED  BY <2>1, <3>2, <3>3
  <2>3. CASE Ports(o) # <<>> /\ Len(Ports(o)) = Len(Protocols(o))
    <3>1. PICK h \in DOMAIN Hosts(o), p \in DOMAIN Ports(o) :
            d = Target(Hosts(o)[h], Ports(o)[p], Protocols(o)[p])
      BY <1>2, <2>3 DEF Wanted, Elements
    <3>2. p \in DOMAIN Protocols(o)
      BY <1>2, <2>3, WordsAre
    <3>3. 1 \in 1..LastTurn(o).port
      BY <1>2, <2>3, WordsAre
    <3>4. ASSUME NEW t \in Turns, t.port = 1, t.protocol = p
          PROVE  PortAt(o, t) = Ports(o)[p]
      <4>1. CASE Paired(o)
        BY <2>3, <3>4, <4>1 DEF PortAt
      <4>2. CASE ~Paired(o)
        <5>1. Len(Ports(o)) = 1
          BY <1>2, <2>3, <4>2, WordsAre DEF Paired
        <5>2. p = 1
          BY <1>2, <3>1, <5>1, WordsAre
        <5> QED  BY <2>3, <3>4, <4>2, <5>2 DEF PortAt
      <4> QED  BY <4>1, <4>2
    <3> QED  BY <2>1, <3>1, <3>2, <3>3, <3>4
  <2>4. CASE Ports(o) # <<>> /\ Len(Ports(o)) # Len(Protocols(o))
    <3>1. PICK h \in DOMAIN Hosts(o), n \in DOMAIN Ports(o), p \in DOMAIN Protocols(o) :
            d = Target(Hosts(o)[h], Ports(o)[n], Protocols(o)[p])
      BY <1>2, <2>4 DEF Wanted, Elements
    <3>2. ~Paired(o)
      BY <2>4 DEF Paired
    <3>3. n \in 1..LastTurn(o).port
      BY <1>2, <2>4, <3>2, WordsAre
    <3>4. \A t \in Turns : t.port = n /\ t.protocol = p =>
            d = Target(Hosts(o)[h], PortAt(o, t), Protocols(o)[p])
      BY <2>4, <3>1, <3>2 DEF PortAt
    <3> QED  BY <2>1, <3>3, <3>4
  <2> QED  BY <2>2, <2>3, <2>4
<1> QED  BY <1>1, <1>2

LEMMA DistinctTurns ==
  ASSUME NEW o \in [DOMAIN Defaults -> Text], o.uri = Empty,
         ~Rejected(o),
         Distinct(Hosts(o)), Distinct(Ports(o)), Distinct(Protocols(o)),
         NEW t \in Turns, NEW u \in Turns, Within(o, t), Within(o, u),
         TargetAt(o, t) = TargetAt(o, u)
  PROVE  t = u
<1>1. 0 \notin Elements(Ports(o))
  BY DEF Rejected
<1>2. /\ t.host \in 1..Len(Hosts(o)) /\ u.host \in 1..Len(Hosts(o))
      /\ t.protocol \in 1..Len(Protocols(o)) /\ u.protocol \in 1..Len(Protocols(o))
  BY <1>1, PortAtIs
<1>3. /\ DOMAIN Hosts(o) = 1..Len(Hosts(o))
      /\ DOMAIN Protocols(o) = 1..Len(Protocols(o))
      /\ DOMAIN Ports(o) = 1..Len(Ports(o))
  BY HostsAre, ProtocolsAre, PortsAre, DomainOf
<1>4. /\ Hosts(o)[t.host] = Hosts(o)[u.host] /\ PortAt(o, t) = PortAt(o, u)
      /\ Protocols(o)[t.protocol] = Protocols(o)[u.protocol]
  BY DEF TargetAt, Target
<1>5. t.host = u.host /\ t.protocol = u.protocol
  BY <1>2, <1>3, <1>4 DEF Distinct
<1>6. t.port = u.port
  <2>1. /\ t.port \in 1..(IF Ports(o) = <<>> \/ Paired(o) THEN 1 ELSE Len(Ports(o)))
        /\ u.port \in 1..(IF Ports(o) = <<>> \/ Paired(o) THEN 1 ELSE Len(Ports(o)))
    BY DEF Within, LastTurn
  <2>2. CASE Ports(o) = <<>> \/ Paired(o)
    BY <2>1, <2>2
  <2>3. CASE Ports(o) # <<>> /\ ~Paired(o)
    <3>1. PortAt(o, t) = Ports(o)[t.port] /\ PortAt(o, u) = Ports(o)[u.port]
      BY <2>3 DEF PortAt
    <3> QED  BY <1>3, <1>4, <2>1, <2>3, <3>1 DEF Distinct
  <2> QED  BY <2>2, <2>3
<1> QED  BY <1>5, <1>6 DEF Turns

LEMMA PoolIsWhatWasAsked ==
  ASSUME StartTypeOK, TurnInv, RunInv, PoolInv
  PROVE  PoolIsAsked
<1> SUFFICES ASSUME step \in Expanded, NeedsTargets(opts)
             PROVE  PoolIsAsked
  BY DEF PoolIsAsked, Expanded
<1> DEFINE o == opts
<1>1. /\ o \in [DOMAIN Defaults -> Text] /\ turn \in Turns /\ ~Rejected(o)
      /\ pool # <<>> /\ PoolMade /\ turn.host > LastTurn(o).host
      /\ pool \in Seq(TargetDef) /\ asked \in Seq(TargetDef)
  BY DEF StartTypeOK, Turns, TurnInv, RunInv, PoolInv, Expanded
<1>2. /\ DOMAIN pool = 1..Len(pool) /\ DOMAIN asked = 1..Len(asked)
      /\ Len(asked) = Len(pool)
  BY <1>1, DomainOf DEF PoolMade
<1>3. ASSUME NEW i \in DOMAIN pool
      PROVE  /\ pool[i].port \in Port \ {0}
             /\ pool[i] = asked[i] \/ IsNode(i)
  <2>1. pool[i] \in TargetDef
    BY <1>1, <1>2, ElementOf
  <2> QED  BY <1>1, <1>2, <2>1 DEF PoolMade, TargetDef
<1>4. Wanted(o) \subseteq Elements(asked)
  <2>1. ASSUME NEW d \in Wanted(o)
        PROVE  d \in Elements(asked)
    <3>1. PICK t \in Turns : Within(o, t) /\ d = TargetAt(o, t)
      BY <1>1, <2>1, WantedHasTurn
    <3>2. Before(t, turn)
      <4>1. LastTurn(o).host \in Nat
        BY <1>1, LastTurnIs
      <4> QED  BY <1>1, <3>1, <4>1 DEF Within, Before, Turns
    <3> QED  BY <1>1, <1>2, <3>1, <3>2 DEF PoolMade, Elements
  <2> QED  BY <2>1
<1>5. PICK w \in [1..Len(asked) -> Turns] : FromTurns(w)
  BY <1>1 DEF PoolMade
<1>6. Elements(asked) \subseteq Wanted(o)
  <2>1. ASSUME NEW i \in DOMAIN asked
        PROVE  asked[i] \in Wanted(o)
    <3>1. w[i] \in Turns /\ Within(o, w[i]) /\ asked[i] = TargetAt(o, w[i])
      BY <1>2, <1>5 DEF FromTurns
    <3> QED  BY <1>1, <3>1, TurnIsWanted
  <2> QED  BY <2>1 DEF Elements
<1>7. ASSUME o.uri = Empty,
             Distinct(Hosts(o)), Distinct(Ports(o)), Distinct(Protocols(o)),
             NEW i \in DOMAIN asked, NEW j \in DOMAIN asked, asked[i] = asked[j], i # j
      PROVE  Ports(o) = <<>> /\ IsCluster(asked[i])
  <2>1. /\ w[i] \in Turns /\ Within(o, w[i]) /\ asked[i] = TargetAt(o, w[i])
        /\ w[j] \in Turns /\ Within(o, w[j]) /\ asked[j] = TargetAt(o, w[j])
    BY <1>2, <1>5 DEF FromTurns
  <2>2. w[i] = w[j]
    BY <1>1, <1>7, <2>1, DistinctTurns
  <2>3. ClusterAt(o, w[i])
    BY <1>2, <1>5, <1>7, <2>2 DEF FromTurns
  <2> QED  BY <1>7, <2>1, <2>3 DEF ClusterAt
<1> QED  BY <1>1, <1>2, <1>3, <1>4, <1>6, <1>7 DEF PoolIsAsked

(* The pool is exactly the targets that are asked for, each port with the  *)
(* protocols it is asked for with, and the nodes of clusters in the place  *)
(* of their names, for every command line and every answer of the name     *)
(* servers.                                                                *)
THEOREM PoolCorrect == StartSpec => []PoolIsAsked
<1>1. StartInit => RunInv /\ PoolInv
  BY RunInit, PoolInit
<1>2. StartTypeOK /\ StartTypeOK' /\ TurnInv /\ RunInv /\ PoolInv /\ [StartNext]_startVars =>
        RunInv' /\ PoolInv'
  BY RunStep, PoolStep
<1>3. StartTypeOK /\ TurnInv /\ RunInv /\ PoolInv => PoolIsAsked
  BY PoolIsWhatWasAsked
<1> QED  BY <1>1, <1>2, <1>3, StartTyped, PTL DEF StartSpec
=============================================================================
