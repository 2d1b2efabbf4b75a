---------------------------- MODULE OutputsProofs ----------------------------
(***************************************************************************)
(* Proofs about Outputs: for all ways to start netping, and for any number *)
(* of targets, of probes and of presses of Enter.                          *)
(***************************************************************************)
EXTENDS Outputs, FiniteSetTheorems, TLAPS

(* The counters tell whether a target answered, and whether it failed.     *)
CountsInv ==
  \A t \in Targets :
    /\ ok[t] > 0 <=> \E i \in DOMAIN log[t] : log[t][i] = "ok"
    /\ bad[t] > 0 <=> \E i \in DOMAIN log[t] : log[t][i] = "fail"
    /\ t \notin Active => ok[t] = 0 /\ bad[t] = 0 /\ wpc[t] = "done"
    /\ wpc[t] = "print" => Len(log[t]) > 0

(* main goes on when nobody probes any more.                               *)
DoneInv == mpc # <<"wait">> => \A t \in Targets : wpc[t] = "done"

(* Who gets to the deferred calls had no loss; the others are gone.        *)
ExitInv ==
  /\ mpc \in {<<"defer">>, <<"return">>} => \A t \in Targets : bad[t] = 0
  /\ status \in Codes => mpc = <<"gone">>
  /\ status \in {"unreachable", "partial loss", "interrupted"} => status = ExitCode
  /\ status = "success" => \A t \in Targets : bad[t] = 0

IInv == TypeOK /\ CountsInv /\ DoneInv /\ ExitInv

LEMMA OptsIs ==
  ASSUME TypeOK
  PROVE  /\ opts.targets \in Targets /\ opts.maxFails \in Nat
         /\ Active \subseteq Targets /\ 1 \in Active /\ 1 \in Targets
         /\ \A t \in Targets : t \in Nat /\ t >= 1 /\ (t \in Active <=> t <= opts.targets)
<1>1. opts \in Option /\ MaxTargets \in Nat
  BY OutputsAssumption DEF TypeOK
<1>2. opts.targets \in Targets /\ opts.maxFails \in Nat
  BY <1>1 DEF Option
<1> QED  BY <1>1, <1>2 DEF Active, Targets

LEMMA InitIInv == Init => IInv
<1> SUFFICES ASSUME Init  PROVE IInv
  OBVIOUS
<1>1. /\ <<>> \in Seq({"ok", "fail"}) /\ <<>> \in Seq(Row) /\ <<>> \in Seq(Block)
      /\ DOMAIN <<>> = {}
  OBVIOUS
<1>2. <<"wait">> \in {<<l>> : l \in {"wait", "exit", "defer", "return", "gone"}}
  OBVIOUS
<1>3. 0 \in 0..MaxEnter
  BY OutputsAssumption
<1>4. TypeOK
  BY <1>1, <1>2, <1>3 DEF Init, TypeOK
<1>5. CountsInv
  <2>1. \A t \in Targets : t \notin Active => wpc[t] = "done"
    BY <1>4, OptsIs DEF Init
  <2> QED  BY <1>1, <2>1 DEF Init, CountsInv
<1>6. DoneInv /\ ExitInv
  BY DEF Init, DoneInv, ExitInv, Codes
<1> QED  BY <1>4, <1>5, <1>6 DEF IInv

LEMMA BlockIs ==
  ASSUME TypeOK, NEW t \in Targets
  PROVE  BlockOf(t) \in Block
  BY DEF TypeOK, BlockOf, Block

LEMMA StatisticsType ==
  ASSUME TypeOK, NEW t \in Targets, PrintStatistics(t)
  PROVE  /\ buffered' \in Seq(Block) /\ saved' \in Seq(Block)
         /\ status' \in {status, "crashed"}
<1>1. CASE CSVStatistics(t)
  BY <1>1, BlockIs DEF CSVStatistics, TypeOK
<1>2. CASE SQLiteStatistics(t)
  BY <1>2, BlockIs DEF SQLiteStatistics, TypeOK
<1> QED  BY <1>1, <1>2 DEF PrintStatistics

LEMMA ProberStep ==
  ASSUME IInv, NEW t \in Targets, Prober(t)
  PROVE  IInv'
<1>1. TypeOK
  BY DEF IInv
<1>2. Running /\ wpc[t] # "done" /\ mpc = <<"wait">>
  BY DEF Prober, Probe, PrintProbe, Continue, Interrupted, IInv, DoneInv
<1>3. /\ wpc' \in [Targets -> {"probe", "print", "next", "done"}]
      /\ \A u \in Targets \ {t} : wpc'[u] = wpc[u]
  BY <1>1 DEF Prober, Probe, PrintProbe, Continue, Interrupted, Goto, TypeOK
<1>4. UNCHANGED <<opts, cancelled, buffered, saved, open, mpc, epc, enters, status>>
      \/ UNCHANGED <<opts, disk, mpc, epc, enters, status, cancelled>>
  BY DEF Prober, Probe, PrintProbe, Continue, Interrupted, disk
<1>5. UNCHANGED <<opts, cancelled, buffered, saved, open, mpc, epc, enters, status>>
  BY <1>4 DEF disk
<1>6. DoneInv'
  BY <1>2, <1>5 DEF DoneInv
<1>7. ExitInv'
  <2>1. status = "running"
    BY <1>2 DEF Running
  <2> QED  BY <1>2, <1>5, <2>1 DEF ExitInv, Codes
<1>8. CASE Probe(t)
  <2>1. PICK v \in {"ok", "fail"} :
          /\ log' = [log EXCEPT ![t] = Append(@, v)]
          /\ ok' = [ok EXCEPT ![t] = IF v = "ok" THEN @ + 1 ELSE @]
          /\ bad' = [bad EXCEPT ![t] = IF v = "ok" THEN @ ELSE @ + 1]
          /\ streak' = [streak EXCEPT ![t] = IF v = "ok" THEN 0 ELSE @ + 1]
    BY <1>8 DEF Probe
  <2>2. /\ log \in [Targets -> Seq({"ok", "fail"})] /\ ok \in [Targets -> Nat]
        /\ bad \in [Targets -> Nat] /\ streak \in [Targets -> Nat]
    BY <1>1 DEF TypeOK
  <2>3. Append(log[t], v) \in Seq({"ok", "fail"}) /\ log[t] \in Seq({"ok", "fail"})
    BY <2>2
  <2>4. log' \in [Targets -> Seq({"ok", "fail"})]
    BY <2>1, <2>2, <2>3
  <2>5. ok' \in [Targets -> Nat]
    BY <2>1, <2>2
  <2>6. bad' \in [Targets -> Nat]
    BY <2>1, <2>2
  <2>7. streak' \in [Targets -> Nat]
    BY <2>1, <2>2
  <2>8. rows' = rows
    BY <1>8 DEF Probe, disk
  <2>9. TypeOK'
    BY <1>1, <1>3, <1>5, <2>4, <2>5, <2>6, <2>7, <2>8 DEF TypeOK
  <2>10. \A u \in Targets \ {t} : log'[u] = log[u] /\ ok'[u] = ok[u] /\ bad'[u] = bad[u]
    BY <2>1, <2>2
  <2>11. PICK l : l = log'[t]
    OBVIOUS
  <2>12. PICK n \in Nat : n = Len(log[t])
    BY <2>3
  <2>13. /\ DOMAIN l = 1 .. n + 1 /\ l[n + 1] = v /\ DOMAIN log[t] = 1 .. n
         /\ \A i \in 1..n : l[i] = log[t][i]
         /\ Len(l) = n + 1
    BY <2>1, <2>2, <2>3, <2>11, <2>12
  <2>14. \A w : (\E i \in DOMAIN l : l[i] = w) <=> v = w \/ \E i \in DOMAIN log[t] : log[t][i] = w
    BY <2>13
  <2>15. /\ ok'[t] = (IF v = "ok" THEN ok[t] + 1 ELSE ok[t])
         /\ bad'[t] = (IF v = "ok" THEN bad[t] ELSE bad[t] + 1)
    BY <2>1, <2>2
  <2>16. ok[t] \in Nat /\ bad[t] \in Nat /\ (v = "fail" <=> v # "ok")
    BY <2>2
  <2>17. /\ ok[t] > 0 <=> \E i \in DOMAIN log[t] : log[t][i] = "ok"
         /\ bad[t] > 0 <=> \E i \in DOMAIN log[t] : log[t][i] = "fail"
    BY DEF IInv, CountsInv
  <2>18. /\ ok'[t] > 0 <=> \E i \in DOMAIN l : l[i] = "ok"
         /\ bad'[t] > 0 <=> \E i \in DOMAIN l : l[i] = "fail"
    <3>1. ok'[t] > 0 <=> v = "ok" \/ ok[t] > 0
      BY <2>15, <2>16
    <3>2. bad'[t] > 0 <=> v = "fail" \/ bad[t] > 0
      BY <2>15, <2>16
    <3>3. /\ (\E i \in DOMAIN l : l[i] = "ok") <=>
               v = "ok" \/ \E i \in DOMAIN log[t] : log[t][i] = "ok"
          /\ (\E i \in DOMAIN l : l[i] = "fail") <=>
               v = "fail" \/ \E i \in DOMAIN log[t] : log[t][i] = "fail"
      BY <2>14
    <3> QED  BY <2>17, <3>1, <3>2, <3>3
  <2>19. t \in Active /\ Active' = Active
    BY <1>2, <1>5 DEF IInv, CountsInv, Active
  <2>20. CountsInv'
    <3>1. ASSUME NEW u \in Targets \ {t}
          PROVE  log'[u] = log[u] /\ ok'[u] = ok[u] /\ bad'[u] = bad[u] /\ wpc'[u] = wpc[u]
      BY <1>3, <2>10, <3>1
    <3>2. Len(log'[t]) > 0
      BY <2>11, <2>13
    <3>3. CountsInv
      BY DEF IInv
    <3> QED  BY <2>11, <2>18, <2>19, <3>1, <3>2, <3>3 DEF CountsInv
  <2> QED  BY <1>6, <1>7, <2>9, <2>20 DEF IInv
<1>9. CASE PrintProbe(t) \/ Continue(t) \/ Interrupted(t)
  <2>1. UNCHANGED <<log, counters>> /\ wpc'[t] # "print"
    BY <1>1, <1>9 DEF PrintProbe, Continue, Interrupted, Goto, TypeOK
  <2>2. CountsInv'
    <3>1. t \in Active /\ Active' = Active
      BY <1>2, <1>5 DEF IInv, CountsInv, Active
    <3> QED  BY <1>3, <2>1, <3>1 DEF IInv, CountsInv, counters
  <2>3. rows' \in Seq(Row)
    <3>1. CASE PrintProbe(t)
      <4>1. Len(log[t]) > 0 /\ log[t] \in Seq({"ok", "fail"})
        BY <1>1, <3>1 DEF PrintProbe, IInv, CountsInv, TypeOK
      <4>2. log[t][Len(log[t])] \in {"ok", "fail"}
        BY <4>1
      <4>3. [target |-> t, verdict |-> log[t][Len(log[t])]] \in Row
        BY <4>2 DEF Row
      <4> QED  BY <1>1, <3>1, <4>3 DEF PrintProbe, TypeOK
    <3>2. CASE Continue(t) \/ Interrupted(t)
      BY <1>1, <3>2 DEF Continue, Interrupted, disk, TypeOK
    <3> QED  BY <1>9, <3>1, <3>2
  <2>4. TypeOK'
    BY <1>1, <1>3, <1>5, <2>1, <2>3 DEF TypeOK, counters
  <2> QED  BY <1>6, <1>7, <2>2, <2>4 DEF IInv
<1> QED  BY <1>8, <1>9 DEF Prober
-----------------------------------------------------------------------------
LEMMA CountsSame ==
  ASSUME CountsInv, UNCHANGED <<opts, wpc, log, counters>>
  PROVE  CountsInv'
<1>1. Active' = Active
  BY DEF Active
<1> QED  BY <1>1 DEF CountsInv, counters

LEMMA AsideStep ==
  ASSUME IInv, Cancel \/ Enter \/ EnterPrints
  PROVE  IInv'
<1>1. TypeOK /\ Running /\ 1 \in Targets
  BY OptsIs DEF IInv, Cancel, Enter, EnterPrints
<1>2. UNCHANGED <<opts, wpc, log, counters, mpc, rows, open>>
  BY DEF Cancel, Enter, EnterPrints, disk
<1>3. CountsInv'
  BY <1>2, CountsSame DEF IInv
<1>4. DoneInv'
  BY <1>2 DEF IInv, DoneInv
<1>5. /\ buffered' \in Seq(Block) /\ saved' \in Seq(Block)
      /\ status' \in {status, "crashed"}
  <2>1. CASE EnterPrints
    BY <1>1, <2>1, StatisticsType DEF EnterPrints
  <2>2. CASE Cancel \/ Enter
    BY <1>1, <2>2 DEF Cancel, Enter, disk, TypeOK
  <2> QED  BY <2>1, <2>2
<1>6. status' \in {"running", "crashed"}
  BY <1>1, <1>5 DEF Running
<1>7. ExitInv'
  BY <1>2, <1>6 DEF IInv, ExitInv, Codes, counters
<1>8. cancelled' \in BOOLEAN /\ epc' \in {"idle", "print"} /\ enters' \in 0..MaxEnter
  <2>1. enters \in 0..MaxEnter /\ MaxEnter \in Nat
    BY <1>1, OutputsAssumption DEF TypeOK
  <2>2. enters' = enters \/ (enters < MaxEnter /\ enters' = enters + 1)
    BY DEF Cancel, Enter, EnterPrints
  <2>3. enters' \in 0..MaxEnter
    BY <2>1, <2>2
  <2> QED  BY <1>1, <2>3 DEF Cancel, Enter, EnterPrints, TypeOK
<1>9. TypeOK'
  BY <1>1, <1>2, <1>5, <1>6, <1>8 DEF TypeOK, counters
<1> QED  BY <1>3, <1>4, <1>7, <1>9 DEF IInv

(* The places of main.                                                     *)
MPC == {<<l>> : l \in {"wait", "exit", "defer", "return", "gone"}}
         \cup {Stats(t) : t \in Targets}

LEMMA PlacesAre ==
  /\ {<<"exit">>, <<"defer">>, <<"return">>, <<"gone">>} \subseteq MPC
  /\ \A t \in Targets : Stats(t) \in MPC
  /\ \A t \in Targets : Stats(t) \notin {<<l>> : l \in {"wait", "exit", "defer", "return", "gone"}}
  BY DEF MPC, Stats

(* What the exit code says of the counters.                                *)
LEMMA CodeIs ==
  ASSUME IInv
  PROVE  /\ ExitCode \in Codes
         /\ ExitCode = "success" => \A t \in Targets : bad[t] = 0
<1>1. ok \in [Targets -> Nat] /\ bad \in [Targets -> Nat]
  BY DEF IInv, TypeOK
<1>2. ExitCode \in Codes
  BY DEF ExitCode, Codes
<1>3. ASSUME ExitCode = "success"
      PROVE  \A t \in Targets : bad[t] = 0
  <2>1. ~Some(bad)
    BY <1>3 DEF ExitCode
  <2>2. \A t \in Targets : t \notin Active => bad[t] = 0
    BY DEF IInv, CountsInv
  <2> QED  BY <1>1, <2>1, <2>2 DEF Some
<1> QED  BY <1>2, <1>3

LEMMA MainStep ==
  ASSUME IInv, Main
  PROVE  IInv'
<1>1. TypeOK /\ Running
  BY DEF IInv, Main, Wait, FinalStatistics, Exit, Done, Return
<1>2. UNCHANGED <<opts, cancelled, wpc, log, counters, rows, epc, enters>>
  BY DEF Main, Wait, FinalStatistics, Exit, Done, Return, disk
<1>3. CountsInv'
  BY <1>2, CountsSame DEF IInv
<1>4. \A t \in Targets : wpc[t] = "done"
  BY DEF Main, Wait, FinalStatistics, Exit, Done, Return, IInv, DoneInv, Stats
<1>5. DoneInv'
  BY <1>2, <1>4 DEF DoneInv
<1>6. ExitCode' = ExitCode
  BY <1>2 DEF ExitCode, Some, Active, counters
<1> DEFINE Kept ==
      /\ buffered' \in Seq(Block) /\ saved' \in Seq(Block) /\ open' \in BOOLEAN
      /\ mpc' \in MPC /\ status' \in Codes \cup {"running", "crashed"} /\ ExitInv'
<1>7. Kept
  <2>1. CASE Wait
    <3>1. mpc' \in {<<"exit">>, Stats(1)} /\ 1 \in Targets /\ UNCHANGED <<disk, status>>
      BY <1>1, <2>1, OptsIs DEF Wait
    <3>2. mpc' \in MPC /\ mpc' \notin {<<"defer">>, <<"return">>}
      BY <3>1, PlacesAre DEF Stats
    <3> QED  BY <1>1, <3>1, <3>2 DEF TypeOK, disk, ExitInv, Running, Codes
  <2>2. ASSUME NEW t \in Targets, FinalStatistics(t)
        PROVE  Kept
    <3>1. /\ mpc' = <<"exit">> \/ (t < opts.targets /\ mpc' = Stats(t + 1))
          /\ open' = open
      BY <2>2 DEF FinalStatistics
    <3>4. t < opts.targets => t + 1 \in Targets
      BY <1>1, OptsIs, OutputsAssumption DEF Targets
    <3>2. mpc' \in MPC /\ mpc' \notin {<<"defer">>, <<"return">>}
      BY <3>1, <3>4, PlacesAre DEF Stats
    <3>3. /\ buffered' \in Seq(Block) /\ saved' \in Seq(Block)
          /\ status' \in {status, "crashed"}
      BY <1>1, <2>2, StatisticsType DEF FinalStatistics
    <3> QED  BY <1>1, <3>1, <3>2, <3>3 DEF TypeOK, ExitInv, Running, Codes
  <2>3. CASE Exit
    <3>1. /\ UNCHANGED disk
          /\ IF ExitCode = "success" THEN mpc' = <<"defer">> /\ status' = status
             ELSE mpc' = <<"gone">> /\ status' = ExitCode
      BY <2>3 DEF Exit
    <3>2. mpc' \in MPC
      BY <3>1, PlacesAre
    <3>3. CASE ExitCode = "success"
      BY <1>1, <1>2, <3>1, <3>2, <3>3, CodeIs DEF TypeOK, disk, ExitInv, Running, Codes, counters
    <3>4. CASE ExitCode # "success"
      <4>1. ExitCode \in Codes /\ mpc' = <<"gone">> /\ status' = ExitCode /\ UNCHANGED disk
        BY <3>1, <3>4, CodeIs
      <4>2. status' = ExitCode' /\ status' # "success" /\ status' # "running"
        BY <1>6, <3>4, <4>1 DEF Codes
      <4>3. mpc' \notin {<<"defer">>, <<"return">>}
        BY <4>1
      <4>4. ExitInv'
        BY <4>1, <4>2, <4>3 DEF ExitInv
      <4> QED  BY <1>1, <3>2, <4>1, <4>4 DEF TypeOK, disk
    <3> QED  BY <3>3, <3>4
  <2>4. CASE Done
    <3>1. /\ saved' = saved \o buffered /\ buffered' = <<>> /\ open' = FALSE
          /\ mpc' = <<"return">> /\ status' = status /\ mpc = <<"defer">>
      BY <2>4 DEF Done
    <3>2. saved' \in Seq(Block) /\ buffered' \in Seq(Block)
      BY <1>1, <3>1 DEF TypeOK
    <3>3. \A t \in Targets : bad'[t] = 0
      BY <1>2, <3>1 DEF IInv, ExitInv, counters
    <3> QED  BY <1>1, <3>1, <3>2, <3>3, PlacesAre DEF TypeOK, ExitInv, Running, Codes
  <2>5. CASE Return
    <3>1. /\ UNCHANGED disk /\ mpc' = <<"gone">> /\ status' = "success" /\ mpc = <<"return">>
      BY <2>5 DEF Return
    <3>2. \A t \in Targets : bad'[t] = 0
      BY <1>2, <3>1 DEF IInv, ExitInv, counters
    <3> QED  BY <1>1, <3>1, <3>2, PlacesAre DEF TypeOK, disk, ExitInv, Codes
  <2> QED  BY <2>1, <2>2, <2>3, <2>4, <2>5 DEF Main
<1>8. TypeOK'
  BY <1>1, <1>2, <1>7 DEF TypeOK, MPC, counters
<1> QED  BY <1>3, <1>5, <1>7, <1>8 DEF IInv

LEMMA SpecIInv == Spec => []IInv
<1>1. IInv /\ [Next]_vars => IInv'
  <2> SUFFICES ASSUME IInv, [Next]_vars  PROVE IInv'
    OBVIOUS
  <2>1. CASE UNCHANGED vars
    <3>1. UNCHANGED <<opts, cancelled, wpc, log, counters, disk, mpc, epc, enters, status>>
      BY <2>1 DEF vars
    <3>2. TypeOK'
      BY <3>1 DEF IInv, TypeOK, counters, disk
    <3>3. CountsInv'
      BY <3>1, CountsSame DEF IInv
    <3>4. DoneInv'
      BY <3>1 DEF IInv, DoneInv
    <3>5. ExitInv'
      BY <3>1 DEF IInv, ExitInv, ExitCode, Some, Active, counters
    <3> QED  BY <3>2, <3>3, <3>4, <3>5 DEF IInv
  <2> QED  BY <2>1, ProberStep, AsideStep, MainStep DEF Next, Gone
<1> QED  BY InitIInv, <1>1, PTL DEF Spec

(* Every variable keeps its type, and what is saved are rows and blocks of *)
(* targets there are, however the process ends (CSVPrinter,                *)
(* DatabasePrinter, main).                                                 *)
THEOREM TypeCorrect == Spec => []TypeOK
<1>1. IInv => TypeOK
  BY DEF IInv
<1> QED  BY SpecIInv, <1>1, PTL

LEMMA LostIs ==
  ASSUME IInv, NEW t \in Targets
  PROVE  /\ Lost(t) = {} <=> bad[t] = 0
         /\ Lost(t) = DOMAIN log[t] <=> ok[t] = 0
<1>1. ok[t] \in Nat /\ bad[t] \in Nat /\ log[t] \in Seq({"ok", "fail"})
  BY DEF IInv, TypeOK
<1>2. \A i \in DOMAIN log[t] : log[t][i] \in {"ok", "fail"}
  BY <1>1
<1>3. /\ ok[t] > 0 <=> \E i \in DOMAIN log[t] : log[t][i] = "ok"
      /\ bad[t] > 0 <=> \E i \in DOMAIN log[t] : log[t][i] = "fail"
  BY DEF IInv, CountsInv
<1>4. Lost(t) = {} <=> ~\E i \in DOMAIN log[t] : log[t][i] = "fail"
  BY DEF Lost
<1>5. Lost(t) = DOMAIN log[t] <=> ~\E i \in DOMAIN log[t] : log[t][i] = "ok"
  BY <1>2 DEF Lost
<1> QED  BY <1>1, <1>3, <1>4, <1>5

(* The exit code tells what became of the probes of all targets, whatever  *)
(* was printed meanwhile and wherever an interrupt falls (main).           *)
THEOREM ExitCorrect == Spec => []ExitTellsOutcome
<1>1. IInv => ExitTellsOutcome
  <2> SUFFICES ASSUME IInv, status \in Codes
               PROVE  /\ status = "success" => \A t \in Active : Lost(t) = {}
                      /\ status = "unreachable" <=>
                           ~cancelled /\ (\A t \in Active : Lost(t) = DOMAIN log[t])
                                      /\ (\E t \in Active : Lost(t) # {})
                      /\ status = "partial loss" =>
                           \E t, u \in Active : Lost(t) # {} /\ Lost(u) # DOMAIN log[u]
    BY DEF ExitTellsOutcome
  <2>1. /\ ok \in [Targets -> Nat] /\ bad \in [Targets -> Nat]
        /\ cancelled \in BOOLEAN
    BY DEF IInv, TypeOK
  <2>2. Active \subseteq Targets /\ 1 \in Active
    BY OptsIs DEF IInv
  <2>4. \A t \in Active : /\ Lost(t) = {} <=> ~(bad[t] > 0)
                          /\ Lost(t) = DOMAIN log[t] <=> ~(ok[t] > 0)
    BY <2>1, <2>2, LostIs
  <2>5. CASE status = "success"
    <3>1. \A t \in Active : bad[t] = 0
      BY <2>2, <2>5 DEF IInv, ExitInv
    <3> QED  BY <2>1, <2>2, <2>4, <2>5, <3>1
  <2>6. CASE status # "success"
    <3>1. status = ExitCode
      BY <2>6 DEF IInv, ExitInv, Codes
    <3>2. CASE cancelled
      BY <3>1, <3>2 DEF ExitCode
    <3>3. CASE ~cancelled /\ ~Some(ok) /\ Some(bad)
      <4>1. status = "unreachable"
        BY <3>1, <3>3 DEF ExitCode
      <4> QED  BY <2>4, <3>3, <4>1 DEF Some
    <3>4. CASE ~cancelled /\ Some(ok) /\ Some(bad)
      <4>1. status = "partial loss"
        BY <3>1, <3>4 DEF ExitCode
      <4>2. PICK t \in Active, u \in Active : bad[t] > 0 /\ ok[u] > 0
        BY <3>4 DEF Some
      <4>3. Lost(t) # {} /\ Lost(u) # DOMAIN log[u]
        BY <2>4, <4>2
      <4>4. ~(\A v \in Active : Lost(v) = DOMAIN log[v])
        BY <4>3
      <4> QED  BY <4>1, <4>3, <4>4
    <3>5. CASE ~cancelled /\ ~Some(bad)
      BY <2>6, <3>1, <3>5 DEF ExitCode
    <3> QED  BY <3>2, <3>3, <3>4, <3>5
  <2> QED  BY <2>5, <2>6
<1> QED  BY SpecIInv, <1>1, PTL
-----------------------------------------------------------------------------
(* What is written of the probes while they go on.                         *)
Written(t) == Cardinality(RowsOf(t))

ToldInvOf(t) ==
  /\ Written(t) <= Len(log[t])
  /\ \A i \in RowsOf(t) :
       rows[i].verdict = log[t][Cardinality(RowsOf(t) \cap 1 .. i)]

PlaceInvOf(t) ==
  /\ wpc[t] = "print" => Written(t) + 1 = Len(log[t])
  /\ wpc[t] \in {"probe", "next"} => Written(t) = Len(log[t]) /\ ~GivesUp(t)
  /\ wpc[t] = "done" => Written(t) + Unwritten(t) = Len(log[t])

RowsInv == Writes => \A t \in Active : ToldInvOf(t) /\ PlaceInvOf(t)

(* The files stay open until nobody probes any more.                       *)
OpenInv ==
  /\ mpc \notin {<<"return">>, <<"gone">>} => open
  /\ mpc = <<"wait">> => Running

LEMMA RowsAreFinite ==
  ASSUME TypeOK, NEW t
  PROVE  /\ IsFiniteSet(RowsOf(t)) /\ Written(t) \in Nat
         /\ RowsOf(t) \subseteq 1 .. Len(rows) /\ Len(rows) \in Nat
<1>1. rows \in Seq(Row)
  BY DEF TypeOK
<1>2. RowsOf(t) \subseteq 1 .. Len(rows) /\ Len(rows) \in Nat
  BY <1>1 DEF RowsOf
<1>3. IsFiniteSet(1 .. Len(rows))
  BY <1>2, FS_Interval
<1> QED  BY <1>2, <1>3, FS_Subset, FS_CardinalityType DEF Written

LEMMA LogLength ==
  ASSUME TypeOK, NEW t \in Targets
  PROVE  Len(log[t]) \in Nat /\ log[t] \in Seq({"ok", "fail"})
<1>1. log[t] \in Seq({"ok", "fail"})
  BY DEF TypeOK
<1> QED  BY <1>1

(* The rank of a row among those of its target.                            *)
LEMMA RankIs ==
  ASSUME TypeOK, NEW t, NEW i \in RowsOf(t)
  PROVE  Cardinality(RowsOf(t) \cap 1 .. i) \in 1 .. Written(t)
<1> DEFINE R == RowsOf(t) \cap 1 .. i
<1>1. i \in 1 .. Len(rows) /\ Len(rows) \in Nat
  BY RowsAreFinite
<1>2. i \in R /\ R \subseteq RowsOf(t)
  BY <1>1
<1>3. IsFiniteSet(R) /\ Cardinality(R) \in Nat /\ Cardinality(R) <= Written(t)
  BY <1>2, RowsAreFinite, FS_Subset, FS_CardinalityType DEF Written
<1>4. Cardinality(R) # 0
  BY <1>2, <1>3, FS_EmptySet
<1>5. Written(t) \in Nat
  BY RowsAreFinite
<1> HIDE DEF R
<1>6. Cardinality(R) \in 1 .. Written(t)
  BY <1>3, <1>4, <1>5
<1> QED  BY <1>6 DEF R

LEMMA ToldSame ==
  ASSUME NEW t, ToldInvOf(t), rows' = rows, log'[t] = log[t]
  PROVE  ToldInvOf(t)' /\ Written(t)' = Written(t)
  BY DEF ToldInvOf, Written, RowsOf

LEMMA PlaceSame ==
  ASSUME NEW t, PlaceInvOf(t), Written(t)' = Written(t), opts' = opts, wpc'[t] = wpc[t],
         log'[t] = log[t], streak'[t] = streak[t]
  PROVE  PlaceInvOf(t)'
  BY DEF PlaceInvOf, Unwritten, GivesUp, Single

LEMMA ToldProbed ==
  ASSUME TypeOK, NEW t \in Targets, ToldInvOf(t), rows' = rows,
         NEW v \in {"ok", "fail"}, log'[t] = Append(log[t], v)
  PROVE  /\ ToldInvOf(t)' /\ Written(t)' = Written(t)
         /\ Len(log'[t]) = Len(log[t]) + 1
<1>1. RowsOf(t)' = RowsOf(t) /\ Written(t)' = Written(t)
  BY DEF RowsOf, Written
<1>2. Len(log[t]) \in Nat /\ Written(t) \in Nat /\ Written(t) <= Len(log[t])
  BY RowsAreFinite, LogLength DEF ToldInvOf
<1>3. /\ Len(log'[t]) = Len(log[t]) + 1
      /\ \A k \in 1 .. Len(log[t]) : log'[t][k] = log[t][k]
  BY LogLength
<1>4. ASSUME NEW i \in RowsOf(t)
      PROVE  rows[i].verdict = log'[t][Cardinality(RowsOf(t) \cap 1 .. i)]
  <2>1. PICK k \in 1 .. Written(t) : k = Cardinality(RowsOf(t) \cap 1 .. i)
    BY RankIs
  <2>2. k \in 1 .. Len(log[t])
    BY <1>2
  <2> QED  BY <1>3, <2>1, <2>2 DEF ToldInvOf
<1>5. Written(t)' <= Len(log'[t])
  BY <1>1, <1>2, <1>3
<1> QED  BY <1>1, <1>3, <1>4, <1>5 DEF ToldInvOf

(* A row is appended: its target has one more, the others as many.         *)
LEMMA RowsAppended ==
  ASSUME TypeOK, NEW r \in Row, rows' = Append(rows, r), NEW t
  PROVE  /\ r.target = t => /\ RowsOf(t)' = RowsOf(t) \cup {Len(rows) + 1}
                            /\ Written(t)' = Written(t) + 1
         /\ r.target # t => RowsOf(t)' = RowsOf(t)
         /\ rows'[Len(rows) + 1] = r
         /\ \A i \in RowsOf(t) : rows'[i] = rows[i] /\ i \in 1 .. Len(rows)
<1> DEFINE n == Len(rows) + 1
<1>1. rows \in Seq(Row)
  BY DEF TypeOK
<1>2. /\ rows'[n] = r /\ \A i \in 1 .. Len(rows) : rows'[i] = rows[i]
      /\ DOMAIN rows' = (1 .. Len(rows)) \cup {n} /\ DOMAIN rows = 1 .. Len(rows)
      /\ n \notin 1 .. Len(rows)
  BY <1>1
<1>3. ASSUME r.target = t  PROVE RowsOf(t)' = RowsOf(t) \cup {n}
  BY <1>2, <1>3 DEF RowsOf
<1>4. ASSUME r.target # t  PROVE RowsOf(t)' = RowsOf(t)
  BY <1>2, <1>4 DEF RowsOf
<1>5. n \notin RowsOf(t)
  BY <1>2 DEF RowsOf
<1>6. Cardinality(RowsOf(t) \cup {n}) = Written(t) + 1
  BY <1>5, RowsAreFinite, FS_AddElement DEF Written
<1>7. r.target = t => Written(t)' = Written(t) + 1
  BY <1>3, <1>6 DEF Written
<1> QED  BY <1>2, <1>3, <1>4, <1>7, RowsAreFinite

LEMMA ToldOfOthers ==
  ASSUME TypeOK, NEW r \in Row, rows' = Append(rows, r), NEW t, r.target # t,
         ToldInvOf(t), log'[t] = log[t]
  PROVE  ToldInvOf(t)' /\ Written(t)' = Written(t)
<1>1. RowsOf(t)' = RowsOf(t) /\ Written(t)' = Written(t)
  BY RowsAppended DEF Written
<1>2. \A i \in RowsOf(t) : rows'[i] = rows[i]
  BY RowsAppended
<1> QED  BY <1>1, <1>2 DEF ToldInvOf

LEMMA ToldPrinted ==
  ASSUME TypeOK, NEW t \in Targets, ToldInvOf(t), log' = log,
         Written(t) + 1 = Len(log[t]), NEW r \in Row, r.target = t,
         r.verdict = log[t][Len(log[t])], rows' = Append(rows, r)
  PROVE  ToldInvOf(t)' /\ Written(t)' = Len(log[t])
<1> DEFINE n == Len(rows) + 1
<1>1. /\ RowsOf(t)' = RowsOf(t) \cup {n} /\ Written(t)' = Len(log[t]) /\ rows'[n] = r
      /\ \A i \in RowsOf(t) : rows'[i] = rows[i] /\ i \in 1 .. Len(rows)
  BY RowsAppended
<1>2. RowsOf(t) \subseteq 1 .. Len(rows) /\ Len(rows) \in Nat /\ Len(log[t]) \in Nat
  BY RowsAreFinite, LogLength
<1>3. RowsOf(t)' \cap 1 .. n = RowsOf(t)'
  <2>1. RowsOf(t)' \subseteq 1 .. n
    BY <1>1, <1>2
  <2> QED  BY <2>1
<1>4. \A i \in RowsOf(t) : RowsOf(t)' \cap 1 .. i = RowsOf(t) \cap 1 .. i
  BY <1>1, <1>2
<1>5. rows'[n].verdict = log[t][Cardinality(RowsOf(t)' \cap 1 .. n)]
  <2>1. Cardinality(RowsOf(t)' \cap 1 .. n) = Len(log[t])
    BY <1>1, <1>3 DEF Written
  <2> QED  BY <1>1, <2>1
<1>6. ASSUME NEW i \in RowsOf(t)
      PROVE  rows'[i].verdict = log[t][Cardinality(RowsOf(t)' \cap 1 .. i)]
  BY <1>1, <1>4, <1>6 DEF ToldInvOf
<1>7. \A i \in RowsOf(t)' :
        rows'[i].verdict = log[t][Cardinality(RowsOf(t)' \cap 1 .. i)]
  BY <1>1, <1>5, <1>6
<1>8. Written(t)' <= Len(log'[t])
  BY <1>1, <1>2
<1> QED  BY <1>1, <1>7, <1>8 DEF ToldInvOf

(* A target's own step.                                                    *)
LEMMA TargetWrites ==
  ASSUME IInv, OpenInv, Writes, NEW t \in Active, Prober(t), ToldInvOf(t), PlaceInvOf(t)
  PROVE  ToldInvOf(t)' /\ PlaceInvOf(t)'
<1>1. TypeOK /\ t \in Targets
  BY OptsIs DEF IInv
<1>2. Running /\ wpc[t] # "done" /\ mpc = <<"wait">> /\ open
  BY <1>1 DEF Prober, Probe, PrintProbe, Continue, Interrupted, IInv, DoneInv, OpenInv
<1>3. wpc \in [Targets -> {"probe", "print", "next", "done"}] /\ Written(t) \in Nat
      /\ Len(log[t]) \in Nat
  BY <1>1, RowsAreFinite, LogLength DEF TypeOK
<1>4. opts' = opts
  BY DEF Prober, Probe, PrintProbe, Continue, Interrupted
<1>5. CASE Probe(t)
  <2>1. PICK v \in {"ok", "fail"} : log' = [log EXCEPT ![t] = Append(@, v)]
    BY <1>5 DEF Probe
  <2>2. log'[t] = Append(log[t], v) /\ rows' = rows
    BY <1>1, <1>5, <2>1 DEF Probe, disk, TypeOK
  <2>3. wpc[t] = "probe" /\ wpc'[t] = "print"
    BY <1>1, <1>3, <1>5 DEF Probe, Goto
  <2>4. ToldInvOf(t)' /\ Written(t)' = Written(t) /\ Len(log'[t]) = Len(log[t]) + 1
    BY <1>1, <2>2, ToldProbed
  <2>5. Written(t) = Len(log[t])
    BY <2>3 DEF PlaceInvOf
  <2> QED  BY <2>3, <2>4, <2>5 DEF PlaceInvOf
<1>6. CASE PrintProbe(t)
  <2>1. wpc[t] = "print" /\ log' = log /\ streak' = streak
        /\ wpc'[t] = IF GivesUp(t) THEN "done" ELSE "next"
    BY <1>1, <1>3, <1>6 DEF PrintProbe, Goto, counters
  <2>2. GivesUp(t)' = GivesUp(t) /\ Unwritten(t)' = Unwritten(t)
    BY <1>4, <2>1 DEF GivesUp, Unwritten, Single
  <2>3. Written(t) + 1 = Len(log[t])
    BY <2>1 DEF PlaceInvOf
  <2>4. CASE Single \/ ~GivesUp(t)
    <3> DEFINE r == [target |-> t, verdict |-> log[t][Len(log[t])]]
    <3>1. rows' = Append(rows, r)
      BY <1>2, <1>6, <2>4 DEF PrintProbe
    <3>2. r \in Row
      <4>1. Len(log[t]) \in 1 .. Len(log[t])
        BY <1>3, <2>3
      <4>2. log[t][Len(log[t])] \in {"ok", "fail"}
        BY <1>1, <4>1, LogLength
      <4> QED  BY <1>1, <4>2 DEF Row
    <3>3. ToldInvOf(t)' /\ Written(t)' = Len(log[t])
      BY <1>1, <2>1, <2>3, <3>1, <3>2, ToldPrinted
    <3>4. Unwritten(t) = 0
      BY <2>4 DEF Unwritten
    <3> QED  BY <1>3, <2>1, <2>2, <3>3, <3>4 DEF PlaceInvOf
  <2>5. CASE ~Single /\ GivesUp(t)
    <3>1. rows' = rows /\ wpc'[t] = "done" /\ Unwritten(t) = 1
      BY <1>6, <2>1, <2>5 DEF PrintProbe, Unwritten
    <3>2. ToldInvOf(t)' /\ Written(t)' = Written(t)
      BY <2>1, <3>1, ToldSame
    <3> QED  BY <2>1, <2>2, <2>3, <3>1, <3>2 DEF PlaceInvOf
  <2> QED  BY <2>4, <2>5
<1>7. CASE Continue(t) \/ Interrupted(t)
  <2>1. wpc[t] \in {"probe", "next"} /\ wpc'[t] \in {"probe", "done"}
        /\ log' = log /\ streak' = streak /\ rows' = rows
    BY <1>1, <1>3, <1>7 DEF Continue, Interrupted, Goto, counters, disk
  <2>2. GivesUp(t)' = GivesUp(t) /\ Unwritten(t)' = Unwritten(t)
    BY <1>4, <2>1 DEF GivesUp, Unwritten, Single
  <2>3. ToldInvOf(t)' /\ Written(t)' = Written(t)
    BY <2>1, ToldSame
  <2>4. Written(t) = Len(log[t]) /\ ~GivesUp(t) /\ Unwritten(t) = 0
    BY <2>1 DEF PlaceInvOf, Unwritten
  <2> QED  BY <1>3, <2>1, <2>2, <2>3, <2>4 DEF PlaceInvOf
<1> QED  BY <1>5, <1>6, <1>7 DEF Prober

LEMMA RowsStep ==
  ASSUME IInv, OpenInv, RowsInv, [Next]_vars
  PROVE  RowsInv'
<1>1. opts' = opts /\ (Writes' <=> Writes) /\ Active' = Active
  <2>1. opts' = opts
    BY DEF Next, Cancel, Prober, Probe, PrintProbe, Continue, Interrupted, Enter,
           EnterPrints, Main, Wait, FinalStatistics, Exit, Done, Return, Gone, vars
  <2> QED  BY <2>1 DEF Writes, Single, Active
<1>2. SUFFICES ASSUME Writes  PROVE \A t \in Active : ToldInvOf(t)' /\ PlaceInvOf(t)'
  BY <1>1 DEF RowsInv
<1>3. TypeOK /\ \A t \in Active : t \in Targets /\ ToldInvOf(t) /\ PlaceInvOf(t)
  BY <1>2, OptsIs DEF RowsInv, IInv
<1>4. CASE UNCHANGED <<rows, log, streak, wpc>>
  BY <1>1, <1>3, <1>4, ToldSame, PlaceSame
<1>5. ASSUME NEW t \in Targets, Prober(t)
      PROVE  \A u \in Active : ToldInvOf(u)' /\ PlaceInvOf(u)'
  <2>1. t \in Active
    BY <1>5 DEF IInv, CountsInv, Prober, Probe, PrintProbe, Continue, Interrupted
  <2>2. ASSUME NEW u \in Active, u # t
        PROVE  ToldInvOf(u)' /\ PlaceInvOf(u)'
    <3>1. wpc'[u] = wpc[u] /\ log'[u] = log[u] /\ streak'[u] = streak[u]
      <4>1. wpc'[u] = wpc[u]
        BY <1>3, <1>5, <2>2 DEF Prober, Probe, PrintProbe, Continue, Interrupted, Goto, TypeOK
      <4>2. log'[u] = log[u] /\ streak'[u] = streak[u]
        BY <1>3, <1>5, <2>2 DEF Prober, Probe, PrintProbe, Continue, Interrupted, counters,
                                TypeOK
      <4> QED  BY <4>1, <4>2
    <3>2. ToldInvOf(u)' /\ Written(u)' = Written(u)
      <4>1. CASE rows' = rows
        BY <1>3, <3>1, <4>1, ToldSame
      <4>2. CASE rows' # rows
        <5>1. PrintProbe(t)
          BY <1>5, <4>2 DEF Prober, Probe, Continue, Interrupted, disk
        <5>2. rows' = Append(rows, [target |-> t, verdict |-> log[t][Len(log[t])]])
              /\ wpc[t] = "print"
          BY <4>2, <5>1 DEF PrintProbe
        <5>3. [target |-> t, verdict |-> log[t][Len(log[t])]] \in Row
          <6>1. Len(log[t]) > 0
            BY <1>5, <5>2 DEF IInv, CountsInv
          <6>2. Len(log[t]) \in 1 .. Len(log[t])
            BY <1>3, <1>5, <6>1, LogLength
          <6>3. log[t][Len(log[t])] \in {"ok", "fail"}
            BY <1>3, <1>5, <6>2, LogLength
          <6> QED  BY <1>5, <6>3 DEF Row
        <5> QED  BY <1>3, <2>2, <3>1, <5>2, <5>3, ToldOfOthers
      <4> QED  BY <4>1, <4>2
    <3> QED  BY <1>1, <1>3, <3>1, <3>2, PlaceSame
  <2>3. ToldInvOf(t)' /\ PlaceInvOf(t)'
    BY <1>2, <1>3, <1>5, <2>1, TargetWrites
  <2> QED  BY <2>2, <2>3
<1>6. CASE Cancel \/ Enter \/ EnterPrints \/ Main \/ Gone \/ UNCHANGED vars
  <2>1. UNCHANGED <<rows, log, streak, wpc>>
    BY <1>6 DEF Cancel, Enter, EnterPrints, Main, Wait, FinalStatistics, Exit, Done, Return,
                Gone, vars, disk, counters
  <2> QED  BY <1>4, <2>1
<1> QED  BY <1>5, <1>6 DEF Next

LEMMA OpenStep ==
  ASSUME IInv, OpenInv, [Next]_vars
  PROVE  OpenInv'
<1>1. CASE UNCHANGED <<open, mpc, status>>
  BY <1>1 DEF OpenInv, Running
<1>2. ASSUME NEW t \in Targets, Prober(t)
      PROVE  OpenInv'
  BY <1>1, <1>2 DEF Prober, Probe, PrintProbe, Continue, Interrupted, disk
<1>3. CASE Cancel \/ Enter \/ Gone \/ UNCHANGED vars
  BY <1>1, <1>3 DEF Cancel, Enter, Gone, vars, disk
<1>4. CASE EnterPrints
  BY <1>4 DEF EnterPrints, PrintStatistics, CSVStatistics, SQLiteStatistics, OpenInv, Running
<1>5. CASE Main
  BY <1>5 DEF Main, Wait, FinalStatistics, Exit, Done, Return, OpenInv, Running, Stats, disk
<1> QED  BY <1>2, <1>3, <1>4, <1>5 DEF Next
-----------------------------------------------------------------------------
(* What main has told the printer of the totals, which nobody changes any  *)
(* more, and where they are.                                               *)
In(blocks, b) == \E i \in DOMAIN blocks : blocks[i] = b

Told(t) ==
  \/ mpc \in {<<"exit">>, <<"defer">>, <<"return">>, <<"gone">>}
  \/ \E u \in Targets : t < u /\ mpc = Stats(u)

BlocksInvOf(t) ==
  /\ opts.printer = "sqlite" /\ Told(t) => In(saved, BlockOf(t))
  /\ opts.printer = "csv" =>
       /\ Told(t) /\ mpc \notin {<<"return">>, <<"gone">>} => In(buffered, BlockOf(t))
       /\ mpc = <<"return">> \/ status = "success" => In(saved, BlockOf(t))

BlocksInv == Writes => \A t \in Active : BlocksInvOf(t)

LEMMA InAppend ==
  ASSUME NEW bs \in Seq(Block), NEW b \in Block
  PROVE  /\ In(Append(bs, b), b)
         /\ \A c : In(bs, c) => In(Append(bs, b), c)
<1>1. /\ DOMAIN Append(bs, b) = (DOMAIN bs) \cup {Len(bs) + 1}
      /\ Append(bs, b)[Len(bs) + 1] = b
      /\ \A i \in DOMAIN bs : Append(bs, b)[i] = bs[i]
  OBVIOUS
<1> QED  BY <1>1 DEF In

LEMMA InConcatenation ==
  ASSUME NEW bs \in Seq(Block), NEW cs \in Seq(Block)
  PROVE  \A c : In(bs, c) \/ In(cs, c) => In(bs \o cs, c)
<1>1. /\ Len(bs) \in Nat /\ Len(cs) \in Nat
      /\ DOMAIN bs = 1 .. Len(bs) /\ DOMAIN cs = 1 .. Len(cs)
      /\ DOMAIN (bs \o cs) = 1 .. Len(bs) + Len(cs)
  OBVIOUS
<1>2. \A i \in DOMAIN bs : i \in DOMAIN (bs \o cs) /\ (bs \o cs)[i] = bs[i]
  BY <1>1
<1>3. ASSUME NEW i \in DOMAIN cs
      PROVE  Len(bs) + i \in DOMAIN (bs \o cs) /\ (bs \o cs)[Len(bs) + i] = cs[i]
  BY <1>1
<1> QED  BY <1>2, <1>3 DEF In

LEMMA BlocksKept ==
  ASSUME NEW t, BlocksInvOf(t), UNCHANGED <<opts, mpc, counters>>,
         status' = "success" => status = "success",
         \A c : In(saved, c) => In(saved', c), \A c : In(buffered, c) => In(buffered', c)
  PROVE  BlocksInvOf(t)'
<1>1. BlockOf(t)' = BlockOf(t) /\ (Told(t)' <=> Told(t))
  BY DEF BlockOf, Told, counters
<1>2. \A b, c : In(b, c)' <=> In(b', c')
  BY DEF In
<1> QED  BY <1>1, <1>2 DEF BlocksInvOf, In

(* Printing the statistics keeps the blocks there are and adds one.        *)
LEMMA StatisticsAdds ==
  ASSUME TypeOK, NEW t \in Targets, PrintStatistics(t)
  PROVE  /\ \A c : In(saved, c) => In(saved', c)
         /\ \A c : In(buffered, c) => In(buffered', c)
         /\ opts.printer = "csv" => In(buffered', BlockOf(t))
         /\ opts.printer = "sqlite" /\ open => In(saved', BlockOf(t))
         /\ status' \in {status, "crashed"}
<1>1. BlockOf(t) \in Block /\ saved \in Seq(Block) /\ buffered \in Seq(Block)
  BY BlockIs DEF TypeOK
<1>2. CASE opts.printer = "csv"
  BY <1>1, <1>2, InAppend DEF PrintStatistics, CSVStatistics
<1>3. CASE opts.printer # "csv"
  BY <1>1, <1>3, InAppend DEF PrintStatistics, SQLiteStatistics
<1> QED  BY <1>2, <1>3

LEMMA MainBlocks ==
  ASSUME IInv, OpenInv, Writes, NEW t \in Active, BlocksInvOf(t), Main
  PROVE  BlocksInvOf(t)'
<1>1. TypeOK /\ t \in Targets /\ status = "running"
  BY OptsIs DEF IInv, Main, Wait, FinalStatistics, Exit, Done, Return, Running
<1>2. BlockOf(t)' = BlockOf(t) /\ opts' = opts
  BY DEF Main, Wait, FinalStatistics, Exit, Done, Return, BlockOf, counters
<1>3. CASE Wait
  <2>1. mpc' = Stats(1) /\ status' = status
    BY <1>3 DEF Wait
  <2>2. ~Told(t)' /\ mpc' # <<"return">> /\ status' # "success"
    <3>1. t >= 1 /\ t \in Nat
      BY <1>1, OptsIs
    <3>2. ~(t < 1)
      BY <3>1
    <3> QED  BY <1>1, <2>1, <3>2 DEF Told, Stats
  <2> QED  BY <2>2 DEF BlocksInvOf
<1>4. ASSUME NEW u \in Targets, FinalStatistics(u)
      PROVE  BlocksInvOf(t)'
  <2>1. /\ mpc = Stats(u) /\ PrintStatistics(u) /\ open
        /\ mpc' = IF u < opts.targets THEN Stats(u + 1) ELSE <<"exit">>
    BY <1>4 DEF FinalStatistics, OpenInv, Stats
  <2>2. /\ \A c : In(saved, c) => In(saved', c)
        /\ \A c : In(buffered, c) => In(buffered', c)
        /\ opts.printer = "csv" => In(buffered', BlockOf(u))
        /\ opts.printer = "sqlite" => In(saved', BlockOf(u))
        /\ status' # "success"
    BY <1>1, <2>1, StatisticsAdds
  <2>3. mpc' \notin {<<"return">>, <<"gone">>}
    BY <2>1 DEF Stats
  <2>4. Told(t)' => t = u \/ Told(t)
    <3>1. /\ u \in Nat /\ t \in Nat /\ opts.targets \in Nat /\ t <= opts.targets
          /\ \A v \in Targets : v \in Nat
      BY <1>1, OptsIs
    <3>2. CASE u < opts.targets
      <4>1. mpc' = Stats(u + 1)
        BY <2>1, <3>2
      <4>2. Told(t)' => t < u + 1
        BY <4>1 DEF Told, Stats
      <4>3. t < u => Told(t)
        BY <2>1 DEF Told
      <4> QED  BY <3>1, <4>2, <4>3
    <3>3. CASE ~(u < opts.targets)
      <4>1. t = u \/ t < u
        BY <3>1, <3>3
      <4>2. t < u => Told(t)
        BY <2>1 DEF Told
      <4> QED  BY <4>1, <4>2
    <3> QED  BY <3>2, <3>3
  <2>5. Told(t)' => /\ opts.printer = "csv" => In(buffered', BlockOf(t))
                    /\ opts.printer = "sqlite" => In(saved', BlockOf(t))
    <3>1. Told(t) => mpc \notin {<<"return">>, <<"gone">>}
      BY <2>1 DEF Stats
    <3> QED  BY <2>2, <2>4, <3>1 DEF BlocksInvOf
  <2> QED  BY <1>2, <2>2, <2>3, <2>5 DEF BlocksInvOf, In
<1>5. CASE Exit
  <2>1. /\ mpc = <<"exit">> /\ UNCHANGED disk
        /\ IF ExitCode = "success" THEN mpc' = <<"defer">> /\ status' = status
           ELSE mpc' = <<"gone">> /\ status' = ExitCode
    BY <1>5 DEF Exit
  <2>2. Told(t) /\ mpc \notin {<<"return">>, <<"gone">>}
    BY <2>1 DEF Told
  <2>3. status' # "success" /\ mpc' # <<"return">>
    BY <1>1, <2>1
  <2> QED  BY <1>2, <2>1, <2>2, <2>3 DEF BlocksInvOf, In, disk
<1>6. CASE Done
  <2>1. /\ mpc = <<"defer">> /\ mpc' = <<"return">> /\ saved' = saved \o buffered
        /\ status' = status
    BY <1>6 DEF Done
  <2>2. saved \in Seq(Block) /\ buffered \in Seq(Block)
    BY <1>1 DEF TypeOK
  <2>3. \A c : In(saved, c) \/ In(buffered, c) => In(saved', c)
    BY <2>1, <2>2, InConcatenation
  <2>4. Told(t) /\ mpc \notin {<<"return">>, <<"gone">>}
    BY <2>1 DEF Told
  <2>5. \/ opts.printer = "csv" \/ opts.printer = "sqlite"
    BY <1>1, OutputsAssumption DEF TypeOK, Option
  <2>6. In(saved', BlockOf(t))
    BY <2>3, <2>4, <2>5 DEF BlocksInvOf
  <2> QED  BY <1>2, <2>1, <2>6 DEF BlocksInvOf, In
<1>7. CASE Return
  <2>1. mpc = <<"return">> /\ mpc' = <<"gone">> /\ UNCHANGED disk
    BY <1>7 DEF Return
  <2>2. Told(t)
    BY <2>1 DEF Told
  <2> QED  BY <1>2, <2>1, <2>2 DEF BlocksInvOf, In, disk
<1> QED  BY <1>3, <1>4, <1>5, <1>6, <1>7 DEF Main

LEMMA BlocksStep ==
  ASSUME IInv, OpenInv, BlocksInv, [Next]_vars
  PROVE  BlocksInv'
<1>1. opts' = opts /\ (Writes' <=> Writes) /\ Active' = Active
  <2>1. opts' = opts
    BY DEF Next, Cancel, Prober, Probe, PrintProbe, Continue, Interrupted, Enter,
           EnterPrints, Main, Wait, FinalStatistics, Exit, Done, Return, Gone, vars
  <2> QED  BY <2>1 DEF Writes, Single, Active
<1>2. SUFFICES ASSUME Writes, NEW t \in Active  PROVE BlocksInvOf(t)'
  BY <1>1 DEF BlocksInv
<1>3. TypeOK /\ t \in Targets /\ BlocksInvOf(t)
  BY <1>2, OptsIs DEF BlocksInv, IInv
<1>4. ASSUME NEW u \in Targets, Prober(u)
      PROVE  BlocksInvOf(t)'
  <2>1. mpc' = <<"wait">> /\ status' = "running"
    BY <1>4 DEF Prober, Probe, PrintProbe, Continue, Interrupted, IInv, DoneInv, Running
  <2> QED  BY <2>1 DEF BlocksInvOf, Told, Stats
<1>5. CASE EnterPrints
  <2>1. /\ \A c : In(saved, c) => In(saved', c)
        /\ \A c : In(buffered, c) => In(buffered', c)
        /\ status' \in {status, "crashed"}
    BY <1>3, <1>5, OptsIs, StatisticsAdds DEF EnterPrints
  <2> QED  BY <1>3, <1>5, <2>1, BlocksKept DEF EnterPrints
<1>6. CASE Cancel \/ Enter \/ Gone \/ UNCHANGED vars
  <2>1. UNCHANGED <<opts, mpc, counters, status, saved, buffered>>
    BY <1>6 DEF Cancel, Enter, Gone, vars, disk
  <2> QED  BY <1>3, <2>1, BlocksKept
<1>7. CASE Main
  BY <1>2, <1>3, <1>7, MainBlocks
<1> QED  BY <1>4, <1>5, <1>6, <1>7 DEF Next

LEMMA InitSaves == Init => OpenInv /\ RowsInv /\ BlocksInv
<1> SUFFICES ASSUME Init  PROVE OpenInv /\ RowsInv /\ BlocksInv
  OBVIOUS
<1>1. TypeOK
  BY InitIInv DEF IInv
<1>2. OpenInv
  BY DEF Init, OpenInv, Running
<1>3. RowsInv
  <2> SUFFICES ASSUME NEW t \in Active  PROVE ToldInvOf(t) /\ PlaceInvOf(t)
    BY DEF RowsInv
  <2>1. t \in Targets /\ wpc[t] = "probe" /\ Len(log[t]) = 0 /\ streak[t] = 0
    BY <1>1, OptsIs DEF Init, Active
  <2>2. RowsOf(t) = {} /\ Written(t) = 0
    BY FS_EmptySet DEF Init, RowsOf, Written
  <2>3. ~GivesUp(t)
    BY <1>1, <2>1, OptsIs DEF GivesUp
  <2> QED  BY <2>1, <2>2, <2>3 DEF ToldInvOf, PlaceInvOf
<1>4. BlocksInv
  BY DEF Init, BlocksInv, BlocksInvOf, Told, Stats
<1> QED  BY <1>2, <1>3, <1>4

(* What a run leaves on the disk has every probe of every target, once and *)
(* in order, and its totals, on every way out of the process and whatever  *)
(* Enter printed before or in between (PrintProbeSuccess, PrintStatistics, *)
(* Done).                                                                  *)
THEOREM SavingCorrect == Spec => []RunIsSaved
<1> DEFINE Saves == OpenInv /\ RowsInv /\ BlocksInv
<1>1. IInv /\ Saves /\ [Next]_vars => Saves'
  BY OpenStep, RowsStep, BlocksStep
<1>2. IInv /\ Saves => RunIsSaved
  <2> SUFFICES ASSUME IInv, Saves  PROVE RunIsSaved
    OBVIOUS
  <2>1. ProbesSaved
    <3> SUFFICES ASSUME ~Running, Writes, NEW t \in Active
                 PROVE  Written(t) + Unwritten(t) = Len(log[t]) /\ ToldInvOf(t)
      BY DEF ProbesSaved, ToldInvOf, Written
    <3>1. t \in Targets /\ mpc # <<"wait">>
      BY OptsIs DEF IInv, OpenInv
    <3>2. wpc[t] = "done"
      BY <3>1 DEF IInv, DoneInv
    <3> QED  BY <3>2 DEF RowsInv, PlaceInvOf
  <2>2. TotalsSaved
    <3> SUFFICES ASSUME Writes, status \in Codes, NEW t \in Active,
                        status = "success" \/ opts.printer = "sqlite"
                 PROVE  In(saved, BlockOf(t))
      BY DEF TotalsSaved, IsFinal, In, Codes
    <3>1. mpc = <<"gone">>
      BY DEF IInv, ExitInv
    <3>2. Told(t)
      BY <3>1 DEF Told
    <3>3. opts.printer = "csv" \/ opts.printer = "sqlite"
      BY OutputsAssumption DEF IInv, TypeOK, Option
    <3> QED  BY <3>2, <3>3 DEF BlocksInv, BlocksInvOf
  <2> QED  BY <2>1, <2>2 DEF RunIsSaved
<1> QED  BY SpecIInv, InitSaves, <1>1, <1>2, PTL DEF Spec
=============================================================================
