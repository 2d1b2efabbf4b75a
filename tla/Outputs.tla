------------------------------- MODULE Outputs -------------------------------
(***************************************************************************)
(* What a run of netping leaves behind: the probe and statistics files of  *)
(* CSVPrinter (internal/printers/csv.go), the tables of DatabasePrinter    *)
(* (sqlite3.go), and the exit code (cmd/netping.go).                       *)
(*                                                                         *)
(* One printer is shared by the goroutines that probe, the one that waits  *)
(* for the Enter key (monitorSummaryRequest) and main, which ends the      *)
(* process on one of two ways: os.Exit, or a return that runs the deferred *)
(* calls.  Every method of a printer holds the printer's mutex throughout  *)
(* and is one action.  How a probe comes to its verdict is the subject of  *)
(* Prober and MultiProber.                                                 *)
(***************************************************************************)
EXTENDS Naturals, Sequences, FiniteSets

CONSTANTS
  Options,          \* the ways netping may be started
  MaxTargets,       \* bound: how many targets it is started with at most
  MaxProbes,        \* bound: how many probes a target gets at most
  MaxEnter          \* bound: how often Enter is pressed at most

(* printer: CSV and TSV differ in the separator only.  targets: with more  *)
(* than one netping runs a MultiProber.  maxFails: give up after so many   *)
(* failures in a row, 0 for never.                                         *)
Targets == 1..MaxTargets
Option == [printer : {"csv", "sqlite"}, dashboard : BOOLEAN, targets : Targets,
           maxFails : Nat]

ASSUME OutputsAssumption ==
  /\ MaxTargets \in Nat /\ Options \subseteq Option
  /\ MaxProbes \in Nat
  /\ MaxEnter \in Nat

VARIABLES
  opts,             \* how this run was started
  cancelled,        \* probeCtx is done
  wpc,              \* control state of each target's probing
  log,              \* history variable: the verdicts of each target
  ok, bad, streak,  \* the counters of each Statistics
  rows,             \* the probes in the file or table, oldest first
  buffered,         \* blocks of statistics in StatsWriter
  saved,            \* blocks of statistics in the file or table
  open,             \* the files are open, Conn is not nil
  mpc,              \* control state of main
  epc,              \* control state of monitorSummaryRequest
  enters,           \* how often Enter was pressed
  status            \* "running", "crashed", or the exit code

counters == <<ok, bad, streak>>
disk == <<rows, buffered, saved, open>>
vars == <<opts, cancelled, wpc, log, counters, disk, mpc, epc, enters, status>>

Active == 1 .. opts.targets
Single == opts.targets = 1

(* In the single-target mode the dashboard takes the printer's place.      *)
Writes == ~(Single /\ opts.dashboard)

(* What is written for a probe, and what a block of statistics says.       *)
Row == [target : Targets, verdict : {"ok", "fail"}]
Block == [target : Targets, ok : Nat, bad : Nat]
BlockOf(t) == [target |-> t, ok |-> ok[t], bad |-> bad[t]]

Init ==
  /\ opts \in Options
  /\ cancelled = FALSE
  /\ wpc = [t \in Targets |-> IF t <= opts.targets THEN "probe" ELSE "done"]
  /\ log = [t \in Targets |-> <<>>]
  /\ ok = [t \in Targets |-> 0]
  /\ bad = [t \in Targets |-> 0]
  /\ streak = [t \in Targets |-> 0]
  /\ rows = <<>>
  /\ buffered = <<>>
  /\ saved = <<>>
  /\ open = TRUE
  /\ mpc = <<"wait">>
  /\ epc = "idle"
  /\ enters = 0
  /\ status = "running"

Running == status = "running"
Goto(t, label) == wpc' = [wpc EXCEPT ![t] = label]

(* SIGINT, SIGTERM, or the dashboard was left.                             *)
Cancel ==
  /\ Running
  /\ ~cancelled
  /\ cancelled' = TRUE
  /\ UNCHANGED <<opts, wpc, log, counters, disk, mpc, epc, enters, status>>
-----------------------------------------------------------------------------
(* A probe and RecordSuccess or RecordFailure.                             *)
Probe(t) ==
  /\ Running /\ wpc[t] = "probe" /\ Len(log[t]) < MaxProbes
  /\ \E v \in {"ok", "fail"} :
       /\ log' = [log EXCEPT ![t] = Append(@, v)]
       /\ ok' = [ok EXCEPT ![t] = IF v = "ok" THEN @ + 1 ELSE @]
       /\ bad' = [bad EXCEPT ![t] = IF v = "ok" THEN @ ELSE @ + 1]
       /\ streak' = [streak EXCEPT ![t] = IF v = "ok" THEN 0 ELSE @ + 1]
  /\ Goto(t, "print")
  /\ UNCHANGED <<opts, cancelled, disk, mpc, epc, enters, status>>

GivesUp(t) == opts.maxFails > 0 /\ streak[t] >= opts.maxFails

(* PrintProbeSuccess and PrintProbeFailure write one row and flush it.  In *)
(* the multi-target mode they are called by onMultiProbe, after the test   *)
(* for the end, and in the single-target mode before it.                   *)
PrintProbe(t) ==
  /\ Running /\ wpc[t] = "print"
  /\ rows' = IF Writes /\ open /\ (Single \/ ~GivesUp(t))
             THEN Append(rows, [target |-> t, verdict |-> log[t][Len(log[t])]])
             ELSE rows
  /\ Goto(t, IF GivesUp(t) THEN "done" ELSE "next")
  /\ UNCHANGED <<opts, cancelled, log, counters, buffered, saved, open, mpc, epc,
                 enters, status>>

(* --count is reached, the context is done, or the next probe is due.      *)
Continue(t) ==
  /\ Running /\ wpc[t] = "next"
  /\ \/ Goto(t, "probe")
     \/ (cancelled \/ Len(log[t]) = MaxProbes) /\ Goto(t, "done")
  /\ UNCHANGED <<opts, cancelled, log, counters, disk, mpc, epc, enters, status>>

(* The interrupt came before the first probe.                              *)
Interrupted(t) ==
  /\ Running /\ wpc[t] = "probe" /\ cancelled
  /\ Goto(t, "done")
  /\ UNCHANGED <<opts, cancelled, log, counters, disk, mpc, epc, enters, status>>

Prober(t) == Probe(t) \/ PrintProbe(t) \/ Continue(t) \/ Interrupted(t)
-----------------------------------------------------------------------------
(* CSVPrinter writes the block to a buffer that only Done flushes, and     *)
(* then asks StatsFile, nil once Done was called, for its name.  Enter is  *)
(* not pressed often enough to fill the 4096 bytes of the buffer.          *)
CSVStatistics(t) ==
  /\ buffered' = Append(buffered, BlockOf(t))
  /\ status' = IF open THEN status ELSE "crashed"
  /\ UNCHANGED saved

(* Mutant of SQLiteStatistics: the block replaces the one before.          *)
SQLiteStatisticsOnce(t) ==
  /\ saved' = IF open THEN <<BlockOf(t)>> ELSE saved
  /\ UNCHANGED <<buffered, status>>

(* DatabasePrinter inserts the block at once, unless it is closed.         *)
SQLiteStatistics(t) ==
  /\ saved' = IF open THEN Append(saved, BlockOf(t)) ELSE saved
  /\ UNCHANGED <<buffered, status>>

PrintStatistics(t) ==
  IF opts.printer = "csv" THEN CSVStatistics(t) ELSE SQLiteStatistics(t)

(* monitorSummaryRequest: Enter is pressed; no test of the context lies    *)
(* between the line that was read and the statistics.                      *)
Enter ==
  /\ Running /\ epc = "idle" /\ Single /\ ~opts.dashboard /\ enters < MaxEnter
  /\ epc' = "print"
  /\ enters' = enters + 1
  /\ UNCHANGED <<opts, cancelled, wpc, log, counters, disk, mpc, status>>

EnterPrints ==
  /\ Running /\ epc = "print"
  /\ PrintStatistics(1)
  /\ epc' = "idle"
  /\ UNCHANGED <<opts, cancelled, wpc, log, counters, rows, open, mpc, enters>>
-----------------------------------------------------------------------------
Stats(t) == <<"stats", t>>

(* Probe or MultiProber.Run returns.                                       *)
Wait ==
  /\ Running /\ mpc = <<"wait">> /\ \A t \in Targets : wpc[t] = "done"
  /\ mpc' = IF Writes THEN Stats(1) ELSE <<"exit">>
  /\ UNCHANGED <<opts, cancelled, wpc, log, counters, disk, epc, enters, status>>

(* main prints the statistics, in multi-target mode target by target; the  *)
(* dashboard prints them to the terminal and leaves the printer alone.     *)
FinalStatistics(t) ==
  /\ Running /\ mpc = Stats(t)
  /\ PrintStatistics(t)
  /\ mpc' = IF t < opts.targets THEN Stats(t + 1) ELSE <<"exit">>
  /\ UNCHANGED <<opts, cancelled, wpc, log, counters, rows, open, epc, enters>>

(* main adds the counters up and compares the sum with 0.                  *)
Some(counter) == \E t \in Active : counter[t] > 0

(* Mutant of ExitCode: the counters are compared the wrong way round.      *)
ExitCodeSwapped ==
  IF cancelled THEN "interrupted"
  ELSE IF Some(bad) THEN "partial loss"
  ELSE IF ~Some(ok) /\ Some(bad) THEN "unreachable"
  ELSE "success"

ExitCode ==
  IF cancelled THEN "interrupted"
  ELSE IF ~Some(ok) /\ Some(bad) THEN "unreachable"
  ELSE IF Some(bad) THEN "partial loss"
  ELSE "success"

(* os.Exit ends the process at once; success returns from main.            *)
Exit ==
  /\ Running /\ mpc = <<"exit">>
  /\ IF ExitCode = "success" THEN mpc' = <<"defer">> /\ UNCHANGED status
     ELSE mpc' = <<"gone">> /\ status' = ExitCode
  /\ UNCHANGED <<opts, cancelled, wpc, log, counters, disk, epc, enters>>

(* The deferred calls: cancel, and the printer's Done, which flushes and   *)
(* closes.                                                                 *)
Done ==
  /\ Running /\ mpc = <<"defer">>
  /\ saved' = saved \o buffered
  /\ buffered' = <<>>
  /\ open' = FALSE
  /\ mpc' = <<"return">>
  /\ UNCHANGED <<opts, cancelled, wpc, log, counters, rows, epc, enters, status>>

Return ==
  /\ Running /\ mpc = <<"return">>
  /\ mpc' = <<"gone">>
  /\ status' = "success"
  /\ UNCHANGED <<opts, cancelled, wpc, log, counters, disk, epc, enters>>

Main == Wait \/ (\E t \in Targets : FinalStatistics(t)) \/ Exit \/ Done \/ Return

Gone == ~Running /\ UNCHANGED vars

Next ==
  \/ Cancel
  \/ \E t \in Targets : Prober(t)
  \/ Enter \/ EnterPrints
  \/ Main
  \/ Gone

Spec == Init /\ [][Next]_vars
-----------------------------------------------------------------------------
Codes == {"success", "unreachable", "partial loss", "interrupted"}

TypeOK ==
  /\ opts \in Options
  /\ cancelled \in BOOLEAN
  /\ wpc \in [Targets -> {"probe", "print", "next", "done"}]
  /\ log \in [Targets -> Seq({"ok", "fail"})]
  /\ ok \in [Targets -> Nat]
  /\ bad \in [Targets -> Nat]
  /\ streak \in [Targets -> Nat]
  /\ rows \in Seq(Row)
  /\ buffered \in Seq(Block)
  /\ saved \in Seq(Block)
  /\ open \in BOOLEAN
  /\ mpc \in {<<l>> : l \in {"wait", "exit", "defer", "return", "gone"}}
             \cup {Stats(t) : t \in Targets}
  /\ epc \in {"idle", "print"}
  /\ enters \in 0..MaxEnter
  /\ status \in Codes \cup {"running", "crashed"}

RowsOf(t) == {i \in DOMAIN rows : rows[i].target = t}

(* A MultiProber does not publish the probe by which it gives a target up. *)
Unwritten(t) == IF ~Single /\ GivesUp(t) THEN 1 ELSE 0

(* However the process ends, the probes of every target are saved, each    *)
(* once and in order (README.md:53), except the one by which a MultiProber *)
(* gave a target up.                                                       *)
ProbesSaved ==
  ~Running /\ Writes => \A t \in Active :
    /\ Cardinality(RowsOf(t)) + Unwritten(t) = Len(log[t])
    /\ \A i \in RowsOf(t) :
         rows[i].verdict = log[t][Cardinality(RowsOf(t) \cap 1 .. i)]

IsFinal(t) == \E i \in DOMAIN saved : saved[i] = BlockOf(t)

(* The totals of every target reach the table of SQLite however the        *)
(* process ends, and the CSV file when netping succeeds, whatever Enter    *)
(* printed before or in between (PrintStatistics, Done).                   *)
TotalsSaved ==
  Writes /\ (status = "success" \/ (status \in Codes /\ opts.printer = "sqlite"))
    => \A t \in Active : IsFinal(t)

(* What reaches the disk of a run: its probes and its totals.              *)
RunIsSaved == ProbesSaved /\ TotalsSaved

(* README.md:54, pkg/consts/consts.go: the exit code tells what became of  *)
(* the probes of all targets: 5 none answered, 6 some did not, 0 all did   *)
(* and nobody interrupted.                                                 *)
Lost(t) == {i \in DOMAIN log[t] : log[t][i] = "fail"}
ExitTellsOutcome ==
  status \in Codes =>
    /\ status = "success" => \A t \in Active : Lost(t) = {}
    /\ status = "unreachable" <=>
         ~cancelled /\ (\A t \in Active : Lost(t) = DOMAIN log[t])
                    /\ (\E t \in Active : Lost(t) # {})
    /\ status = "partial loss" =>
         \E t, u \in Active : Lost(t) # {} /\ Lost(u) # DOMAIN log[u]
=============================================================================
