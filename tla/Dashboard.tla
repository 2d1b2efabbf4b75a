------------------------------ MODULE Dashboard ------------------------------
(***************************************************************************)
(* The full-screen terminal dashboards (internal/printers/dashboard.go)    *)
(* and their exports (internal/printers/export.go), for one target         *)
(* (DashboardPrinter) and for a fleet (MultiDashboardPrinter).             *)
(*                                                                         *)
(* The screen is a Bubble Tea program: a goroutine whose event loop takes  *)
(* messages from an unbuffered channel and hands each to Update.  The      *)
(* goroutines that probe send it their probes while they hold the          *)
(* printer's mutex d.mu; main closes it at the end of the run; when it     *)
(* ends because of a key, the goroutine that ran it cancels the run.  An   *)
(* export runs beside the loop in a goroutine of its own, on copies that   *)
(* Update made, and is not waited for when the process ends.               *)
(***************************************************************************)
EXTENDS Naturals, Sequences, FiniteSets

CONSTANTS
  Options,          \* the ways the dashboard may be started
  Exports,          \* the exports that the user may confirm
  MaxProbes         \* bound: how many probes a target gets at most

Targets == {1, 2}

(* targets: a single target or a fleet.  quit: --count.  maxFails:         *)
(* --max-consecutive-fails.  0 turns the two off.                          *)
Option == [targets : {1, 2}, quit : Nat, maxFails : Nat]

ASSUME DashboardAssumption ==
  /\ Options \subseteq Option
  /\ MaxProbes \in [Targets -> Nat]

(* The holder of d.mu, when it is not a target's probing.                  *)
Free == 0
MainHolds == 3

(* Five of the six formats are written by a process of their own, SQLite   *)
(* by the goroutine of the export.                                         *)
Formats == {"text", "sqlite"}

Tally == [ok : Nat, fail : Nat]
Record == [target : Targets, verdict : {"ok", "fail"}]

VARIABLES
  opts,             \* how this run was started
  cancelled,        \* probeCtx is done
  wpc,              \* control state of each target's probing
  log,              \* history variable: the verdicts of each target
  stats,            \* the counters of each Statistics
  streak,           \* OngoingUnsuccessfulProbes of each Statistics
  mu,               \* who holds d.mu: nobody, main or a target's probing
  msg,              \* the message that each target's probing sends
  closed,           \* d.closed
  prog,             \* state of the Bubble Tea program
  quitMsg,          \* a QuitMsg is on its way to the event loop
  runner,           \* the goroutine of Run has yet to look at d.cancel
  modal,            \* modalState, or the format whose path is edited
  shown,            \* probeHistory, oldest first
  screen,           \* the clone of the statistics in the single model
  xpc,              \* control state of each export
  file,             \* what each export writes
  mpc               \* control state of main

probing == <<cancelled, wpc, log, stats, streak, msg>>
model == <<modal, shown, screen>>
program == <<prog, quitMsg, runner>>
exporting == <<xpc, file>>
vars == <<opts, cancelled, wpc, log, stats, streak, mu, msg, closed, prog,
          quitMsg, runner, modal, shown, screen, xpc, file, mpc>>

Active == 1 .. opts.targets
Single == opts.targets = 1

NoTally == [ok |-> 0, fail |-> 0]
NoFile == [format |-> "text", totals |-> <<>>, records |-> <<>>]

WPC == {"idle", "count", "lock", "send", "done"}
XPC == {"none", "snapshot", "write", "copying", "child", "created",
        "whole", "torn", "lost"}
MPC == {"setCancel", "wait", "close", "quit", "summary", "exit"}

Init ==
  /\ opts \in Options
  /\ cancelled = FALSE
  /\ wpc = [t \in Targets |-> "idle"]
  /\ log = [t \in Targets |-> <<>>]
  /\ stats = [t \in Targets |-> NoTally]
  /\ streak = [t \in Targets |-> 0]
  /\ mu = Free
  /\ msg = [t \in Targets |-> [verdict |-> "ok", stat |-> NoTally]]
  /\ closed = FALSE
  /\ prog = "new"
  /\ quitMsg = FALSE
  /\ runner = TRUE
  /\ modal = "none"
  /\ shown = <<>>
  /\ screen = NoTally
  /\ xpc = [e \in Exports |-> "none"]
  /\ file = [e \in Exports |-> NoFile]
  /\ mpc = "setCancel"

Running == mpc # "exit"
-----------------------------------------------------------------------------
(* The goroutines that probe.  What they do besides is in Prober and       *)
(* MultiProber.                                                            *)

Goto(t, state) == wpc' = [wpc EXCEPT ![t] = state]

(* The select of the single loop may pick the tick although the context is *)
(* done; the loop of a fleet's worker looks at the context first.          *)
Begin(t) ==
  /\ mpc = "wait"
  /\ wpc[t] = "idle"
  /\ Len(log[t]) < MaxProbes[t]
  /\ Single \/ ~cancelled
  /\ Goto(t, "count")
  /\ UNCHANGED <<opts, cancelled, log, stats, streak, mu, msg, closed, program,
                 model, exporting, mpc>>

Leave(t) ==
  /\ mpc = "wait"
  /\ wpc[t] = "idle"
  /\ cancelled
  /\ Goto(t, "done")
  /\ UNCHANGED <<opts, cancelled, log, stats, streak, mu, msg, closed, program,
                 model, exporting, mpc>>

GivesUp(fails) == opts.maxFails > 0 /\ fails >= opts.maxFails

(* The probe is counted.  A fleet's worker gives up before it shows it.    *)
Count(t) ==
  /\ Running
  /\ wpc[t] = "count"
  /\ \E v \in {"ok", "fail"} :
       /\ log' = [log EXCEPT ![t] = Append(@, v)]
       /\ msg' = [msg EXCEPT ![t].verdict = v]
       /\ stats' = [stats EXCEPT ![t][v] = @ + 1]
       /\ streak' = [streak EXCEPT ![t] = IF v = "ok" THEN 0 ELSE @ + 1]
  /\ Goto(t, IF ~Single /\ GivesUp(streak'[t]) THEN "done" ELSE "lock")
  /\ UNCHANGED <<opts, cancelled, mu, closed, program, model, exporting, mpc>>

(* A probe has been shown: the limits that are left, and the next one.     *)
AfterShown(t) ==
  Goto(t, IF \/ Single /\ GivesUp(streak[t])
             \/ opts.quit > 0 /\ Len(log[t]) >= opts.quit
          THEN "done" ELSE "idle")

(* PrintProbeSuccess, PrintProbeFailure and OnProbe: nothing is sent once  *)
(* d is closed.  The single dashboard sends a clone of the statistics.     *)
Lock(t) ==
  /\ Running
  /\ wpc[t] = "lock"
  /\ mu = Free
  /\ IF closed THEN AfterShown(t) /\ UNCHANGED <<mu, msg>>
     ELSE /\ Goto(t, "send")
          /\ msg' = [msg EXCEPT ![t].stat = stats[t]]
          /\ mu' = t
  /\ UNCHANGED <<opts, cancelled, log, stats, streak, closed, program, model,
                 exporting, mpc>>

(* Program.Send: it waits for the event loop to take the message, and does *)
(* nothing once the loop has ended.                                        *)
Ended == prog \in {"leaving", "ended"}

(* Mutant of Show: the newest probe is put in front.                       *)
ShowInFront(t) == shown' = <<[target |-> t, verdict |-> msg[t].verdict]>> \o shown

(* Update on singleProbeMsg and multiProbeMsg.                             *)
Show(t) == shown' = Append(shown, [target |-> t, verdict |-> msg[t].verdict])

Send(t) ==
  /\ Running
  /\ wpc[t] = "send"
  /\ \/ /\ prog = "running"
        /\ Show(t)
        /\ screen' = IF Single THEN msg[t].stat ELSE screen
     \/ Ended /\ UNCHANGED <<shown, screen>>
  /\ mu' = Free
  /\ AfterShown(t)
  /\ UNCHANGED <<opts, cancelled, log, stats, streak, msg, closed, program,
                 modal, exporting, mpc>>

Probe(t) == Begin(t) \/ Leave(t) \/ Count(t) \/ Lock(t) \/ Send(t)
-----------------------------------------------------------------------------
(* The program starts, or fails for want of a terminal.                    *)
Start ==
  /\ Running
  /\ prog = "new"
  /\ prog' \in {"running", "ended"}
  /\ UNCHANGED <<opts, probing, mu, closed, quitMsg, runner, model, exporting,
                 mpc>>

(* Keys, as Update reads them.                                             *)
Listening == Running /\ prog = "running"

OpenModal ==
  /\ Listening
  /\ modal = "none"
  /\ modal' = "format"
  /\ UNCHANGED <<opts, probing, mu, closed, program, shown, screen, exporting,
                 mpc>>

(* The arrows and Enter, or the number of a format: its path is edited.    *)
Choose ==
  /\ Listening
  /\ modal = "format"
  /\ modal' \in Formats
  /\ UNCHANGED <<opts, probing, mu, closed, program, shown, screen, exporting,
                 mpc>>

(* Escape and Ctrl+C close the modal and nothing else.                     *)
CloseModal ==
  /\ Listening
  /\ modal # "none"
  /\ modal' = "none"
  /\ UNCHANGED <<opts, probing, mu, closed, program, shown, screen,
                 exporting, mpc>>

(* Mutant of Captured: the goroutine of the export reads the statistics.   *)
CapturedLive == IF Single THEN <<stats[1]>> ELSE <<>>

(* The single model exports its clone of the statistics; those of a fleet  *)
(* are read by the goroutine of the export.                                *)
Captured == IF Single THEN <<screen>> ELSE <<>>

(* Enter on the path: copies are made and an export starts on them.        *)
Confirm(e) ==
  /\ Listening
  /\ modal \in Formats
  /\ xpc[e] = "none"
  /\ modal' = "none"
  /\ file' = [file EXCEPT ![e] = [format |-> modal, totals |-> Captured,
                                  records |-> shown]]
  /\ xpc' = [xpc EXCEPT ![e] = IF Single THEN "write" ELSE "snapshot"]
  /\ UNCHANGED <<opts, probing, mu, closed, program, shown, screen,
                 mpc>>

(* q, Escape or Ctrl+C without a modal: Quit reaches the event loop as a   *)
(* message of its own.                                                     *)
PressQuit ==
  /\ Listening
  /\ modal = "none"
  /\ quitMsg' = TRUE
  /\ UNCHANGED <<opts, probing, mu, closed, prog, runner, model, exporting,
                 mpc>>

Key == \/ OpenModal \/ Choose \/ CloseModal \/ PressQuit
       \/ \E e \in Exports : Confirm(e)

(* The event loop takes the QuitMsg and returns, which ends any input ...   *)
LoopEnds ==
  /\ Listening
  /\ quitMsg
  /\ quitMsg' = FALSE
  /\ prog' = "leaving"
  /\ modal' = "none"
  /\ UNCHANGED <<opts, probing, mu, closed, runner, shown, screen, exporting,
                 mpc>>

(* ... the terminal is restored ...                                        *)
Restore ==
  /\ Running
  /\ prog = "leaving"
  /\ prog' = "ended"
  /\ UNCHANGED <<opts, probing, mu, closed, quitMsg, runner, model, exporting,
                 mpc>>

(* Mutant of Cancel: the run is cancelled only if main closed the screen.  *)
CancelIfClosed ==
  /\ Running
  /\ prog = "ended" /\ runner /\ mu = Free
  /\ runner' = FALSE
  /\ cancelled' = (cancelled \/ closed)
  /\ UNCHANGED <<opts, wpc, log, stats, streak, mu, msg, closed, prog, quitMsg,
                 model, exporting, mpc>>

(* ... and the goroutine of Run calls d.cancel, if SetCancel has set it.   *)
Cancel ==
  /\ Running
  /\ prog = "ended" /\ runner /\ mu = Free
  /\ runner' = FALSE
  /\ cancelled' = (cancelled \/ mpc # "setCancel")
  /\ UNCHANGED <<opts, wpc, log, stats, streak, mu, msg, closed, prog, quitMsg,
                 model, exporting, mpc>>

Loop == Start \/ LoopEnds \/ Restore \/ Cancel

(* SIGINT or SIGTERM: SetupSignalHandler, and the handler of Bubble Tea.   *)
Signal ==
  /\ Running
  /\ ~cancelled
  /\ cancelled' = TRUE
  /\ quitMsg' = (quitMsg \/ prog = "running")
  /\ UNCHANGED <<opts, wpc, log, stats, streak, mu, msg, closed, prog, runner,
                 model, exporting, mpc>>
(* Ctrl+C once the terminal is restored is a SIGINT for the whole process  *)
(* group: setDetachedProcess does nothing except on Windows.               *)
Interrupt ==
  /\ Running
  /\ prog = "ended"
  /\ cancelled' = TRUE
  /\ xpc' = [e \in Exports |->
               IF xpc[e] \in {"copying", "child"} THEN "lost" ELSE xpc[e]]
  /\ UNCHANGED <<opts, wpc, log, stats, streak, mu, msg, closed, program, model,
                 file, mpc>>
-----------------------------------------------------------------------------
(* Exports.                                                                *)
XGoto(e, state) == xpc' = [xpc EXCEPT ![e] = state]

(* A fleet's targets are read one after the other.                         *)
Snapshot(e) ==
  /\ Running
  /\ xpc[e] = "snapshot"
  /\ LET t == Len(file[e].totals) + 1 IN
       /\ file' = [file EXCEPT ![e].totals = Append(@, stats[t])]
       /\ XGoto(e, IF t = opts.targets THEN "write" ELSE "snapshot")
  /\ UNCHANGED <<opts, probing, mu, closed, program, model, mpc>>

(* SaveFileAsync starts a process that reads the data from a pipe, which a *)
(* goroutine fills.                                                        *)
SaveFileAsync(e) ==
  /\ Running
  /\ xpc[e] = "write" /\ file[e].format = "text"
  /\ XGoto(e, "copying")
  /\ UNCHANGED <<opts, probing, mu, closed, program, model, file, mpc>>

(* In an SQLite file the tables come first, for a single target with the   *)
(* totals, and the probes with the commit.                                 *)
CreateTables(e) ==
  /\ Running
  /\ xpc[e] = "write" /\ file[e].format = "sqlite"
  /\ XGoto(e, "created")
  /\ UNCHANGED <<opts, probing, mu, closed, program, model, file, mpc>>

Copied(e) ==
  /\ Running
  /\ xpc[e] = "copying"
  /\ XGoto(e, "child")
  /\ UNCHANGED <<opts, probing, mu, closed, program, model, file, mpc>>

Commit(e) ==
  /\ Running
  /\ xpc[e] = "created"
  /\ XGoto(e, "whole")
  /\ UNCHANGED <<opts, probing, mu, closed, program, model, file, mpc>>

(* main with --internal-async-save, a process that outlives its parent.    *)
AsyncSave(e) ==
  /\ xpc[e] = "child"
  /\ XGoto(e, "whole")
  /\ UNCHANGED <<opts, probing, mu, closed, program, model, file, mpc>>

Export(e) ==
  \/ Snapshot(e)
  \/ SaveFileAsync(e) \/ Copied(e) \/ AsyncSave(e)
  \/ CreateTables(e) \/ Commit(e)
-----------------------------------------------------------------------------
MainGoto(state) == mpc' = state

SetCancel ==
  /\ mpc = "setCancel"
  /\ mu = Free
  /\ MainGoto("wait")
  /\ UNCHANGED <<opts, probing, mu, closed, program, model, exporting>>

(* Probe returned, or Run waited for its workers.                          *)
Wait ==
  /\ mpc = "wait"
  /\ \A t \in Active : wpc[t] = "done"
  /\ MainGoto("close")
  /\ UNCHANGED <<opts, probing, mu, closed, program, model, exporting>>

Close ==
  /\ mpc = "close"
  /\ mu = Free
  /\ mu' = MainHolds
  /\ closed' = TRUE
  /\ MainGoto("quit")
  /\ UNCHANGED <<opts, probing, program, model, exporting>>

(* Close sends the QuitMsg with d.mu held.                                 *)
SendQuit ==
  /\ mpc = "quit"
  /\ \/ prog = "running" /\ prog' = "leaving" /\ modal' = "none"
     \/ Ended /\ UNCHANGED <<prog, modal>>
  /\ mu' = Free
  /\ MainGoto("summary")
  /\ UNCHANGED <<opts, probing, closed, quitMsg, runner, shown, screen,
                 exporting>>

(* The summary is printed and the process ends.  What a goroutine had not  *)
(* written yet is not written any more; a pipe that was being filled ends  *)
(* early, and the process that reads it takes that for the end.            *)
Exit ==
  /\ mpc = "summary"
  /\ MainGoto("exit")
  /\ xpc' = [e \in Exports |->
               IF xpc[e] \in {"copying", "created"} THEN "torn" ELSE xpc[e]]
  /\ UNCHANGED <<opts, probing, mu, closed, program, model, file>>

Main == SetCancel \/ Wait \/ Close \/ SendQuit \/ Exit

Exited == mpc = "exit" /\ UNCHANGED vars

Next ==
  \/ \E t \in Active : Probe(t)
  \/ Loop \/ Key \/ Signal \/ Interrupt
  \/ \E e \in Exports : Export(e)
  \/ Main
  \/ Exited

Spec == Init /\ [][Next]_vars

(* A Ping has a timeout and a runnable goroutine is scheduled; the event   *)
(* loop takes one message after the other.  Nobody has to press a key or   *)
(* send a signal.  (With MaxProbes d.mu is taken finitely often, so that   *)
(* weak fairness is enough for those who wait for it; without the bound it *)
(* would take sync.Mutex's promise to hand itself to the longest waiter.)  *)
FairSpec ==
  /\ Spec
  /\ \A t \in Targets : WF_vars(t \in Active /\ Probe(t))
  /\ WF_vars(Loop)
  /\ WF_vars(Main)
-----------------------------------------------------------------------------
TypeOK ==
  /\ opts \in Options
  /\ cancelled \in BOOLEAN
  /\ wpc \in [Targets -> WPC]
  /\ log \in [Targets -> Seq({"ok", "fail"})]
  /\ stats \in [Targets -> Tally]
  /\ streak \in [Targets -> Nat]
  /\ mu \in {Free, MainHolds} \cup Targets
  /\ msg \in [Targets -> [verdict : {"ok", "fail"}, stat : Tally]]
  /\ closed \in BOOLEAN
  /\ prog \in {"new", "running", "leaving", "ended"}
  /\ quitMsg \in BOOLEAN
  /\ runner \in BOOLEAN
  /\ modal \in {"none", "format"} \cup Formats
  /\ shown \in Seq(Record)
  /\ screen \in Tally
  /\ xpc \in [Exports -> XPC]
  /\ file \in [Exports -> [format : Formats, totals : Seq(Tally),
                           records : Seq(Record)]]
  /\ mpc \in MPC

(* The records of target t among rs, by their positions.                   *)
Of(rs, t) == {i \in DOMAIN rs : rs[i].target = t}
Tallied(rs, t, v) == Cardinality({i \in Of(rs, t) : rs[i].verdict = v})

(* The screen shows the probes of each target in their order, from the     *)
(* first on and without a hole, and while the program runs each of them    *)
(* before the next one begins (OnProbe, Send with d.mu held, Update).      *)
ScreenFollowsProbes ==
  \A t \in Active :
    /\ Cardinality(Of(shown, t)) <= Len(log[t])
    /\ \A i \in Of(shown, t) :
         shown[i].verdict = log[t][Cardinality(Of(shown, t) \cap 1..i)]
    /\ wpc[t] = "idle" /\ prog = "running" => Cardinality(Of(shown, t)) = Len(log[t])

(* An export is of one piece: for a single target its totals are those of  *)
(* the probes it lists, although probing goes on while it is written; for  *)
(* a fleet, whose totals are read later, they cover at least the listed    *)
(* ones (Update, ExportSingleTarget, ExportMultiTarget).                   *)
ExportAgrees ==
  \A e \in Exports : \A t \in DOMAIN file[e].totals : \A v \in {"ok", "fail"} :
    LET listed == Tallied(file[e].records, t, v)
        total == file[e].totals[t][v]
    IN  IF Single THEN total = listed ELSE total >= listed

(* The footer says "Press Ctrl+C or q to stop probing": when the program   *)
(* ends because of a key or a signal the run ends too, and so it does      *)
(* after --count, whoever waits for d.mu or for the event loop then.  Only *)
(* a program that ended before SetCancel leaves the run alone.             *)
RunEnds ==
  \/ opts.quit > 0
  \/ quitMsg /\ runner /\ mpc # "setCancel"
  ~> mpc = "exit"
=============================================================================
