------------------------------- MODULE Prober -------------------------------
(***************************************************************************)
(* Probing of a single target: the loop of Prober.Probe in                 *)
(* pkg/probers/probers.go with the statistics it keeps (pkg/stats), the    *)
(* event it publishes after each probe (OnProbeResult in cmd/netping.go),  *)
(* the interrupt that ends it, and POST /api/v1/reset (handleReset in      *)
(* pkg/web/server.go), which resets the same statistics.                   *)
(*                                                                         *)
(* Each critical section of Statistics.Mu is an action, and so is each     *)
(* read of the streak of failures that the loop makes without the lock.    *)
(* Moments are naturals and 0 is the zero time.  The clock may advance     *)
(* between any two steps; a probe takes place at the moment its tick came. *)
(***************************************************************************)
EXTENDS Naturals, Sequences, FiniteSetsExt

CONSTANTS
  Options,          \* the configurations that may be run
  Resetters,        \* the reset requests that may arrive
  MaxTime,          \* bound: the last moment
  MaxProbes,        \* bound: how many probes are made at most
  Forever           \* the longest Duration, at which Time.Sub saturates

(* quit: --count; maxFails: --max-consecutive-fails; retries: --retries;   *)
(* 0 turns each of them off.  reresolve: whether a name is resolved again  *)
(* after resolveAfter failures; sla: whether there is a --max-latency.     *)
Option == [quit : Nat, maxFails : Nat, retries : Nat, reresolve : BOOLEAN,
           resolveAfter : Nat, sla : BOOLEAN]

ASSUME ProberAssumption ==
  /\ Options \subseteq Option
  /\ MaxTime \in Nat \ {0}
  /\ MaxProbes \in Nat \ {0}
  /\ Forever \in Nat /\ Forever > MaxTime

VARIABLES
  opts,             \* the options of this run
  now,              \* the clock
  interrupted,      \* ctx is done
  pc,               \* control state of Probe
  pingTime,         \* moment of the current probe
  attempt,          \* retry attempt under way, 0 if none
  res,              \* outcome of the probe
  probeCount,       \* the local counter of Probe
  snap,             \* the Snapshot that OnProbeResult takes
  ok, bad,          \* TotalSuccessfulProbes, TotalUnsuccessfulProbes
  streak,           \* OngoingUnsuccessfulProbes
  lookups,          \* RetriedHostnameLookups
  down,             \* DestWasDown
  startDown,        \* StartOfDowntime
  startUp,          \* StartOfUptime
  totalDown,        \* TotalDowntime
  longestDown,      \* LongestDown
  totalUp,          \* TotalUptime
  endTime,          \* EndTime
  history,          \* events of the broadcaster, oldest first
  rpc,              \* control state of each reset request
  log,              \* history variable: moment and verdict of each probe
  resetAt           \* history variable: probes counted at the last reset

counters == <<ok, bad, streak>>
outage == <<down, startDown, totalDown, longestDown>>
uptime == <<startUp, totalUp>>
loop == <<pc, pingTime, attempt, res, probeCount, snap>>
ghosts == <<log, resetAt>>
env == <<opts, now, interrupted>>
records == <<lookups, outage, uptime, endTime, history, rpc, ghosts>>
vars == <<opts, now, interrupted, pc, pingTime, attempt, res, probeCount, snap,
          ok, bad, streak, lookups, down, startDown, startUp, totalDown,
          longestDown, totalUp, endTime, history, rpc, log, resetAt>>

PC == {"wait", "ping", "backoff", "reping", "count", "details", "failed",
       "check", "event", "broadcast", "finish", "done"}

(* slow: the target answered, but later than --max-latency allows.         *)
Outcomes == IF opts.sla THEN {"ok", "slow", "fail"} ELSE {"ok", "fail"}

Init ==
  /\ opts \in Options
  /\ now = 1
  /\ interrupted = FALSE
  /\ pc = "wait"
  /\ pingTime = 0
  /\ attempt = 0
  /\ res = "ok"
  /\ probeCount = 0
  /\ snap = [ok |-> 0, bad |-> 0]
  /\ ok = 0 /\ bad = 0 /\ streak = 0
  /\ lookups = 0
  /\ down = FALSE
  /\ startDown = 0
  /\ startUp = 0
  /\ totalDown = 0
  /\ longestDown = [start |-> 0, length |-> 0]
  /\ totalUp = 0
  /\ endTime = 0
  /\ history = <<>>
  /\ rpc = [x \in Resetters |-> "idle"]
  /\ log = <<>>
  /\ resetAt = 0

Goto(label) == pc' = label

(* Time.Sub: the distance from the zero time does not fit a Duration.      *)
Sub(end, start) == IF start = 0 THEN Forever ELSE end - start

(* utils.SetLongestDuration.                                               *)
SetLongestDuration(start, length, l) ==
  IF start = 0 \/ length = 0 \/ (l.length > 0 /\ length < l.length)
  THEN l ELSE [start |-> start, length |-> length]
-----------------------------------------------------------------------------
Tick ==
  /\ pc # "done"
  /\ now < MaxTime
  /\ now' = now + 1
  /\ UNCHANGED <<opts, interrupted, loop, counters, records>>

(* SIGINT, SIGTERM, or quitting the dashboard.                             *)
Interrupt ==
  /\ pc # "done"
  /\ ~interrupted
  /\ interrupted' = TRUE
  /\ UNCHANGED <<opts, now, loop, counters, records>>

(* The loop's select: case <-ctx.Done().                                   *)
Leave ==
  /\ pc = "wait"
  /\ interrupted
  /\ Goto("finish")
  /\ UNCHANGED <<env, pingTime, attempt, res, probeCount, snap, counters,
                 records>>

(* The loop's select: case <-p.Ticker.C.  When both cases are ready the    *)
(* runtime picks either.                                                   *)
Begin ==
  /\ pc = "wait"
  /\ Len(log) < MaxProbes
  /\ pingTime' = now
  /\ Goto("ping")
  /\ UNCHANGED <<env, attempt, res, probeCount, snap, counters, records>>

(* A probe returns, within its timeout.  A failure, an SLA breach          *)
(* included, is retried; the last outcome counts.                          *)
Returns(from, retry) ==
  /\ pc = from
  /\ \E o \in Outcomes :
       /\ res' = o
       /\ IF o # "ok" /\ retry < opts.retries
          THEN attempt' = retry + 1 /\ Goto("backoff")
          ELSE attempt' = 0 /\ Goto("count")
  /\ UNCHANGED <<env, pingTime, probeCount, snap, counters, records>>

Ping == Returns("ping", 0)
Reping == Returns("reping", attempt)

(* Mutant of Backoff: the interrupted sleep starts the attempts over.      *)
BackoffStartsOver ==
  /\ pc = "backoff"
  /\ Goto("reping")
  /\ attempt' = IF interrupted THEN 0 ELSE attempt
  /\ UNCHANGED <<env, pingTime, res, probeCount, snap, counters, records>>

(* SleepWithContext: the timer fires, or the interrupt ends the retries.   *)
Backoff ==
  /\ pc = "backoff"
  /\ \/ Goto("reping") /\ UNCHANGED attempt
     \/ interrupted /\ Goto("count") /\ attempt' = 0
  /\ UNCHANGED <<env, pingTime, res, probeCount, snap, counters, records>>
-----------------------------------------------------------------------------
Logged(good) == log' = Append(log, [at |-> pingTime, good |-> good])

(* Mutant of CountFailure: every failure starts an outage.                 *)
CountFailureRestarts ==
  /\ pc = "count"
  /\ res # "ok"
  /\ bad' = bad + 1
  /\ streak' = streak + 1
  /\ down' = TRUE
  /\ startDown' = pingTime
  /\ Logged(FALSE)
  /\ Goto("failed")
  /\ UNCHANGED <<env, pingTime, attempt, res, probeCount, snap, ok, lookups,
                 totalDown, longestDown, uptime, endTime, history, rpc,
                 resetAt>>

(* The critical section of a failed probe.                                 *)
CountFailure ==
  /\ pc = "count"
  /\ res # "ok"
  /\ bad' = bad + 1
  /\ streak' = streak + 1
  /\ down' = TRUE
  /\ startDown' = IF down THEN startDown ELSE pingTime
  /\ Logged(FALSE)
  /\ Goto("failed")
  /\ UNCHANGED <<env, pingTime, attempt, res, probeCount, snap, ok, lookups,
                 totalDown, longestDown, uptime, endTime, history, rpc,
                 resetAt>>

(* The streak is read without the lock: is the name resolved again?        *)
Reresolve ==
  /\ pc = "failed"
  /\ lookups' = IF opts.reresolve /\ streak >= opts.resolveAfter
                THEN lookups + 1 ELSE lookups
  /\ Goto("check")
  /\ UNCHANGED <<env, pingTime, attempt, res, probeCount, snap, counters,
                 outage, uptime, endTime, history, rpc, ghosts>>

(* Mutants of CheckStreak: one failure more than asked for; a failed probe *)
(* goes on to the next one at once.                                        *)
CheckStreakLate ==
  /\ pc = "check"
  /\ Goto(IF opts.maxFails > 0 /\ streak > opts.maxFails THEN "finish" ELSE "event")
  /\ UNCHANGED <<env, pingTime, attempt, res, probeCount, snap, counters,
                 records>>

CheckStreakSkips ==
  /\ pc = "check"
  /\ Goto(IF opts.maxFails > 0 /\ streak >= opts.maxFails THEN "finish" ELSE "wait")
  /\ UNCHANGED <<env, pingTime, attempt, res, probeCount, snap, counters,
                 records>>

(* The streak is read again: is it time to give up?  Then the event of     *)
(* this probe is not published.                                            *)
CheckStreak ==
  /\ pc = "check"
  /\ Goto(IF opts.maxFails > 0 /\ streak >= opts.maxFails THEN "finish" ELSE "event")
  /\ UNCHANGED <<env, pingTime, attempt, res, probeCount, snap, counters,
                 records>>

(* RecordSuccess.                                                          *)
CountSuccess ==
  /\ pc = "count"
  /\ res = "ok"
  /\ ok' = ok + 1
  /\ streak' = 0
  /\ Logged(TRUE)
  /\ Goto("details")
  /\ UNCHANGED <<env, pingTime, attempt, res, probeCount, snap, bad, lookups,
                 outage, uptime, endTime, history, rpc, resetAt>>

(* The second critical section of a success ends the outage.               *)
Details ==
  /\ pc = "details"
  /\ IF down
     THEN /\ down' = FALSE
          /\ totalDown' = totalDown + Sub(pingTime, startDown)
          /\ longestDown' = SetLongestDuration(startDown, Sub(pingTime, startDown),
                                               longestDown)
          /\ startUp' = pingTime
     ELSE /\ UNCHANGED <<down, totalDown, longestDown>>
          /\ startUp' = IF startUp = 0 THEN pingTime ELSE startUp
  /\ Goto("event")
  /\ UNCHANGED <<env, pingTime, attempt, res, probeCount, snap, counters,
                 lookups, startDown, totalUp, endTime, history, rpc, ghosts>>

(* OnProbeResult: the snapshot ...                                         *)
TakeSnapshot ==
  /\ pc = "event"
  /\ snap' = [ok |-> ok, bad |-> bad]
  /\ Goto("broadcast")
  /\ UNCHANGED <<env, pingTime, attempt, res, probeCount, counters, records>>

Event(verdict, s) == [good |-> verdict, ok |-> s.ok, bad |-> s.bad]

(* The end of an iteration: --count.                                       *)
CountProbe ==
  IF opts.quit = 0 THEN UNCHANGED probeCount /\ Goto("wait")
  ELSE /\ probeCount' = probeCount + 1
       /\ Goto(IF probeCount + 1 >= opts.quit THEN "finish" ELSE "wait")

(* ... and the event with its totals.                                      *)
Broadcast ==
  /\ pc = "broadcast"
  /\ history' = Append(history, Event(res = "ok", snap))
  /\ CountProbe
  /\ UNCHANGED <<env, pingTime, attempt, res, snap, counters, lookups, outage,
                 uptime, endTime, rpc, ghosts>>

(* finalizeStatistics.                                                     *)
Finalize ==
  /\ pc = "finish"
  /\ endTime' = now
  /\ IF down
     THEN /\ totalDown' = totalDown + Sub(now, startDown)
          /\ longestDown' = SetLongestDuration(startDown, Sub(now, startDown), longestDown)
          /\ UNCHANGED totalUp
     ELSE /\ totalUp' = totalUp + Sub(now, startUp)
          /\ UNCHANGED <<totalDown, longestDown>>
  /\ Goto("done")
  /\ UNCHANGED <<env, pingTime, attempt, res, probeCount, snap, counters,
                 lookups, down, startDown, startUp, history, rpc, ghosts>>
-----------------------------------------------------------------------------
(* handleReset: Broadcaster.ClearHistory ...                               *)
ResetHistory(x) ==
  /\ rpc[x] = "idle"
  /\ history' = <<>>
  /\ rpc' = [rpc EXCEPT ![x] = "stats"]
  /\ UNCHANGED <<env, loop, counters, lookups, outage, uptime, endTime,
                 ghosts>>

(* Mutants of ResetStats: the streak is kept; the outage is forgotten.     *)
ResetStatsKeepsStreak(x) ==
  /\ rpc[x] = "stats"
  /\ ok' = 0 /\ bad' = 0
  /\ resetAt' = Len(log)
  /\ rpc' = [rpc EXCEPT ![x] = "done"]
  /\ UNCHANGED <<env, loop, streak, lookups, outage, uptime, endTime, history,
                 log>>

ResetStatsAndOutage(x) ==
  /\ rpc[x] = "stats"
  /\ ok' = 0 /\ bad' = 0 /\ streak' = 0
  /\ down' = FALSE
  /\ resetAt' = Len(log)
  /\ rpc' = [rpc EXCEPT ![x] = "done"]
  /\ UNCHANGED <<env, loop, lookups, startDown, totalDown, longestDown, uptime,
                 endTime, history, log>>

(* ... and Statistics.Reset, which leaves the outage and the uptime alone. *)
ResetStats(x) ==
  /\ rpc[x] = "stats"
  /\ ok' = 0 /\ bad' = 0 /\ streak' = 0
  /\ resetAt' = Len(log)
  /\ rpc' = [rpc EXCEPT ![x] = "done"]
  /\ UNCHANGED <<env, loop, lookups, outage, uptime, endTime, history, log>>

(* One iteration, from its tick to its end.                                *)
Iteration ==
  \/ Begin \/ Ping \/ Reping \/ Backoff \/ CountFailure \/ Reresolve
  \/ CheckStreak \/ CountSuccess \/ Details \/ TakeSnapshot \/ Broadcast

Probe == Leave \/ Iteration \/ Finalize

Reset(x) == ResetHistory(x) \/ ResetStats(x)

Exited == pc = "done" /\ (\A x \in Resetters : rpc[x] = "done") /\ UNCHANGED vars

Next == Tick \/ Interrupt \/ Probe \/ (\E x \in Resetters : Reset(x)) \/ Exited

Spec == Init /\ [][Next]_vars

(* Every probe has a timeout and every tick comes, so the loop goes on.    *)
(* Among several cases that are ready a select picks at random, so it does *)
(* not pass over a context that is done for ever: strong fairness.         *)
FairSpec == Spec /\ WF_vars(Probe) /\ SF_vars(Leave)
-----------------------------------------------------------------------------
TypeOK ==
  /\ opts \in Options
  /\ now \in 1..MaxTime
  /\ interrupted \in BOOLEAN
  /\ pc \in PC
  /\ pingTime \in 0..MaxTime
  /\ attempt \in Nat
  /\ res \in {"ok", "slow", "fail"}
  /\ probeCount \in Nat
  /\ snap \in [ok : Nat, bad : Nat]
  /\ ok \in Nat /\ bad \in Nat /\ streak \in Nat /\ lookups \in Nat
  /\ down \in BOOLEAN
  /\ startDown \in 0..MaxTime /\ startUp \in 0..MaxTime
  /\ totalDown \in Nat /\ totalUp \in Nat
  /\ longestDown \in [start : Nat, length : Nat]
  /\ endTime \in 0..MaxTime
  /\ history \in Seq([good : BOOLEAN, ok : Nat, bad : Nat])
  /\ rpc \in [Resetters -> {"idle", "stats", "done"}]
  /\ log \in Seq([at : Nat, good : BOOLEAN])
  /\ resetAt \in 0..Len(log)

NoReset == \A x \in Resetters : rpc[x] = "idle"

(* The positions of the log from which only failures follow, up to i.      *)
Streak(from, i) == {j \in from..i : \A k \in j..i : ~log[k].good}

(* Since the last reset of the counters each probe was counted once, as    *)
(* what it came to after its retries, and the streak is the length of the  *)
(* run of failures at the end, wherever the reset fell between the two     *)
(* critical sections of a probe (Probe, RecordSuccess, Statistics.Reset).  *)
CountersFollowLog ==
  LET since == resetAt + 1 .. Len(log) IN
  /\ ok = Cardinality({i \in since : log[i].good})
  /\ bad = Cardinality({i \in since : ~log[i].good})
  /\ streak = Cardinality(Streak(resetAt + 1, Len(log)))

(* Probing never goes on after --max-consecutive-fails failures in a row,  *)
(* counted from the last reset, although a reset may come between the      *)
(* count of a failure and the read of the streak (Probe).                  *)
StopsInTime ==
  pc = "wait" /\ opts.maxFails > 0
    => Cardinality(Streak(resetAt + 1, Len(log))) < opts.maxFails

(* The probes whose effect on the outage is complete.                      *)
Settled == IF pc = "details" THEN 1 .. Len(log) - 1 ELSE 1 .. Len(log)

(* The outages that are over, by the position of their first failure.      *)
Recoveries(i) == {j \in Settled : j > i /\ log[j].good}
Outages == {i \in Settled : /\ ~log[i].good
                            /\ i = 1 \/ log[i - 1].good
                            /\ Recoveries(i) # {} \/ pc = "done"}
End(i) == IF Recoveries(i) # {} THEN log[Min(Recoveries(i))].at ELSE endTime
Length(i) == End(i) - log[i].at
Downtime == UNION {log[i].at .. End(i) - 1 : i \in Outages}

(* The downtime counts the moments spent in the outages of the log, each   *)
(* of them once, and the longest outage is the longest of those, with the  *)
(* moment at which such an outage began, whatever the options and wherever *)
(* resets and the interrupt fall (Probe, finalizeStatistics,               *)
(* SetLongestDuration).                                                    *)
OutagesAccounted ==
  /\ totalDown = Cardinality(Downtime)
  /\ longestDown.length = Max({0} \cup {Length(i) : i \in Outages})
  /\ longestDown.length > 0 =>
       \E i \in Outages : log[i].at = longestDown.start /\ Length(i) = longestDown.length

(* As long as nobody resets, the k-th event carries the verdict of the     *)
(* k-th probe and the totals of the first k, and the next probe does not   *)
(* begin before it is out (OnProbeResult).                                 *)
EventsMatchProbes ==
  NoReset =>
    /\ pc = "wait" => Len(history) = Len(log)
    /\ \A k \in 1..Len(history) :
         history[k] = [good |-> log[k].good,
                       ok |-> Cardinality({i \in 1..k : log[i].good}),
                       bad |-> Cardinality({i \in 1..k : ~log[i].good})]

(* A run without interrupt and without --max-consecutive-fails makes       *)
(* exactly the probes asked for, and no run makes more (--count).          *)
QuitsOnCount ==
  opts.quit > 0 =>
    /\ Len(log) <= opts.quit
    /\ pc = "done" /\ ~interrupted /\ opts.maxFails = 0 => Len(log) = opts.quit

(* The outage bookkeeping, spread over three critical sections, with       *)
(* resets and retries in between, implements OutageLedger.                 *)
Ledger == INSTANCE OutageLedger WITH
  Moments <- 0..MaxTime,
  out <- down,
  since <- IF down THEN startDown ELSE 0,
  total <- totalDown,
  longest <- longestDown,
  closed <- pc = "done"
ImplementsLedger == Ledger!LedgerSpec

(* The time spent in outages fits in the time that has passed: no second   *)
(* is counted into two outages (Probe, finalizeStatistics).                *)
DowntimeFits == totalDown < now

(* An interrupt ends the run, even during retries and outages (the select  *)
(* of Probe, SleepWithContext), and so does --count.                       *)
RunEnds == interrupted \/ opts.quit > 0 ~> pc = "done"
=============================================================================
