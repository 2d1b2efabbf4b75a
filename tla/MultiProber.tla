----------------------------- MODULE MultiProber -----------------------------
(***************************************************************************)
(* Probing of several targets at once: MultiProber.Run and                 *)
(* PrintSummaryTable in pkg/probers/multi_prober.go, the events each probe *)
(* publishes (onMultiProbe in cmd/netping.go), the interrupt, and          *)
(* POST /api/v1/reset (handleReset in pkg/web/server.go) on the fleet.     *)
(*                                                                         *)
(* Every target has a worker: a goroutine with a Pinger and Statistics of  *)
(* its own.  Workers share the semaphore of --concurrency, the context and *)
(* the broadcaster.  Each critical section of a Statistics.Mu, each        *)
(* operation on the semaphore and the unlocked read of the streak is an    *)
(* action.                                                                 *)
(***************************************************************************)
EXTENDS Naturals, Sequences, FiniteSets

CONSTANTS
  N,                \* number of targets
  Options,          \* the configurations that may be run
  Resetters,        \* the reset requests that may arrive
  MaxProbes         \* bound: how many probes a worker makes at most

Workers == 1..N

(* concurrency: --concurrency; quit: --count; maxFails: the limit of       *)
(* --max-consecutive-fails; retries: --retries.  0 turns each of them off. *)
Option == [concurrency : Nat, quit : Nat, maxFails : Nat, retries : Nat]

ASSUME MultiAssumption ==
  /\ N \in Nat \ {0}
  /\ Options \subseteq Option
  /\ MaxProbes \in Nat \ {0}

VARIABLES
  opts,             \* the options of this run
  cancelled,        \* ctx is done
  sem,              \* number of tokens in sem
  pc,               \* control state of each worker
  attempt,          \* retry attempt under way, 0 if none
  res,              \* outcome of the probe
  ok, bad, streak,  \* the counters of each worker's Statistics
  snap,             \* the Snapshot taken by onMultiProbe
  history,          \* events of the broadcaster, oldest first
  main,             \* control state of Run
  table,            \* the rows of the summary table printed so far
  rpc,              \* control state of each reset request
  next,             \* next[x]: the target that reset request x resets next
  log,              \* history variable: the verdicts of each worker's probes
  resetAt,          \* history variable: probes counted at the last reset
  late              \* history variable: probes begun after the cancellation

counters == <<ok, bad, streak>>
work == <<attempt, res, snap>>
summary == <<main, table>>
resetting == <<rpc, next>>
ghosts == <<log, resetAt, late>>
vars == <<opts, cancelled, sem, pc, attempt, res, ok, bad, streak, snap,
          history, main, table, rpc, next, log, resetAt, late>>

PC == {"check", "acquire", "ping", "backoff", "reping", "release", "count",
       "limit", "event", "broadcast", "interval", "done"}

(* ok: an answer in time.  fail: an error of the Pinger, a breach of       *)
(* --max-latency, or a Ping that the context cut short.                    *)
Outcomes == {"ok", "fail"}

Zero == [ok |-> 0, bad |-> 0]

Init ==
  /\ opts \in Options
  /\ cancelled = FALSE
  /\ sem = 0
  /\ pc = [w \in Workers |-> "check"]
  /\ attempt = [w \in Workers |-> 0]
  /\ res = [w \in Workers |-> "ok"]
  /\ ok = [w \in Workers |-> 0]
  /\ bad = [w \in Workers |-> 0]
  /\ streak = [w \in Workers |-> 0]
  /\ snap = [w \in Workers |-> Zero]
  /\ history = <<>>
  /\ main = "wait"
  /\ table = <<>>
  /\ rpc = [x \in Resetters |-> "idle"]
  /\ next = [x \in Resetters |-> 1]
  /\ log = [w \in Workers |-> <<>>]
  /\ resetAt = [w \in Workers |-> 0]
  /\ late = [w \in Workers |-> 0]

Goto(w, label) == pc' = [pc EXCEPT ![w] = label]

(* A probe begins: seq++.                                                  *)
Begun(w) == late' = [late EXCEPT ![w] = IF cancelled THEN @ + 1 ELSE @]

(* SIGINT, SIGTERM, or quitting the dashboard.                             *)
Cancel ==
  /\ main # "done"
  /\ ~cancelled
  /\ cancelled' = TRUE
  /\ UNCHANGED <<opts, sem, pc, work, counters, history, summary, resetting,
                 ghosts>>
-----------------------------------------------------------------------------
(* The head of the loop: the non-blocking look at the context; without a   *)
(* semaphore the probe begins right after it.                              *)
Check(w) ==
  /\ pc[w] = "check"
  /\ \/ cancelled /\ Goto(w, "done") /\ UNCHANGED late
     \/ /\ ~cancelled /\ Len(log[w]) < MaxProbes
        /\ IF opts.concurrency > 0 THEN Goto(w, "acquire") /\ UNCHANGED late
           ELSE Goto(w, "ping") /\ Begun(w)
  /\ UNCHANGED <<opts, cancelled, sem, work, counters, history, summary,
                 resetting, log, resetAt>>

(* Mutant of Acquire: the capacity is off by one.                          *)
AcquireOneMore(w) ==
  /\ pc[w] = "acquire"
  /\ sem <= opts.concurrency
  /\ sem' = sem + 1
  /\ Goto(w, "ping")
  /\ Begun(w)
  /\ UNCHANGED <<opts, cancelled, work, counters, history, summary, resetting,
                 log, resetAt>>

(* sem <- struct{}{}: nothing but a free slot ends this wait.              *)
Acquire(w) ==
  /\ pc[w] = "acquire"
  /\ sem < opts.concurrency
  /\ sem' = sem + 1
  /\ Goto(w, "ping")
  /\ Begun(w)
  /\ UNCHANGED <<opts, cancelled, work, counters, history, summary, resetting,
                 log, resetAt>>

(* A Ping returns.  A failure is retried; the slot is kept meanwhile.      *)
Returns(w, from, retry) ==
  /\ pc[w] = from
  /\ \E o \in Outcomes :
       /\ res' = [res EXCEPT ![w] = o]
       /\ IF o # "ok" /\ retry < opts.retries
          THEN attempt' = [attempt EXCEPT ![w] = retry + 1] /\ Goto(w, "backoff")
          ELSE attempt' = [attempt EXCEPT ![w] = 0] /\ Goto(w, "release")
  /\ UNCHANGED <<opts, cancelled, sem, snap, counters, history, summary,
                 resetting, ghosts>>

Ping(w) == Returns(w, "ping", 0)
Reping(w) == Returns(w, "reping", attempt[w])

(* Mutant of Backoff: the interrupted retry jumps over the release.        *)
BackoffKeepsSlot(w) ==
  /\ pc[w] = "backoff"
  /\ \/ Goto(w, "reping") /\ UNCHANGED attempt
     \/ cancelled /\ Goto(w, "count") /\ attempt' = [attempt EXCEPT ![w] = 0]
  /\ UNCHANGED <<opts, cancelled, sem, res, snap, counters, history, summary,
                 resetting, ghosts>>

(* SleepWithContext: the timer fires, or the context ends the retries.     *)
Backoff(w) ==
  /\ pc[w] = "backoff"
  /\ \/ Goto(w, "reping") /\ UNCHANGED attempt
     \/ cancelled /\ Goto(w, "release") /\ attempt' = [attempt EXCEPT ![w] = 0]
  /\ UNCHANGED <<opts, cancelled, sem, res, snap, counters, history, summary,
                 resetting, ghosts>>

(* <-sem                                                                   *)
Release(w) ==
  /\ pc[w] = "release"
  /\ sem' = IF opts.concurrency > 0 THEN sem - 1 ELSE sem
  /\ Goto(w, "count")
  /\ UNCHANGED <<opts, cancelled, work, counters, history, summary, resetting,
                 ghosts>>

(* Mutant of Count: a failure is counted per attempt.                      *)
CountAttempts(w) ==
  /\ pc[w] = "count"
  /\ IF res[w] = "ok"
     THEN /\ ok' = [ok EXCEPT ![w] = @ + 1]
          /\ streak' = [streak EXCEPT ![w] = 0]
          /\ UNCHANGED bad
     ELSE /\ bad' = [bad EXCEPT ![w] = @ + 1 + opts.retries]
          /\ streak' = [streak EXCEPT ![w] = @ + 1 + opts.retries]
          /\ UNCHANGED ok
  /\ log' = [log EXCEPT ![w] = Append(@, res[w])]
  /\ Goto(w, "limit")
  /\ UNCHANGED <<opts, cancelled, sem, work, history, summary, resetting,
                 resetAt, late>>

(* RecordSuccess or RecordFailure.                                         *)
Count(w) ==
  /\ pc[w] = "count"
  /\ IF res[w] = "ok"
     THEN /\ ok' = [ok EXCEPT ![w] = @ + 1]
          /\ streak' = [streak EXCEPT ![w] = 0]
          /\ UNCHANGED bad
     ELSE /\ bad' = [bad EXCEPT ![w] = @ + 1]
          /\ streak' = [streak EXCEPT ![w] = @ + 1]
          /\ UNCHANGED ok
  /\ log' = [log EXCEPT ![w] = Append(@, res[w])]
  /\ Goto(w, "limit")
  /\ UNCHANGED <<opts, cancelled, sem, work, history, summary, resetting,
                 resetAt, late>>

(* Mutant of Limit: a fleet that gives up together.                        *)
LimitOfFleet(w) ==
  /\ pc[w] = "limit"
  /\ Goto(w, IF opts.maxFails > 0 /\ (\E v \in Workers : streak[v] >= opts.maxFails)
             THEN "done" ELSE "event")
  /\ UNCHANGED <<opts, cancelled, sem, work, counters, history, summary,
                 resetting, ghosts>>

(* The unlocked read of the streak: is it time to give this target up?     *)
(* Then the probe that reached the limit is not published.                 *)
Limit(w) ==
  /\ pc[w] = "limit"
  /\ Goto(w, IF opts.maxFails > 0 /\ streak[w] >= opts.maxFails
             THEN "done" ELSE "event")
  /\ UNCHANGED <<opts, cancelled, sem, work, counters, history, summary,
                 resetting, ghosts>>

(* onMultiProbe: the snapshot ...                                          *)
TakeSnapshot(w) ==
  /\ pc[w] = "event"
  /\ snap' = [snap EXCEPT ![w] = [ok |-> ok[w], bad |-> bad[w]]]
  /\ Goto(w, "broadcast")
  /\ UNCHANGED <<opts, cancelled, sem, attempt, res, counters, history,
                 summary, resetting, ghosts>>

(* ProbeCount; seq counts the probes the worker has begun, all counted.    *)
AfterEvent(w) ==
  Goto(w, IF opts.quit > 0 /\ Len(log[w]) >= opts.quit THEN "done" ELSE "interval")

(* ... and the event that carries its totals.  The outcome and the         *)
(* snapshot are local to a round and go out of scope.                      *)
Broadcast(w) ==
  /\ pc[w] = "broadcast"
  /\ history' = Append(history, [worker |-> w, verdict |-> res[w],
                                 ok |-> snap[w].ok, bad |-> snap[w].bad])
  /\ res' = [res EXCEPT ![w] = "ok"]
  /\ snap' = [snap EXCEPT ![w] = Zero]
  /\ AfterEvent(w)
  /\ UNCHANGED <<opts, cancelled, sem, attempt, counters, summary, resetting,
                 ghosts>>

(* The select after a probe: the interval is over, or the context is done. *)
Interval(w) ==
  /\ pc[w] = "interval"
  /\ \/ Goto(w, "check")
     \/ cancelled /\ Goto(w, "done")
  /\ UNCHANGED <<opts, cancelled, sem, work, counters, history, summary,
                 resetting, ghosts>>
-----------------------------------------------------------------------------
(* wg.Wait() returns.                                                      *)
AllDone == main = "wait" /\ \A w \in Workers : pc[w] = "done"

Joined ==
  /\ AllDone
  /\ main' = "summary"
  /\ UNCHANGED <<opts, cancelled, sem, pc, work, counters, history, table,
                 resetting, ghosts>>

(* PrintSummaryTable reads one worker after the other under its lock.      *)
Row ==
  /\ main = "summary"
  /\ LET w == Len(table) + 1 IN
       /\ table' = Append(table, [ok |-> ok[w], bad |-> bad[w]])
       /\ main' = IF w = N THEN "done" ELSE "summary"
  /\ UNCHANGED <<opts, cancelled, sem, pc, work, counters, history, resetting,
                 ghosts>>

(* handleReset: the history goes first ...                                 *)
ResetHistory(x) ==
  /\ rpc[x] = "idle"
  /\ history' = <<>>
  /\ rpc' = [rpc EXCEPT ![x] = "stats"]
  /\ UNCHANGED <<opts, cancelled, sem, pc, work, counters, summary, next,
                 ghosts>>

(* Mutant of ResetStats: the streak is kept.                               *)
ResetKeepsStreak(x) ==
  /\ rpc[x] = "stats"
  /\ LET w == next[x] IN
       /\ ok' = [ok EXCEPT ![w] = 0]
       /\ bad' = [bad EXCEPT ![w] = 0]
       /\ resetAt' = [resetAt EXCEPT ![w] = Len(log[w])]
       /\ next' = [next EXCEPT ![x] = w + 1]
       /\ rpc' = [rpc EXCEPT ![x] = IF w = N THEN "done" ELSE "stats"]
  /\ UNCHANGED <<opts, cancelled, sem, pc, work, streak, history, summary, log,
                 late>>

(* ... and then the statistics of the fleet, one target after the other.   *)
ResetStats(x) ==
  /\ rpc[x] = "stats"
  /\ LET w == next[x] IN
       /\ ok' = [ok EXCEPT ![w] = 0]
       /\ bad' = [bad EXCEPT ![w] = 0]
       /\ streak' = [streak EXCEPT ![w] = 0]
       /\ resetAt' = [resetAt EXCEPT ![w] = Len(log[w])]
       /\ next' = [next EXCEPT ![x] = w + 1]
       /\ rpc' = [rpc EXCEPT ![x] = IF w = N THEN "done" ELSE "stats"]
  /\ UNCHANGED <<opts, cancelled, sem, pc, work, history, summary, log, late>>

(* One round of a worker's loop after it got its slot.                     *)
Probe(w) ==
  \/ Check(w) \/ Ping(w) \/ Reping(w) \/ Backoff(w) \/ Release(w) \/ Count(w)
  \/ Limit(w) \/ TakeSnapshot(w) \/ Broadcast(w) \/ Interval(w)

Worker(w) == Acquire(w) \/ Probe(w)

Run == Joined \/ Row

Reset(x) == ResetHistory(x) \/ ResetStats(x)

Exited == main = "done" /\ (\A x \in Resetters : rpc[x] = "done") /\ UNCHANGED vars

Next ==
  \/ Cancel
  \/ \E w \in Workers : Worker(w)
  \/ Run
  \/ \E x \in Resetters : Reset(x)
  \/ Exited

Spec == Init /\ [][Next]_vars

(* Every Ping has a timeout, every wait a timer.  A channel hands a freed  *)
(* slot to the sender that waited longest: strong fairness for Acquire.    *)
FairSpec ==
  /\ Spec
  /\ \A w \in Workers : WF_vars(Probe(w)) /\ SF_vars(Acquire(w))
  /\ WF_vars(Run)
-----------------------------------------------------------------------------
Holding == {"ping", "backoff", "reping", "release"}

TypeOK ==
  /\ opts \in Options
  /\ cancelled \in BOOLEAN
  /\ sem \in Nat
  /\ pc \in [Workers -> PC]
  /\ attempt \in [Workers -> Nat]
  /\ res \in [Workers -> Outcomes]
  /\ ok \in [Workers -> Nat]
  /\ bad \in [Workers -> Nat]
  /\ streak \in [Workers -> Nat]
  /\ snap \in [Workers -> [ok : Nat, bad : Nat]]
  /\ history \in Seq([worker : Workers, verdict : Outcomes, ok : Nat, bad : Nat])
  /\ main \in {"wait", "summary", "done"}
  /\ table \in Seq([ok : Nat, bad : Nat])
  /\ Len(table) <= N
  /\ rpc \in [Resetters -> {"idle", "stats", "done"}]
  /\ next \in [Resetters -> 1 .. N + 1]
  /\ log \in [Workers -> Seq(Outcomes)]
  /\ resetAt \in [Workers -> Nat]
  /\ late \in [Workers -> Nat]

NoReset == \A x \in Resetters : rpc[x] = "idle"

(* The positions of a log l from which only failures follow, up to i.      *)
Streak(l, from, i) == {j \in from .. i : \A k \in j .. i : l[k] = "fail"}

(* docs/CONCURRENCY.md:84: at most --concurrency targets are probed at the *)
(* same time; retries and their waits keep the slot, and every way out of  *)
(* them, the cancelled one too, gives it back exactly once.                *)
ProbesBounded ==
  opts.concurrency > 0 =>
    /\ sem = Cardinality({w \in Workers : pc[w] \in Holding})
    /\ sem <= opts.concurrency

(* Each worker counts its own probes, once each, as what they came to      *)
(* after their retries; resets that work through the fleet while it is     *)
(* probed lose nothing and double nothing (RecordSuccess, RecordFailure,   *)
(* Statistics.Reset).                                                      *)
CountersFollowLog ==
  \A w \in Workers :
    LET since == resetAt[w] + 1 .. Len(log[w]) IN
    /\ ok[w] = Cardinality({i \in since : log[w][i] = "ok"})
    /\ bad[w] = Cardinality({i \in since : log[w][i] = "fail"})
    /\ streak[w] = Cardinality(Streak(log[w], resetAt[w] + 1, Len(log[w])))

(* docs/CONCURRENCY.md:83: --count applies to each target on its own, and  *)
(* a target that is given up does not end the probing of the others: a     *)
(* worker ends before its count only when the run was cancelled or its own *)
(* last probes failed.                                                     *)
WorkersIndependent ==
  \A w \in Workers :
    /\ opts.quit > 0 => Len(log[w]) <= opts.quit
    /\ pc[w] = "done" /\ ~cancelled =>
         \/ opts.quit > 0 /\ Len(log[w]) = opts.quit
         \/ /\ opts.maxFails > 0
            /\ Cardinality(Streak(log[w], 1, Len(log[w]))) >= opts.maxFails

(* After the interrupt a worker begins at most one more probe, the one for *)
(* which it was waiting to get a slot; without --concurrency none (the     *)
(* select at the head of the loop, the wait for the semaphore).            *)
AtMostOneLateProbe ==
  \A w \in Workers : late[w] <= IF opts.concurrency = 0 THEN 0 ELSE 1

(* The totals of the first k probes of a log.                              *)
Totals(l, k) == [ok |-> Cardinality({i \in 1 .. k : l[i] = "ok"}),
                 bad |-> Cardinality({i \in 1 .. k : l[i] = "fail"})]

(* As long as nobody resets, the events of a target are its probes, in     *)
(* order, each with the totals up to it, the probe that made the worker    *)
(* give up excepted (onMultiProbe, Limit).                                 *)
EventsOf(w) == {i \in DOMAIN history : history[i].worker = w}
EventsMatchProbes ==
  NoReset => \A w \in Workers :
    /\ pc[w] = "interval" => Cardinality(EventsOf(w)) = Len(log[w])
    /\ \A i \in EventsOf(w) :
         LET k == Cardinality(EventsOf(w) \cap 1 .. i)
         IN  history[i] = [worker |-> w, verdict |-> log[w][k],
                           ok |-> Totals(log[w], k).ok, bad |-> Totals(log[w], k).bad]

(* docs/CONCURRENCY.md:83: "The orchestrator cleanly waits for all workers *)
(* to finish before rendering the summary table": no probe is missing from *)
(* its row, whoever was slowest (wg.Wait, PrintSummaryTable).              *)
SummaryIsFinal ==
  NoReset => \A w \in 1 .. Len(table) : table[w] = Totals(log[w], Len(log[w]))

(* A worker stops for a reason of its own or for the interrupt, neither    *)
(* too early nor, by more than the probe it was waiting to begin, too late *)
(* (Run).                                                                  *)
WorkersStop == WorkersIndependent /\ AtMostOneLateProbe

(* What is told of the probes is what they were, probe by probe to those   *)
(* who watch and in sum at the end (onMultiProbe, PrintSummaryTable).      *)
ReportsMatchProbes == EventsMatchProbes /\ SummaryIsFinal

(* An interrupt ends the run and prints the summary, whoever holds the     *)
(* slots, and so does --count (Run, SleepWithContext).                     *)
RunEnds == cancelled \/ opts.quit > 0 ~> main = "done"

=============================================================================
