---------------------------- MODULE DynamicEngine ----------------------------
(***************************************************************************)
(* On-demand probes: POST /api/v1/trigger (handleTrigger in                *)
(* pkg/web/server.go, DynamicEngine.Execute in pkg/engine/dynamic.go), the *)
(* statistics its requests share (pkg/engine/registry.go,                  *)
(* pkg/stats/stats.go), and POST /api/v1/reset (handleReset).              *)
(*                                                                         *)
(* A client is one trigger request and runs in a goroutine of its own.     *)
(* Requests share the semaphore e.sem, the registry (r.mu), the counters   *)
(* of a target (Statistics.Mu) and the event history (Broadcaster.mu).     *)
(* Each critical section of one of these is an action; the code between    *)
(* two of them is folded into the earlier one.                             *)
(***************************************************************************)
EXTENDS Naturals, Sequences, FiniteSets

CONSTANTS
  Clients,          \* the trigger requests that may arrive
  Stuck,            \* those that, once they have a slot, need not return
  Resetters,        \* the reset requests that may arrive
  Targets,          \* target keys, "host:port"
  MaxConcurrency,   \* capacity of the semaphore (--trigger-concurrency)
  MaxCount,         \* bound: largest count of a request
  MaxRetries,       \* bound: largest retries of a request
  Plans             \* the request bodies that may be sent

Plan == [target : Targets, valid : BOOLEAN, traceroute : BOOLEAN,
         count : 0..MaxCount, retries : 0..MaxRetries, sla : BOOLEAN,
         broadcast : BOOLEAN]

ASSUME EngineAssumption ==
  /\ IsFiniteSet(Clients)
  /\ Stuck \subseteq Clients
  /\ MaxConcurrency \in Nat \ {0}
  /\ MaxCount \in Nat \ {0}
  /\ MaxRetries \in Nat
  /\ Plans \subseteq Plan

VARIABLES
  plan,             \* plan[c]: the decoded body of request c
  pc,               \* control state of each request
  gone,             \* the requests whose context is done (client left)
  sem,              \* number of tokens in e.sem
  known,            \* keys of DynamicTargetRegistry.stats
  stats,            \* stats[t]: successes and failures counted for t
  iter,             \* iter[c]: the loop variable i of Execute
  attempt,          \* attempt[c]: the retry attempt under way, 0 if none
  res,              \* res[c]: outcome of the probe (lastRes after the loop)
  items,            \* items[c]: probeItems, one verdict per iteration
  snap,             \* snap[c]: the latest Snapshot of the counters
  reply,            \* reply[c]: what the client is told
  history,          \* the events broadcast, oldest first
  rpc,              \* control state of each reset request
  todo,             \* todo[x]: the targets reset request x still has to reset
  erased,           \* erased[t]: probes of t whose counts were reset so far
  mark              \* mark[x][t]: probes of t counted when reset x arrived

job == <<plan, iter, attempt, res, items, snap, reply>>
shared == <<known, stats, history, erased>>
resetting == <<rpc, todo, mark>>
vars == <<plan, pc, gone, sem, known, stats, iter, attempt, res, items, snap,
          reply, history, rpc, todo, erased, mark>>

PC == {"idle", "acquire", "resolve", "trace", "ping", "backoff", "reping",
       "record", "details", "snapshot", "broadcast", "interval", "final",
       "done"}

(* ok: the probe got its answer in time; slow: it did, but its round trip  *)
(* breached max_latency; fail: Pinger.Ping returned an error.              *)
Outcomes(c) == IF plan[c].sla THEN {"ok", "slow", "fail"} ELSE {"ok", "fail"}

(* What an iteration counts as in the end: !isFailure.                     *)
Verdicts == {"good", "bad"}
Verdict(c) == IF res[c] = "ok" THEN "good" ELSE "bad"

Zero == [good |-> 0, bad |-> 0]
Total(counts) == counts.good + counts.bad

Init ==
  /\ plan \in [Clients -> Plans]
  /\ pc = [c \in Clients |-> "idle"]
  /\ gone = {}
  /\ sem = 0
  /\ known = {}
  /\ stats = [t \in Targets |-> Zero]
  /\ iter = [c \in Clients |-> 1]
  /\ attempt = [c \in Clients |-> 0]
  /\ res = [c \in Clients |-> "fail"]
  /\ items = [c \in Clients |-> <<>>]
  /\ snap = [c \in Clients |-> Zero]
  /\ reply = [c \in Clients |-> "none"]
  /\ history = <<>>
  /\ rpc = [x \in Resetters |-> "idle"]
  /\ todo = [x \in Resetters |-> {}]
  /\ erased = [t \in Targets |-> 0]
  /\ mark = [x \in Resetters |-> [t \in Targets |-> 0]]

Goto(c, label) == pc' = [pc EXCEPT ![c] = label]
Answer(c, kind) == reply' = [reply EXCEPT ![c] = kind]
Count(c) == IF plan[c].count = 0 THEN 1 ELSE plan[c].count
-----------------------------------------------------------------------------
(* handleTrigger calls Execute, which first looks at the context.          *)
Start(c) ==
  /\ pc[c] = "idle"
  /\ IF c \in gone
     THEN Goto(c, "done") /\ Answer(c, "aborted")
     ELSE Goto(c, "acquire") /\ UNCHANGED reply
  /\ UNCHANGED <<plan, gone, sem, shared, resetting, iter, attempt, res,
                 items, snap>>

(* The client closes its connection: net/http cancels r.Context().         *)
ClientLeaves(c) ==
  /\ pc[c] # "done"
  /\ c \notin gone
  /\ gone' = gone \cup {c}
  /\ UNCHANGED <<pc, sem, job, shared, resetting>>

(* case e.sem <- struct{}{}                                                *)
Acquire(c) ==
  /\ pc[c] = "acquire"
  /\ sem < MaxConcurrency
  /\ sem' = sem + 1
  /\ Goto(c, "resolve")
  /\ UNCHANGED <<gone, job, shared, resetting>>

(* Mutant of AbortWaiting: a waiting request that left takes a slot first. *)
AbortHoldingSlot(c) ==
  /\ pc[c] = "acquire"
  /\ c \in gone
  /\ sem < MaxConcurrency
  /\ sem' = sem + 1
  /\ Goto(c, "done")
  /\ Answer(c, "aborted")
  /\ UNCHANGED <<plan, gone, shared, resetting, iter, attempt, res, items,
                 snap>>

(* case <-ctx.Done() while waiting for a slot.                             *)
AbortWaiting(c) ==
  /\ pc[c] = "acquire"
  /\ c \in gone
  /\ Goto(c, "done")
  /\ Answer(c, "aborted")
  /\ UNCHANGED <<plan, gone, sem, shared, resetting, iter, attempt, res,
                 items, snap>>

(* Mutant of Return: the slot is not given back.                           *)
ReturnKeepingSlot(c, kind) ==
  /\ Goto(c, "done")
  /\ Answer(c, kind)
  /\ UNCHANGED sem

(* Execute returns: the deferred receive gives the slot back.              *)
Return(c, kind) ==
  /\ Goto(c, "done")
  /\ Answer(c, kind)
  /\ sem' = sem - 1

(* resolveTriggerTarget fails, or the request is a traceroute, or the      *)
(* statistics of its target are looked up, and created when missing.       *)
Resolve(c) ==
  /\ pc[c] = "resolve"
  /\ \/ /\ ~plan[c].valid
        /\ Return(c, "invalid")
        /\ UNCHANGED known
     \/ /\ plan[c].valid /\ plan[c].traceroute
        /\ Goto(c, "trace")
        /\ UNCHANGED <<sem, reply, known>>
     \/ /\ plan[c].valid /\ ~plan[c].traceroute
        /\ known' = known \cup {plan[c].target}
        /\ Goto(c, "ping")
        /\ UNCHANGED <<sem, reply>>
  /\ UNCHANGED <<plan, gone, stats, iter, attempt, res, items, snap, history,
                 erased, resetting>>

(* executeTraceroute answers without touching the statistics.              *)
Trace(c) ==
  /\ pc[c] = "trace"
  /\ Return(c, "answered")
  /\ UNCHANGED <<plan, gone, shared, resetting, iter, attempt, res, items,
                 snap>>
-----------------------------------------------------------------------------
(* The first Ping of iteration i returns.  Only an error of the prober is  *)
(* retried, a breach of max_latency is not.  A prober may answer whether   *)
(* or not the client is still there (ICMP ignores its context).            *)
Ping(c) ==
  /\ pc[c] = "ping"
  /\ \E o \in Outcomes(c) :
       /\ res' = [res EXCEPT ![c] = o]
       /\ IF o = "fail" /\ plan[c].retries > 0
          THEN attempt' = [attempt EXCEPT ![c] = 1] /\ Goto(c, "backoff")
          ELSE UNCHANGED attempt /\ Goto(c, "record")
  /\ UNCHANGED <<plan, gone, sem, shared, resetting, iter, items, snap, reply>>

(* SleepWithContext: the timer fires, or the context ends the retries.     *)
Backoff(c) ==
  /\ pc[c] = "backoff"
  /\ \/ Goto(c, "reping") /\ UNCHANGED attempt
     \/ c \in gone /\ Goto(c, "record") /\ attempt' = [attempt EXCEPT ![c] = 0]
  /\ UNCHANGED <<plan, gone, sem, shared, resetting, iter, res, items, snap,
                 reply>>

(* A retry returns; from here on a breach of max_latency is retried too.   *)
Reping(c) ==
  /\ pc[c] = "reping"
  /\ \E o \in Outcomes(c) :
       /\ res' = [res EXCEPT ![c] = o]
       /\ IF o # "ok" /\ attempt[c] < plan[c].retries
          THEN attempt' = [attempt EXCEPT ![c] = @ + 1] /\ Goto(c, "backoff")
          ELSE attempt' = [attempt EXCEPT ![c] = 0] /\ Goto(c, "record")
  /\ UNCHANGED <<plan, gone, sem, shared, resetting, iter, items, snap, reply>>

(* Mutant of Record: the counters are those of the last snapshot, plus one.*)
RecordFromSnapshot(c) ==
  /\ pc[c] = "record"
  /\ stats' = [stats EXCEPT ![plan[c].target] =
                               [snap[c] EXCEPT ![Verdict(c)] = @ + 1]]
  /\ Goto(c, IF res[c] = "ok" THEN "details" ELSE "snapshot")
  /\ UNCHANGED <<gone, sem, job, known, history, erased, resetting>>

(* The outcome of the iteration is counted under stat.Mu: RecordSuccess,   *)
(* or the failure section of Execute.                                      *)
Record(c) ==
  /\ pc[c] = "record"
  /\ stats' = [stats EXCEPT ![plan[c].target][Verdict(c)] = @ + 1]
  /\ Goto(c, IF res[c] = "ok" THEN "details" ELSE "snapshot")
  /\ UNCHANGED <<gone, sem, job, known, history, erased, resetting>>

(* The second critical section of a success stores the Latest... fields,   *)
(* which are not modelled; others may come in between.                     *)
Details(c) ==
  /\ pc[c] = "details"
  /\ Goto(c, "snapshot")
  /\ UNCHANGED <<gone, sem, job, shared, resetting>>

(* Mutant of NextRound: one iteration too many.                            *)
NextRoundOneMore(c) == Goto(c, IF iter[c] <= Count(c) THEN "interval" ELSE "final")

(* The end of one iteration of the probe loop.                             *)
NextRound(c) == Goto(c, IF iter[c] < Count(c) THEN "interval" ELSE "final")

(* Mutant of TakeSnapshot: the snapshot is hoisted out of the loop.        *)
TakeSnapshotOnce(c) ==
  /\ pc[c] = "snapshot"
  /\ snap' = [snap EXCEPT ![c] = IF iter[c] = 1 THEN stats[plan[c].target] ELSE @]
  /\ items' = [items EXCEPT ![c] = Append(@, Verdict(c))]
  /\ IF plan[c].broadcast THEN Goto(c, "broadcast") ELSE NextRound(c)
  /\ UNCHANGED <<plan, gone, sem, shared, resetting, iter, attempt, res, reply>>

(* stat.Snapshot(), and the item is appended to probeItems.                *)
TakeSnapshot(c) ==
  /\ pc[c] = "snapshot"
  /\ snap' = [snap EXCEPT ![c] = stats[plan[c].target]]
  /\ items' = [items EXCEPT ![c] = Append(@, Verdict(c))]
  /\ IF plan[c].broadcast THEN Goto(c, "broadcast") ELSE NextRound(c)
  /\ UNCHANGED <<plan, gone, sem, shared, resetting, iter, attempt, res, reply>>

(* e.broadcaster.Broadcast of an event that carries the snapshot's totals. *)
Broadcast(c) ==
  /\ pc[c] = "broadcast"
  /\ history' = Append(history, [from |-> c, target |-> plan[c].target,
                                 verdict |-> Verdict(c),
                                 sequence |-> Total(snap[c])])
  /\ NextRound(c)
  /\ UNCHANGED <<gone, sem, job, known, stats, erased, resetting>>

(* The wait between two iterations.  The break of case <-ctx.Done() leaves *)
(* the select, not the loop: the next iteration starts in either case.     *)
Interval(c) ==
  /\ pc[c] = "interval"
  /\ iter' = [iter EXCEPT ![c] = @ + 1]
  /\ Goto(c, "ping")
  /\ UNCHANGED <<plan, gone, sem, shared, resetting, attempt, res, items,
                 snap, reply>>

(* The last snapshot and the answer.                                       *)
Finish(c) ==
  /\ pc[c] = "final"
  /\ snap' = [snap EXCEPT ![c] = stats[plan[c].target]]
  /\ Return(c, "answered")
  /\ UNCHANGED <<plan, gone, shared, resetting, iter, attempt, res, items>>
-----------------------------------------------------------------------------
(* handleReset: the history goes first, then the list of the targets is    *)
(* taken, then they are reset one by one.                                  *)
ResetHistory(x) ==
  /\ rpc[x] = "idle"
  /\ history' = <<>>
  /\ mark' = [mark EXCEPT ![x] = [t \in Targets |-> erased[t] + Total(stats[t])]]
  /\ rpc' = [rpc EXCEPT ![x] = "list"]
  /\ UNCHANGED <<pc, gone, sem, job, known, stats, todo, erased>>

(* Mutant of ListTargets: targets that are being probed are left out.      *)
ListIdleTargets(x) ==
  /\ rpc[x] = "list"
  /\ todo' = [todo EXCEPT ![x] = known \ {plan[c].target :
                                   c \in {d \in Clients : pc[d] = "interval"}}]
  /\ rpc' = [rpc EXCEPT ![x] = "reset"]
  /\ UNCHANGED <<pc, gone, sem, job, shared, mark>>

(* s.targetsSupplier(): GetFleetTargets copies the map under r.mu.         *)
ListTargets(x) ==
  /\ rpc[x] = "list"
  /\ todo' = [todo EXCEPT ![x] = known]
  /\ rpc' = [rpc EXCEPT ![x] = "reset"]
  /\ UNCHANGED <<pc, gone, sem, job, shared, mark>>

ResetTarget(x) ==
  /\ rpc[x] = "reset"
  /\ \E t \in todo[x] :
       /\ stats' = [stats EXCEPT ![t] = Zero]
       /\ erased' = [erased EXCEPT ![t] = @ + Total(stats[t])]
       /\ todo' = [todo EXCEPT ![x] = @ \ {t}]
  /\ UNCHANGED <<pc, gone, sem, job, known, history, rpc, mark>>

ResetAnswers(x) ==
  /\ rpc[x] = "reset"
  /\ todo[x] = {}
  /\ rpc' = [rpc EXCEPT ![x] = "done"]
  /\ UNCHANGED <<pc, gone, sem, job, shared, todo, mark>>

(* What a request does on its own once it has a slot.                      *)
Work(c) ==
  \/ Resolve(c) \/ Trace(c) \/ Ping(c) \/ Backoff(c) \/ Reping(c)
  \/ Record(c) \/ Details(c) \/ TakeSnapshot(c) \/ Broadcast(c)
  \/ Interval(c) \/ Finish(c)

Execute(c) == Start(c) \/ Acquire(c) \/ AbortWaiting(c) \/ Work(c)

Reset(x) == ResetHistory(x) \/ ListTargets(x) \/ ResetTarget(x) \/ ResetAnswers(x)

(* Everybody was answered: nothing is left to happen.                      *)
AllAnswered ==
  /\ \A c \in Clients : pc[c] = "done"
  /\ \A x \in Resetters : rpc[x] = "done"
  /\ UNCHANGED vars

Next ==
  \/ \E c \in Clients : Execute(c) \/ ClientLeaves(c)
  \/ \E x \in Resetters : Reset(x)
  \/ AllAnswered

Spec == Init /\ [][Next]_vars

(* A prober gives up at its timeout and every wait of Execute has one, so  *)
(* a request that holds a slot goes on, unless it is one of those that are *)
(* stuck (a resolver or a socket that never answers).  A channel with      *)
(* waiting senders gives a freed slot to the sender that waited longest,   *)
(* so no request is passed over for ever: strong fairness for Acquire.     *)
FairSpec ==
  /\ Spec
  /\ \A c \in Clients : SF_vars(Acquire(c)) /\ WF_vars(AbortWaiting(c))
  /\ \A c \in Clients \ Stuck : WF_vars(Work(c))
-----------------------------------------------------------------------------
Running == PC \ {"idle", "acquire", "done"}

TypeOK ==
  /\ plan \in [Clients -> Plan]
  /\ pc \in [Clients -> PC]
  /\ gone \subseteq Clients
  /\ sem \in 0..MaxConcurrency
  /\ known \subseteq Targets
  /\ stats \in [Targets -> [good : Nat, bad : Nat]]
  /\ iter \in [Clients -> Nat]
  /\ attempt \in [Clients -> Nat]
  /\ res \in [Clients -> {"ok", "slow", "fail"}]
  /\ items \in [Clients -> Seq(Verdicts)]
  /\ snap \in [Clients -> [good : Nat, bad : Nat]]
  /\ reply \in [Clients -> {"none", "aborted", "invalid", "answered"}]
  /\ history \in Seq([from : Clients, target : Targets, verdict : Verdicts,
                      sequence : Nat])
  /\ rpc \in [Resetters -> {"idle", "list", "reset", "done"}]
  /\ todo \in [Resetters -> SUBSET Targets]
  /\ erased \in [Targets -> Nat]
  /\ mark \in [Resetters -> [Targets -> Nat]]

(* The tokens in the semaphore are exactly the requests between their      *)
(* acquisition and their return, whichever way they return: no path leaks  *)
(* a slot, none gives one back twice (Execute, TESTING.md:196).            *)
SlotsAccounted == sem = Cardinality({c \in Clients : pc[c] \in Running})

(* The outcomes request c has counted so far, one per iteration.           *)
Outcome(c) == IF pc[c] \in {"details", "snapshot"}
              THEN Append(items[c], Verdict(c)) ELSE items[c]

(* The iterations on target t that were counted as v.                      *)
Probes(t, v) ==
  {p \in Clients \X (1..MaxCount) :
     /\ plan[p[1]].target = t
     /\ p[2] <= Len(Outcome(p[1]))
     /\ Outcome(p[1])[p[2]] = v}

(* However requests on one target interleave, with each other and with     *)
(* resets, an iteration is counted exactly once, whatever its retries: no  *)
(* update is lost and none is doubled (Record; Statistics.Mu).             *)
EveryProbeCountedOnce ==
  \A t \in Targets :
    Total(stats[t]) + erased[t] =
      Cardinality(Probes(t, "good")) + Cardinality(Probes(t, "bad"))

NoReset == \A x \in Resetters : rpc[x] = "idle"

(* An answered request reports exactly the probes it was asked for, even   *)
(* when its client left half-way (the loop of Execute, TESTING.md:198).    *)
AnswerIsComplete ==
  \A c \in Clients :
    Len(items[c]) <= Count(c) /\
    (reply[c] = "answered" /\ ~plan[c].traceroute => Len(items[c]) = Count(c))

(* Until somebody resets the counters, no event announces more probes than *)
(* its target has counted, and the events of one request bear growing      *)
(* numbers (Snapshot before Broadcast in each iteration).                  *)
EventsFollowCounters ==
  NoReset =>
    /\ \A i \in 1..Len(history) :
         history[i].sequence <= Total(stats[history[i].target])
    /\ \A i, j \in 1..Len(history) :
         i < j /\ history[i].from = history[j].from
           => history[i].sequence < history[j].sequence

(* When a reset has answered, everything that had been counted when it     *)
(* arrived is gone from the counters, for targets that requests created or *)
(* probed meanwhile too (handleReset, GetFleetTargets).                    *)
ResetErases ==
  \A x \in Resetters : rpc[x] = "done" => \A t \in Targets : mark[x][t] <= erased[t]

(* Every trigger request is answered, however many compete for the slots,  *)
(* unless every slot is held by a request that is stuck: a stuck request   *)
(* costs its own slot and no other (Execute frees its slot on every path). *)
EveryRequestAnswered ==
  \A c \in Clients \ Stuck :
    pc[c] = "acquire" ~>
      pc[c] = "done" \/ Cardinality({s \in Stuck : pc[s] \in Running}) = MaxConcurrency

(* A client that leaves while all slots are taken does not have to wait    *)
(* for one, even if the holders never return (TESTING.md:196).             *)
WaiterCanLeave ==
  \A c \in Clients : (pc[c] = "acquire" /\ c \in gone) ~> (pc[c] # "acquire")

(* docs/API_TRIGGER.md:188: a reset "Resets telemetry metrics, history     *)
(* ring buffer, and counters".  The history is cleared before the counters *)
(* are, and a request broadcasts totals it read earlier: old totals can    *)
(* stand in the history of a dashboard that was just reset.                *)
ResetLeavesNoTrace ==
  (\A x \in Resetters : rpc[x] \in {"idle", "done"}) =>
    \A i \in 1..Len(history) :
      history[i].sequence <= Total(stats[history[i].target])
=============================================================================
