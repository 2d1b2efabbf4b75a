# netping in TLA+

This directory is a verification development for `netping`, a connectivity
prober with some two dozen protocols, a fleet mode, a web dashboard and an HTTP API that
probes on demand. It models the parts of the program whose correctness depends
on order: what goroutines do to shared counters, channels, slots and files, what
an interrupt, a reset, a crash or a client that leaves does to them, what every
protocol prober exchanges with its peer and in what time, and how a command line
becomes targets and a mode. TLC checks every module on small instances, and
TLAPS proves every safety invariant that the passing runs check for every value of
the constants.

All paths below are relative to the root of the repository (`src/` in
`PROJECT.json`). `PROJECT.json` is the index: it maps every definition that
models code to its lines, names the runs, for every property a mutant of the
code that breaks it, and the hazards each property is for.

## 1. The system

### 1.1 Components

| Component | Source | State | Operations | Used by |
|---|---|---|---|---|
| Single-target prober | `pkg/probers/probers.go`, `pkg/stats/stats.go`, `pkg/utils/utils.go` | `Statistics` behind `Statistics.Mu`: counters, streak, current outage, longest outage, uptime | `Probe` (loop of ticks with retries, limits, re-resolution), `finalizeStatistics`, `RecordSuccess`, `RecordFailure`, `Snapshot`, `Reset` | `main` (single mode), printers, broadcaster, metrics |
| Multi-target prober | `pkg/probers/multi_prober.go` | one `Statistics` per worker, a semaphore, a `WaitGroup` | `Run`, `PrintSummaryTable` | `main` (fleet mode) |
| Dynamic trigger engine | `pkg/engine/dynamic.go`, `pkg/engine/registry.go` | a semaphore, a registry of `Statistics` per target | `Execute`, `executeTraceroute`, registry calls | web server |
| Event broadcaster | `pkg/web/broadcaster.go` | history (a bounded slice), map of subscriber channels | `Broadcast`, `Subscribe`, `Unsubscribe`, `SetMaxHistory`, `ClearHistory`, `GetHistory`, `GetProbes` | probers, engine, web server |
| Web server | `pkg/web/server.go` | none of its own, references to the others | stream, trigger, reset, history configuration, metrics, targets, probes, export, docs, authentication | browsers, API clients |
| API keystore | `pkg/auth/*.go` | the keystore file, `ks.keys`, `ks.lastModTime`, a cache of verifications | `AddKey`/`saveLocked` (in `--generate-api-key`), `Reload`, `ValidateKey`, `VerifyKey` | web server, `main` |
| Printers | `internal/printers/*.go` | open files, buffered writers, a SQLite connection | `PrintProbeSuccess/Failure`, `PrintStatistics`, `Done` | probers, `main`, Enter key |
| Terminal dashboards | `internal/printers/dashboard.go`, `export.go` | a Bubble Tea model, `closed`, `cancel` | `Update`, `View`, `Send`, `Close`, exports of the session | probers, `main` |
| Metrics | `pkg/metrics/prometheus.go` | none | one page per scrape | Prometheus |
| Name resolution | `internal/dns/dns.go` | resolver options | `ResolveHostname`, `RetryResolveHostname` | probers, engine |
| Configuration | `internal/config/*.go`, `internal/nic`, `pkg/consts` | none after the start | argument permutation, flags, protocol and port resolution, target pool, source address | `main`, engine |
| Protocol probers | `pkg/probers/<protocol>.go`, `factory.go`, `traceroute.go` | a connection and its deadline for the time of a `Ping` | `BuildPinger`, `Ping` | every prober loop |
| Process | `cmd/netping.go`, `internal/app/app.go` | the mode, the context of the interrupt | start, modes, exit codes | |

### 1.2 How they interact

    main ── Prober.Probe ─────────┐            ┌─ printers (CSV, SQLite, terminal)
        ├─ MultiProber.Run ───────┤ Statistics ┼─ metrics page
        └─ web.Server ─ Engine ───┘   (Mu)     └─ Broadcaster ── SSE handlers ── browsers
             │  └─ Keystore (file) ── netping --generate-api-key
             └─ POST /reset: Broadcaster.ClearHistory, Statistics.Reset of every target

A probe is counted under `Statistics.Mu`, read again with `Snapshot`, and sent
as an event to the broadcaster, which appends it to the history and offers it to
every subscriber without waiting. Handlers, probers, trigger requests, resets
and the Enter key are goroutines; they meet at five mutexes, two semaphores, the
subscriber channels and the context that the interrupt cancels. Key generation
and the listener are different processes that meet at a file.

### 1.3 What is hard

* Three critical sections per probe (count, snapshot, broadcast) and two or
  three per outage, between which others count, reset or read.
* Slots of a semaphore that are taken by requests that leave, back off, fail to
  resolve or hang, and the interrupt that arrives in every one of these places.
* Buffers at their limit: subscriber channels, the history, the limit lowered
  below what is stored.
* A file replaced by rename while others read it, removed and rewritten in place when
  a rename fails, torn by a crash, or written by two generators at once.
* Several ways to leave the process, of which only one runs deferred calls.
* An event loop that takes messages only while it runs, fed by goroutines that
  wait for it with the lock held that its end needs.
* Dialogues of up to a dozen messages in which the peer may answer anything, stop
  or close at every step, under up to three clocks at once: the deadline of the
  connection, the context, the dialer's timeout.
* Options whose effects meet: names, ports and protocols of different numbers,
  clusters whose lookup fails, sources and destinations of two address families.

### 1.4 What makes each part correct

* Broadcaster: the history is exactly the newest events; channels are never
  written to after they are closed; streams are in order and lose events only
  behind a full buffer; a handler always gives its channel back.
* Engine: one slot per running request and none leaked; each iteration counted
  once; an answer has the probes that were asked for; a reset erases what had been
  counted when it arrived.
* Prober: counters and streak are those of the log of probes since the last reset;
  downtime and longest outage are those of the log whatever resets do; the run ends
  on `--count`, on `--max-consecutive-fails` and on the interrupt.
* Multi-target prober: at most `--concurrency` probes at a time; workers are
  independent; the summary comes last and is complete; the interrupt ends the run.
* Keystore: as long as keys are generated one at a time and no in-place rewrite was
  cut short, the file is whole and exactly the keys whose generation succeeded, and
  every request is judged by the file as it is; a listener never ends up with no keys
  because it looked at the wrong moment.
* Printers and exit: every probe reaches the disk, totals are those of the log,
  the exit code says what happened.
* Terminal dashboards: the screen shows every probe of a target in order; an
  export is consistent in itself although probing goes on; a key or a signal ends
  the run, whoever waits for whom.
* Protocol probers: up only after the peer did what shows a live service of that
  protocol; a call that somebody watches is over in time; diagnostics neither take
  the verdict back nor count as latency; no answer ends the process (in some
  probers one does: section 3).
* Configuration and start: every option has the value given last; exactly the
  targets asked for are probed; mode, family and source fit what was asked for.

The hazards at their lines are in `PROJECT.json`, "hazards".

## 2. The modules

| Module | Models | Abstract specification | Proofs |
|---|---|---|---|
| `Broadcaster` | broadcaster and stream handlers | `LossyFeed` | `BroadcasterProofs` |
| `DynamicEngine` | trigger requests, registry, resets | | `DynamicEngineProofs` |
| `Prober` | `Prober.Probe` with its statistics | `OutageLedger` | `ProberProofs` |
| `MultiProber` | `MultiProber.Run` with its statistics | | `MultiProberProofs` |
| `Keystore` | the keystore file, generators, listener | | `KeystoreProofs` |
| `Outputs` | CSV, SQLite, Enter, the end of the process | | `OutputsProofs` |
| `Dashboard` | the terminal dashboards, their event loop and exports | | `DashboardProofs` |
| `Dialogue` | one call of `Ping` of any prober, against its peer and the clock | `ProbeContract` | `DialogueProofs` |
| `Steps`, `TextScripts`, `WireScripts`, `HttpScripts`, `Factory` | what each prober does: its script, and which one `BuildPinger` builds | | |
| `Startup` | from the arguments to the mode | | second part of `DialogueProofs` |
| `CommandLine`, `TargetPool`, `Protocols` | the flags, the words of the pool of targets, the protocol tables | | |

The `MC*` modules give the constants of each their values for TLC. Operators
whose comment begins with "Mutant of" are plausible bugs, at least one for each
checked property, none of them reachable from the specification. They are there to show
that the property can fail.

### 2.1 Broadcaster

State: `history`, `maxHistory` and `subscribers` are the fields of
`Broadcaster`; `buf[s]` is the channel of stream `s`, `closed` the set of
channels that were closed, `pc[s]` the place of the handler in `handleStream`,
`gone` the clients whose request context is done. An event is its number.
`Broadcast` is one action because the code holds `mu` throughout, the
non-blocking sends included. `Receive` and `WriteReturns` are the two halves of
the handler's loop: in `"write"` it is inside `Write`, which returns at some
time or not. `Unsubscribe` closes and deletes under the same lock.
History variables `taken`, `published`, `since` say what a stream has received,
how many events there were, and when it subscribed.

`LossyFeed` is what clients may rely on: a stream joins once, gets events in
order, may miss any, leaves, and is then quiet. It has no buffers.

### 2.2 DynamicEngine

A client is one trigger request in its own goroutine, and its `plan` the body
it sent. `pc[c]` walks through `Execute`: `acquire` is the select on semaphore
and context, `resolve` and `trace` the preliminaries, then for each iteration
ping, backoff, re-ping, record, details, snapshot, broadcast, interval. `Record`
is `RecordSuccess/RecordFailure`, `Details` the second critical section, both
under `Statistics.Mu`. `ListTargets` is `GetFleetTargets` under `r.mu`, after
which a reset works through its list one target at a time. `erased` and `mark`
are history variables: how many counts resets have erased, and what had been
counted when each reset arrived. `Stuck` requests need not return once they have
a slot: a resolver or socket that hangs.

The context branch inside `Execute`'s loop breaks out of the select and not
out of the loop; the model does the same (`Interval`), which is why
`AnswerIsComplete` can speak of requests whose client left. The property describes
what the code does there; it is not evidence that the code should.

### 2.3 Prober

`pc` walks through the loop of `Probe`; `now` is the clock, which `Tick` moves
on. Every critical section of `Statistics.Mu`, and the two unlocked reads of
`OngoingUnsuccessfulProbes`, are actions of their own, so that a reset can come
between any two. `down, startDown, startUp, totalDown, longestDown, totalUp,
endTime` are the fields of the same purpose; 0 is the zero time, and `Sub` is
`time.Time.Sub` with its saturation at `Forever`. A success that misses the SLA
is the outcome `"slow"`.

`OutageLedger` is an account book of outages: one is open or not; opening
notes the time; closing adds the difference to the total and keeps the longest;
nothing else changes it. The mapping is in `Prober!Ledger`. That resets leave it
alone and that `finalizeStatistics` closes it is what the refinement says.

### 2.4 MultiProber

Each worker has the control states of the goroutine in `Run`; `sem` counts the
tokens, `late` the probes that a worker begins after the interrupt. Resets work
through the fleet as in 2.2. `Joined` is `wg.Wait()` and `Row` one line of the
summary table.

### 2.5 Keystore

Paths lead to inodes; an inode has contents and a modification time. Each
system call of `saveLocked` (create or truncate, write, rename, and the fallback
that removes and rewrites) and of `Reload` (stat, read) is an action. `ks.mu`
orders requests within the listener only. A rename may fail although `path.tmp` is
there, since the code takes the fallback after whatever error, and a removal may
fail, which the code does not look at. Generators may die between any two calls, or
end because a write fails (`Dies`), and an administrator may replace the file
(`Revoke`). `overlap` and `calm` record whether two processes wrote at the same time
and whether the file changed since a request began, `removedBy` whose fallback has
removed the keystore and not yet written it. The first two properties are stated for
runs without overlap; `FileIsExact` also waits for the end of a fallback, and
`JudgedByTheFile` excepts the missing or torn file that one has left. What still holds
of these cases is `NeverLeftWithoutKeys`; section 3 tells what does not.

### 2.6 Outputs

The printer's methods hold its mutex and are one action each. `rows`, `buffered`
and `saved` are the probes on disk, the blocks of statistics in the writer's
buffer and those on disk. Probes are counted, printed and then looked at for the
limit in the order of the mode: a fleet gives up before it prints, a
single-target run after. The targets are `1..MaxTargets` for any `MaxTargets`; `main`
compares the sums over them with 0 only, so `Some` asks whether a target has any.
`Exit` is `os.Exit`; `Return` runs the deferred `Done`.
The Enter key is a goroutine of its own and may come while `main` returns: it
then meets the closed file, and the process ends with status `"crashed"`.

### 2.7 Dashboard

One model for `DashboardPrinter` and `MultiDashboardPrinter`, which differ in
what they send and in when the prober gives up; `opts.targets` says which it is.
`wpc[t]` is the goroutine that probes target `t`, reduced to what concerns the
screen (the rest is in 2.3 and 2.4); `Lock` takes `d.mu` and `Send` is
`Program.Send` with it held, which ends when the event loop takes the message
or when the loop has ended. `prog` is the Bubble Tea program, `runner` the
goroutine that called its `Run` and calls `d.cancel` afterwards, `quitMsg` a
`QuitMsg` that the loop has yet to take. `modal` is `modalState` together with
the chosen format; the six formats are two, since five are written by a process
of their own and SQLite by a goroutine of this one. `shown` is `probeHistory`,
`screen` the clone of the statistics in the single model, `file[e]` what export
`e` captured and `xpc[e]` how far it has come: `"torn"` if the process ended in
the middle, `"lost"` if a terminal interrupt killed the process that saved it.

`main` calls `Close` only after the probing has ended, so that the tests of
`closed` in `PrintProbeSuccess` and `OnProbe` never succeed; they are kept in
`Lock` as the code has them. Resets through the web server are not composed
with the dashboard.

### 2.8 Dialogue

A prober is a script: labels, each with an operation (dial, handshake, read,
write, HTTP request), the time the code gives it, and for every outcome the code
tells apart the label it goes on to. `Steps` has the vocabulary, and the three
`*Scripts` modules have the scripts, some fifty of them, in the order of their `Ping` methods;
a loop over lines or rows is a label that leads to itself. `Factory` is
`BuildPinger`. The names of outcomes are what the code compares: status codes,
first bytes, message types; `"broken"` and `"timeout"` are the errors of an operation.

`Dialogue` runs one script. `at` is the current label, `clock` the time since the
call, `deadline` that of the current step: `Until` says that a dial has the dialer's
timeout, that of `--interface` none, that `SetDeadline` counts from now and
that a step without one keeps what is left. `Limit` adds the context, which only
the operations that are given it watch. The peer is free: `Answer` any outcome,
`Break`, or `Wait` until `Expire`. A script may also lead to one of two places (`Lost`)
from which `Ping` does not return: `"panic"`, an index or a length the decoder does
not check, which ends the process, and `"spin"`, the loop of `parseDNSName` over a name
that points to itself (`Spin`), which looks at no deadline and, if there are labels on
its way, appends them until there is no memory left (`Exhaust`). `Fragile[p]` is the
subset that prober `p` can end in, and `FragileAssumption` says that every other script
leads to neither. It is written down in `MCDialogue` by prober, independently of the
scripts: the panic of Redis, AMQP, MySQL, Oracle and SAP HANA, both of DNS, DoT and DoH.
`heard`, `rtt` and `settled` say what happened, the latency reported, and when the verdict
was certain. `Decisive` (in `MCDialogue`) lists by protocol what the documents count as a
live service (for Kerberos, the comment at `kerberos.go:230`; section 3), and `Budget` when each label is left at the latest, which the module
assumes to be consistent with the scripts and TLC computes from them.

`ProbeContract` is a `Ping` as its caller sees it: it tries, fails at once or
settles, and may then harvest diagnostics before it returns up. Only a fragile one may
crash.

### 2.9 Startup

`CommandLine` has the flags, with the arguments that take a value, and `TargetPool`
what `ResolveTargetPool` makes of the words of `--host`, `--port`, `--uri` and
`--protocol`, which the constants `Items`, `PortOf` and `Url` split and parse.
`Startup` is `ProcessUserInput` and `main`. Each of its loops is an action for one
turn: `PermuteWord`, `PermuteSwitch` and `PermuteValue` look at the argument at `cursor`
and keep its place in `flagArgs` or `nonFlagArgs`, `ParseOne` reads one flag of the
line they make, `Expand` makes the targets of one `turn` of the loops over hosts, ports
and protocols (or over URIs), `Lookup` looks up one of them. `Malformed` has the flags
with a value that does not parse, at which `flag.Parse` exits. `TargetAt` is the target of a
turn, `NextTurn` the order of the loops. `asked[i]` is a history variable: the target
that `pool[i]` is or, if a cluster was expanded, is a node of. `Wanted(o)` says which
targets options `o` ask for, without turns or order: pairs of a port and a protocol
where there are as many of each, all combinations otherwise, each on every host, or
the items of `--uri`, each with its own port. `PoolIsAsked` compares the two as sets.
`Inform`, `Generate`, `Resolve`, `CheckInterval`, `Bind`, `Listen` and `RunProbers` are the stages without a loop;
`step` says which is next. Answers of name servers and failures of files and sockets
are free.

## 3. The runs

Bounds are constants with their names in the `.cfg` files.

| Run | Bounds | Why they are enough |
|---|---|---|
| `broadcaster` | 2 streams, buffers of 2, history of 3 to 4, 4 events | a buffer can overflow, drain and overflow again; the limit is lowered below the stored events; one stream is slow while the other is not |
| `engine` | 2 requests, 1 reset, 2 targets, count at most 2, 1 retry | requests on the same and on different targets, every kind of body, a reset between any two critical sections |
| `engine_slots` | 3 requests for 2 slots, 2 of them may hang | one waits while both slots are held, and both may be held for ever |
| `prober` | 5 configurations, 3 probes, 4 moments, 1 reset, 1 interrupt | two outages or an outage across a reset, an outage ended by the interrupt, a zero-length one |
| `multi` | 2 workers, 1 slot or none, 2 probes each, 1 reset, 1 interrupt | a worker waits while the other retries; one gives up while the other goes on |
| `keystore` | 2 generators, 1 old key, 2 requests | overlapping generators, one that dies and leaves `path.tmp`, one alone whose rename fails and that dies before, in or after its rewrite, a reload that another request overtakes |
| `outputs` | both printers, with and without dashboard, 1 to 3 targets, up to 3 probes each, Enter twice | every combination of end (count of failures, interrupt, all answered) and printer |
| `dashboard` | 1 target with 2 probes, or 2 with 3 in all, 1 export, every key and signal | two senders wait for `d.mu`, one for a loop that ends; an export between two probes; the end by key, signal, count and streak; a program that cannot start |
| `dialogue` | every prober `BuildPinger` builds, with the options that change a script; a timeout of 2 ticks, half a second of 1; both kinds of context and of dialer | every label is reached, with nothing, half or all of its time left; a loop can outlast its deadline; every fragile decoder fails and every other one is shown not to; the fixed allowances fall inside and outside the timeout |
| `startup` | 40 sets of options in every order of their options, every answer to a name, every failure | every refusal of the code, a value that does not parse included; flags before, between and after words; lists of equal and unequal length; clusters by protocol and by scheme, with and without ports, found and not found; interfaces of one family and of both |

`TypeOK` of every module is proved (section 5) and not in the runs.

Runs that must fail show where the code does not do what the repository says:

| Run | The repository says | TLC finds |
|---|---|---|
| `engine_reset_trace` | a reset resets telemetry metrics, history and counters (`docs/API_TRIGGER.md:188`) | an event with totals from before the reset, broadcast after it |
| `config_scheme` | the targets of `--uri ssh://srv1:22,...` are "srv1:22 (SSH)" (`docs/CONCURRENCY.md:49`) | the default of `--protocol` wins over the scheme: the target is probed with TCP |

Disagreements between documents and code that need no run, among them three that
the models show (`TotalUptime`, overlapping generators, lost CSV statistics):

* `TotalUptime`, the "Total accumulated uptime" (`pkg/stats/stats.go:50`), is
  that of the last streak of successes only, and some 292 years if there was
  none, the saturated difference to a zero time (`Prober!Finalize`).
* `AddKey` "atomically appends a new key entry" (`pkg/auth/keystore.go:54`); two
  generators at once lose a key that was announced. After any error of the rename the
  keystore is removed and written in place (`keystore.go:197-204`): a generator that is
  killed between the two leaves no file or a torn one, and all keys are gone from the
  disk. A listener that runs keeps the keys it has; one that starts then has none to go
  by, and a generator on a missing file makes one with its own key only.
* A client that leaves a trigger request between two iterations does not end it
  (`dynamic.go:159` breaks out of the select): the rest are run without a wait, fail
  on the context that is done, and are counted as failures of the target.
* A name of a DNS reply that points to itself (`dns_query.go:170-180`) keeps `--dns`,
  DoT and DoH probes busy past `--timeout`, "per-probe network timeout threshold"
  (`README.md:95`), and, with labels in the loop, until memory is exhausted.
* Exit code 1 covers "panic recovery" (`README.md:56`, `docs/MODERNIZATION.md:143`);
  nothing in the program calls `recover`, so a panic ends it with Go's status 2, without
  deferred calls. Replies shorter than the decoder assumes, or with a length it does
  not check, panic in AMQP (`queue.go:231`, `:243`), Redis (`redis.go:75`), MySQL
  (`db.go:356`), Oracle (`db.go:671`, when upper case is longer) and SAP HANA
  (`db.go:979`), most of them for the sake of a diagnostic only.
* "Interrupts and ends flush every writer through `defer printer.Done()`"
  (`README.md:53`); every end with another exit code than 0 goes through
  `os.Exit`, which skips it, and the CSV statistics are lost.
* Exit codes 3 and 4 (`README.md:58`) are never used: a missing interface ends
  with 2, and an unresolved name is probed on.
* `docs/CONCURRENCY.md:8`: "Bare positional arguments are rejected"; they are
  ignored. `docs/CONCURRENCY.md` has port 39013 for SAP HANA, the table 30015.
* A fleet ignores `--retry-resolve` and `--resolve-every-probe`; without `--ipv4` or
  `--ipv6` source and destination may be of different families.
* `--timeout`: "0 means infinite timeout"; the context of 0 seconds is done at
  once, and the factory makes 2 s of it. "Per-probe network timeout threshold"
  (`README.md:95`): in a fleet the context has no timeout (`multi_prober.go:185`),
  and the dialer of `--interface` none either (`nic.go:108`); it also refuses every
  UDP probe, because its local address is one of TCP (`Dialogue!Mismatched`).
* `README.md:88` has STARTTLS for SMTP, IMAP, POP3 and LDAP; only SMTP does it.
* `docs/KERBEROS.md:219-285` marks codes 1, 2, 4, 5, 8, 9, 18 to 23, 32, 33, 52, 62 to
  64, 66 and 70 to 76 as a success; `kerberos.go:233` reports them as errors.
  `UpIsEarned` goes by the code's list, which `MCDialogue` states on its own
  (`HealthyKdc`), so that a code more or less in the script is noticed.
* `smb.go` speaks of a fallback over several protocols, and there is none; CyberArk's
  comment says "200 OK", and 200 to 499 count.
* Looser than their names: any frame after the ping of `ws.go` is up, any 16 bytes
  of MongoDB, any ICMP packet, any error of a hop but a timeout; a status in the
  trailers of gRPC is not seen; `tcp --expect`, LDAP and AMQP judge one `Read`.
* A refused EHLO, or a `NO` of IMAP, is read past until the deadline; LDAP,
  PostgreSQL, SAP HANA and JWKS have fixed allowances that may exceed it, which is
  why `Patience` is longer than three timeouts. JWKS requests go to the probed
  address, whatever host their URL names.
* The latency of FTP, mail, LDAP, queues and databases contains their diagnostics
  (`Punctual` leaves them out).
* `docs/API_TRIGGER.md:405` promises status 429 when all slots are taken; the
  request waits in `Execute` until it gets one or its client leaves.
* `ARCHITECTURE.md:231` says slow browser clients are dropped; `Broadcast`
  drops the event and keeps the client (this is what `NoEarlyLoss` bounds).
* `README.md:97` has `--max-consecutive-fails` end the run after N failures in a
  row; a reset starts the count over (`StopsInTime` is stated accordingly).
* `docs/CONCURRENCY.md:10` and `:109` describe a single writer fed by a channel;
  the printers are protected by a mutex instead.
* `PrintStart`, which writes the CSV header, is called by tests only.
* `pkg/metrics/prometheus.go:111` calls `netping_up` "Target reachability".
  `DestWasDown` is set by `Prober.Probe` alone, so in a fleet a target that
  answered once is never reported as down again.
* `CHANGELOG.md:76` has exports saved by a detached process "on Windows and
  POSIX"; `setDetachedProcess` is empty except on Windows, and Ctrl+C in the
  restored terminal reaches the saving process too (`Dashboard!Interrupt`).
* "Saved to" is shown once that process was started (`SaveFileAsync` returns
  `cmd.Start()`), before anything is written; at the end of the process the
  rest of the data is dropped and the shortened file looks whole.
* `docs/MODERNIZATION.md:177` has the event log show a sequence number; in the
  single dashboard it is the length of the current streak.
* `cloneStats` is "a safe deep copy" (`dashboard.go:173`) without the DNS, TCP,
  TLS and TTFB times and the HTTP status: they are zero in single exports.
* A program that ends before `SetCancel` was called (no terminal, or the first
  key comes very early) never cancels the run, which goes on without a screen.
* In the single mode the dashboard replaces the CSV or SQLite printer, and
  `--show-failures-only` has no effect (`Outputs!Writes`).

## 4. Fairness

* `Broadcaster`: `WF` of `Broadcast` and `Receive`: a runnable goroutine is
  scheduled. A `Write` returns for certain only once the client is gone, so
  `WriteReturns` is fair only then. `select` picks among ready cases at random,
  so a context that is done is not passed over for ever although events keep
  coming: `SF` of `Unsubscribe`.
* `DynamicEngine`: every ping and wait has a timeout, so the steps of a request
  that holds a slot are `WF`, except for those in `Stuck`. A Go channel serves
  blocked senders first in, first out, so a waiting request is not overtaken for
  ever: `SF` of `Acquire`.
* `Prober`, `MultiProber`: the same reasons; `SF` of `Leave` for the select with
  a tick and a context that are both ready. Resets, interrupts and clients are
  never fair: nothing makes anybody send one.
* `Dashboard`: `WF` of the probing, of the event loop and of `main`. With the
  bound on probes `d.mu` is taken finitely often, so that those who wait for it
  need no more; without it they would rely on `sync.Mutex`, which hands itself
  to whoever has waited for a millisecond. Keys and signals are never fair, and
  nothing waits for an export.
* `Dialogue`: time passes, and an operation whose time is up returns: `WF` of
  `Wait`, `Expire` and the refused dial. No answer is owed by the peer.
* `Keystore`, `Outputs` and `Startup` are checked for safety only.

## 5. What is proved

With `tlapm`, for every value of the constants that the named assumptions
(`BroadcasterAssumption`, `EngineAssumption`, `ProberAssumption`,
`MultiAssumption`, `KeystoreAssumption`, `OutputsAssumption`, `DashboardAssumption`,
and those of `Steps`, `Dialogue`, `TargetPool` and `Startup`) allow: any
number of streams, requests, workers, generators, targets, resets and probes, any
buffer size, any limits and options, any script and timeout. The bounds on
published events, on time and on the number of probes are constants too; the
theorems hold for each value of them.

* `BroadcasterProofs`. The conjunction of `TypeOK`, `HistoryIsRecent`,
  `ChannelLifecycle`, `StreamInOrder` and `NoEarlyLoss` is inductive (`IInv`).
  None of the last three is so alone: that a stream misses nothing early needs
  that its channel is empty before it subscribes and that what it carried is
  in order. `Refinement` maps each step to a step of `LossyFeed` or a stutter;
  it needs `IInv` because a join must find an empty feed.
* `DynamicEngineProofs`. `IInv` adds to type, slots and counters two parts:
  `LoopInv`, which relates the loop variable to the verdicts collected at each
  control state, and `ResetInv`, by which targets outside the registry have no
  counts and a reset has either erased or still to visit what was counted before
  it arrived. `SlotsCorrect` rests on the cardinality of the set of running
  requests growing and shrinking by one; `CountersCorrect` on that of the set of
  counted iterations. `EventsCorrect` bounds the numbers of a request's events by what
  its last snapshot saw, and that by what its target has counted; strictly, while a
  probe is counted and not yet in a snapshot.
* `ProberProofs`. `IInv` adds `OutageInv` (the outage under way began after all
  time already counted, hence no second is counted twice), `QuitInv` (the count
  of `--count` is the length of the log at each control state) and `StreakInv`
  (the streak is below the limit except between counting a failure and looking
  at it). `LedgerImplemented` is the refinement of `OutageLedger`.
  `EventsCorrect` has an invariant of its own, `EventInv`: as long as nobody
  resets, all probes are published at each place of the loop except between
  counting and `Broadcast`, where the missing one is the last of the log.
  `OutagesCorrect` compares the counters with the set of moments spent in the outages
  of the log, so that it needs no induction over the log. `LogInv` orders the log,
  `OpenInv` says that the outage the prober keeps is the one under way there, and
  `SumInv` is the property with the longest outage as a bound; a probe that ends an
  outage adds an interval disjoint from all others, and its cardinality to the sum.
* `MultiProberProofs`. `SlotsCorrect`, `CountersCorrect` and `StopsCorrect` come
  from one `IInv`; `StopInv` says how many probes a worker has counted at each
  place, `LateInv` that only a worker that already stood at the semaphore begins a
  probe after the interrupt. `ReportsCorrect` needs `EventInv`, the argument of
  the prober once per worker: the events of others may come between, so an event
  is compared with the probe of its rank among those of its worker, and the rank
  does not change when the history grows.
* `KeystoreProofs`. `Exclusive` (without overlap at most one generator writes) and
  `WriterInv` (what that one has done so far: the document in `path.tmp` is the
  stored keys and its own, and newer than the file) give `FileIsExact`. `CacheInv`
  gives `JudgedByTheFile`: an equal modification time means equal keys, since the
  clock moves with each write. `RemovalInv` says who may have left the file missing or
  torn: without overlap, only the generator in `removedBy`, under way or dead. A listener
  compares times and not files, so that a fallback, which makes a file anew, needs
  two more parts: `TimeInv` (nobody has seen a time later than the clock) and
  `YoungerInv` (what is being written is younger than all the listener has read).
  `KeysRemain` needs none of this: `NonEmptyInv` holds whoever overlaps.
  A rename leaves an inode nobody has, and that there is always a free one is a counting
  argument over the inodes in use.
* `OutputsProofs`. `ExitCorrect` relates the totals `main` adds up to the logs.
  `SavingCorrect` is for any number of targets and has three invariants: `RowsInv`
  (probes written, by place and by rank as above), `OpenInv` (the files stay open until nobody
  probes) and `BlocksInv` (from which line of `main` on the block of a target is in the buffer
  or in the file).
* `DashboardProofs`. `ScreenInv` (the probes counted are those shown and the one
  whose goroutine waits for `d.mu` or the loop) is `ScreenCorrect`; `CountersInv`
  says the same of the totals, by verdict. With `ExportInv` it gives
  `ExportsCorrect`: a single export is a copy of both at one moment; one of a fleet
  reads totals that only grow after it has copied the records.
* `DialogueProofs`. For every script that satisfies the assumptions of `Dialogue`,
  which TLC evaluates for those of the code: `KeepsTheContract` (the refinement
  of `ProbeContract`, with crashes in the probers that `Fragile` names and no other),
  `LatencyIsOfTheService` (no diagnostic counts as latency of a punctual prober) and
  `CallsAreBounded`, whose one exception is a prober that `Fragile` says may spin. The
  argument of the last is a budget for
  each label, the time by which it is left at the latest. `BudgetAssumption` says
  that each label's budget covers those of the labels before it and its own time, which
  no loop that renews its deadline could satisfy; `InBudget` is then inductive.
  `UpIsEarnedAlways` rests on `EarnedAssumption`, which speaks of a script as a graph:
  some labels with the first among them (`Early`) are left only by a decisive answer
  or for `"down"`. `Undecisive`, that the call is at one of them or down while it has
  heard nothing decisive, is then inductive.
* `DialogueProofs`, second part: `Startup`, for command lines of any length and any
  words, tables, interfaces and answers. `PoolAssumption` and `StartupAssumption` say
  what kind of value the parsers return and are evaluated in the run `startup`. The
  module extends both models, which is why the specification of the start is
  `StartSpec`.
  * `OptionsCorrect`: `Arranged` says of the arguments that `permuteArgs` has moved
    that the flags keep their order, none is left out and each value follows its
    flag; `ReadTo` of those that `flag.Parse` has read that each name has the value of
    the last one. The words behind them matter only when the first of them ends the
    parsing, and a value in front of it would end it too early: hence the clause of
    `Arranged` by which what is no flag among the flags is the value before it.
  * `PoolCorrect`: `TurnInv` keeps the loops within their lists. `PoolMade` says that
    every turn before the current one has its target, and `FromTurns` names the turn
    that each target is from, so that two equal targets come from one turn (a cluster)
    or from two turns that differ in a word; that no target is made twice does not
    follow from the pool alone. `TurnIsWanted` and `WantedHasTurn` say that the targets
    of the turns are those of `Wanted`, no more and no less, whichever way ports and
    protocols are paired or combined; `ClusterIsNamed`, that what a turn looks up as a
    cluster is one by `Wanted`'s own account (`NamesCluster`), so that the nodes in the
    pool stand for it.
  * `RunCorrect`: `LookedUp` (each looked-up target is its pool entry, with an address
    of the family asked for or a retry) and `SourceFits` at the end of the stages.

Proofs have one step per action and under it one per conjunct that the action
disturbs. Facts about sequences and cardinalities that several steps use are
lemmas at the top of each module or of the part that needs them.

Only model-checked:

* all liveness: `StreamReclaimed`, `EveryRequestAnswered`, `WaiterCanLeave`,
  `Returns` and the three `RunEnds`, since the prover does not treat fairness;
* that the scripts, budgets and tables of this program satisfy the named assumptions:
  TLC evaluates them, once, for all of the scripts.

## 6. What is not modelled

* Times other than moments: RTT, jitter, percentiles, their rounding.
* What is printed: colours, layout, JSON, HTML, the documentation pages.
* The choice among the resolved addresses of a family; re-resolution is a counted
  step only.
* Read-only handlers of the web server, and the metrics: each reads the shared
  state once per target and formats it. That one scrape reads each metric family in a
  pass of its own (`prometheus.go:148`), so that a page may mix several moments, is not
  modelled either.
* Clocks too coarse to tell two modifications of the keystore apart
  (`keystore.go:112`): the model's clock moves with each write. The cache of
  verified keys (`verifier.go:105`), which outgrows its limit when nothing in it has expired.
* Registered background targets of the registry (`RegisterTarget`,
  `RemoveTarget`), which nothing in the program calls.
* Layout and paging of the terminal dashboards, the editing of the export path,
  writes that fail.
* How messages are encoded and decoded, byte by byte: compression pointers of DNS names,
  BER lengths, the framing of TNS, BSON and RESP. A read of `Dialogue` has the outcomes
  its decoder can have, whatever bytes lead to them, a panic and a loop without end
  included. Which decoders can have these two was found by reading the indices, slices,
  lengths and loops of each, for integers of 64 bits. `Prober`, `MultiProber`
  and `DynamicEngine` take a `Ping` to return, `DynamicEngine` except in `Stuck` requests.
* Options that are copied to the probers unchanged, and the texts of usage and version.

## 7. Plan

What is left, in this order.

1. `Codecs`: `parseDNSName` with compression pointers, BER lengths, RESP, TNS and
   BSON framing as recursive functions over short byte sequences: which end and stay inside
   the buffer (those of section 3 do not, and the shortest inputs would show it) and
   agree with a reference decoder. It needs a run of its own,
   and the outcomes of the reads of `Dialogue` can then be those of the decoders.
2. `VerifyCache`: `VerifyKey` with expiry and eviction, composed with `Keystore`: an
   expired or revoked key is not accepted from the cache for longer than its
   lifetime, and how far the cache may outgrow its limit.
3. Scrapes: `metrics` and the read-only handlers beside the prober and the engine,
   for what one page may mix of several moments.
4. A broadcaster with its publishers: `Prober` and `DynamicEngine` keep the history
   they write to in a variable of their own; composed with `Broadcaster`, a stream
   would show the probes of every publisher in the order of their counts.
