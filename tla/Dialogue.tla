------------------------------ MODULE Dialogue ------------------------------
(***************************************************************************)
(* One call of Ping of one prober, whatever its protocol: the dialogue     *)
(* that its script describes, with a peer that answers anything its step   *)
(* tells apart, is silent, or closes, and with a clock.                    *)
(*                                                                         *)
(* Ping is called in two ways.  The single-target prober and the trigger   *)
(* engine pass a context that expires after the timeout (probers.go:145,   *)
(* dynamic.go:164); a worker of a fleet passes the context of the whole    *)
(* run (multi_prober.go:185).  The dialer is the prober's own, with        *)
(* Timeout, or, with --interface, the one nic.go builds, without.          *)
(***************************************************************************)
EXTENDS Steps, FiniteSets

CONSTANTS Probe,     \* the probers
          Script,    \* what each of them does: [Probe -> script]
          Budget,    \* when each of its labels is left at the latest
          Decisive,  \* the <<label, outcome>> pairs that show a live service
          Punctual,  \* the probers that stop the latency clock before harvest
          Fragile,   \* the ways each of them can fail to return: [Probe -> SUBSET Lost]
          Forever    \* the patience of a dial that has no timeout

\* The operations that watch the context, and those that use the dialer.
ContextOps == {"dial", "udpdial", "owndial", "tlsdial", "tls", "http"}
DialerOps == {"dial", "udpdial", "tlsdial"}

\* A script is its steps, its first label, the labels reached only when the
\* verdict is settled, where diagnostics are collected (harvest), and the label
\* whose completion stops the latency clock (rtt).
Label(p) == DOMAIN Script[p].step
At(p, l) == Script[p].step[l]

\* Where a step can lead.
After(p, l) == {At(p, l).on[o] : o \in DOMAIN At(p, l).on}

ASSUME ScriptAssumption ==
  \A p \in Probe :
    /\ Script[p].first \in Label(p)
    /\ Script[p].harvest \subseteq Label(p) \ {Script[p].first}
    /\ Label(p) \cap Ends = {}
    /\ \A l \in Label(p) : /\ At(p, l).d \in Nat
                            /\ Failure \subseteq DOMAIN At(p, l).on
                            /\ After(p, l) \subseteq Label(p) \union Ends

\* Every prober but those whose decoders are known to returns, well or badly.
\* A name without end runs out of memory when there are labels on its way.
ASSUME FragileAssumption ==
  \A p \in Probe :
    /\ Fragile[p] \subseteq Lost
    /\ \A l \in Label(p) : After(p, l) \cap Lost \subseteq Fragile[p]
    /\ "spin" \in Fragile[p] => "panic" \in Fragile[p]

\* A dial has the timeout, and the step after it a time of its own.
ASSUME DialAssumption ==
  \A p \in Probe : \A l \in Label(p) :
    At(p, l).op \in DialerOps =>
      /\ At(p, l).d = Timeout
      /\ \A m \in After(p, l) \ Ends : At(p, m).d # Keep /\ At(p, m).op \notin DialerOps

\* The labels that are reached from the one that stops the latency clock only.
Timed(p) == {l \in Label(p) \ {Script[p].first} :
               \A k \in Label(p) : l \in After(p, k) => k = Script[p].rtt}

\* A punctual prober stops the clock before it begins to harvest.
ASSUME PunctualAssumption ==
  /\ Punctual \subseteq Probe
  /\ \A p \in Punctual : /\ Script[p].rtt \notin Script[p].harvest
                         /\ \A l \in Label(p) \ Script[p].harvest :
                              After(p, l) \cap Script[p].harvest # {} =>
                                l \in Timed(p) \union {Script[p].rtt}

\* A diagnostic leads to another one or ends the probe: well, or with the whole
\* process.
ASSUME HarvestAssumption ==
  \A p \in Probe : \A l \in Script[p].harvest :
    After(p, l) \subseteq Script[p].harvest \union {"up", "panic"}

\* Labels from which only a decisive outcome leads to another label, or up.
Undecided(p, early) ==
  \A l \in early : \A o \in DOMAIN At(p, l).on :
    <<l, o>> \in Decisive[p] \/ At(p, l).on[o] \in early \union {"down"} \union Lost

\* A probe begins at such a label.
ASSUME EarnedAssumption ==
  \A p \in Probe : \E early \in SUBSET Label(p) :
    Script[p].first \in early /\ Undecided(p, early)

\* The longest of the probes: three timeouts (ICMP tries two sockets), and two
\* seconds of diagnostics.
Patience == 3 * Timeout + TwoSeconds

\* The first label starts its time at zero; every other one is reached within
\* the budget of each label before it and, unless it keeps the deadline, adds
\* its own time: no label is on a loop that starts the time again.
ASSUME BudgetAssumption ==
  /\ Forever \in Nat
  /\ \A p \in Probe :
       /\ Budget[p] \in [Label(p) -> 0..Patience]
       /\ At(p, Script[p].first).d <= Budget[p][Script[p].first]
       /\ \A l \in Label(p) : \A m \in After(p, l) \ Ends :
            Budget[p][l] + At(p, m).d <= Budget[p][m]

VARIABLES probe, caller, dialer,  \* what is called, and how
          at,                     \* the label of the current step
          clock, deadline,        \* time since the call; when the step fails
          heard,                  \* what happened: <<label, outcome>> pairs
          rtt, settled            \* the latency reported; when harvest began

vars == <<probe, caller, dialer, at, clock, deadline, heard, rtt, settled>>

Now == At(probe, at)

Unset == -1

\* Mutant of Until: the prober's own dialer has no Timeout either.
UntilWithoutDialTimeout(p, dl, l, t, d) ==
  LET s == At(p, l) IN
    IF s.op \in DialerOps THEN Forever
    ELSE IF s.d = Keep THEN d ELSE t + s.d

\* Mutant of Until: the deadline is set again in front of every read.
UntilRearmed(p, dl, l, t, d) ==
  LET s == At(p, l) IN
    IF s.op \in DialerOps /\ dl = "nic" THEN Forever
    ELSE IF s.d = Keep THEN t + Timeout ELSE t + s.d

\* The deadline of a step that begins at time t, after a step whose deadline
\* was d.  A dialer without Timeout leaves a dial to the kernel's patience.
Until(p, dl, l, t, d) ==
  LET s == At(p, l) IN
    IF s.op \in DialerOps /\ dl = "nic" THEN Forever
    ELSE IF s.d = Keep THEN d ELSE t + s.d

Least(a, b) == IF a <= b THEN a ELSE b

\* When the current step fails at the latest.
Limit == IF caller = "timed" /\ Now.op \in ContextOps
           THEN Least(deadline, Timeout) ELSE deadline

\* Somebody watches the time of this call: its context, or its dialer.
Watched == caller = "timed" \/ dialer = "own"

\* Nothing bounds the handshake of a dialer without Timeout under a context
\* that does not expire.
Endless == ~Watched /\ Now.op = "tlsdial"

\* The dialer of nic.go is bound to a TCP address: it refuses a UDP address.
Mismatched == dialer = "nic" /\ Now.op = "udpdial"

InTime == clock < Limit \/ Endless

\* Bounds the clock of the model.
Horizon == Forever + Patience

Init ==
  /\ probe \in Probe
  /\ caller \in {"timed", "fleet"}
  /\ dialer \in {"own", "nic"}
  /\ at = Script[probe].first
  /\ clock = 0
  /\ deadline = Until(probe, dialer, at, 0, 0)
  /\ heard = {}
  /\ rtt = Unset
  /\ settled = Unset

\* Mutant of GoOn: the failure of a diagnostic is returned as the probe's.
GoOnStrict(o) ==
  LET next == IF o \in Failure THEN "down" ELSE Now.on[o] IN
    /\ at' = next
    /\ heard' = heard \union {<<at, o>>}
    /\ deadline' = IF next \in Ends THEN deadline
                   ELSE Until(probe, dialer, next, clock, deadline)
    /\ rtt' = IF at = Script[probe].rtt \/ (rtt = Unset /\ next \in Final)
                THEN clock ELSE rtt
    /\ settled' = IF settled = Unset /\ next \in Script[probe].harvest \union {"up"}
                    THEN clock ELSE settled
    /\ UNCHANGED <<probe, caller, dialer, clock>>

\* Mutant of GoOn: the error of an operation is not put into the result.
GoOnWithoutErr(o) ==
  LET next == IF o \in Failure /\ Now.on[o] = "down" THEN "up" ELSE Now.on[o] IN
    /\ at' = next
    /\ heard' = heard \union {<<at, o>>}
    /\ deadline' = IF next \in Ends THEN deadline
                   ELSE Until(probe, dialer, next, clock, deadline)
    /\ rtt' = IF at = Script[probe].rtt \/ (rtt = Unset /\ next \in Final)
                THEN clock ELSE rtt
    /\ settled' = IF settled = Unset /\ next \in Script[probe].harvest \union {"up"}
                    THEN clock ELSE settled
    /\ UNCHANGED <<probe, caller, dialer, clock>>

\* Mutant of GoOn: the latency is the time of the whole call.
GoOnTimedAtReturn(o) ==
  LET next == Now.on[o] IN
    /\ at' = next
    /\ heard' = heard \union {<<at, o>>}
    /\ deadline' = IF next \in Ends THEN deadline
                   ELSE Until(probe, dialer, next, clock, deadline)
    /\ rtt' = IF next \in Final
                THEN clock ELSE rtt
    /\ settled' = IF settled = Unset /\ next \in Script[probe].harvest \union {"up"}
                    THEN clock ELSE settled
    /\ UNCHANGED <<probe, caller, dialer, clock>>

\* The step ends with outcome o and the code goes on.
GoOn(o) ==
  LET next == Now.on[o] IN
    /\ at' = next
    /\ heard' = heard \union {<<at, o>>}
    /\ deadline' = IF next \in Ends THEN deadline
                   ELSE Until(probe, dialer, next, clock, deadline)
    /\ rtt' = IF at = Script[probe].rtt \/ (rtt = Unset /\ next \in Final)
                THEN clock ELSE rtt
    /\ settled' = IF settled = Unset /\ next \in Script[probe].harvest \union {"up"}
                    THEN clock ELSE settled
    /\ UNCHANGED <<probe, caller, dialer, clock>>

\* The peer does its part in time.
Answer(o) ==
  /\ at \notin Ends
  /\ InTime /\ ~Mismatched
  /\ o \in DOMAIN Now.on \ Failure
  /\ GoOn(o)

\* The peer refuses, resets or closes.
Break ==
  /\ at \notin Ends
  /\ InTime
  /\ GoOn("broken")

\* The time of the step runs out.
Expire ==
  /\ at \notin Ends
  /\ ~InTime
  /\ GoOn("timeout")

\* The peer is silent for a tick.
Wait ==
  /\ at \notin Ends
  /\ InTime /\ ~Mismatched
  /\ clock < Horizon
  /\ clock' = clock + 1
  /\ UNCHANGED <<probe, caller, dialer, at, deadline, heard, rtt, settled>>

\* The decoder follows the pointers of the reply, and looks neither at the
\* deadline of the connection nor at the context any more ...
Spin ==
  /\ at = "spin"
  /\ clock < Horizon
  /\ clock' = clock + 1
  /\ UNCHANGED <<probe, caller, dialer, at, deadline, heard, rtt, settled>>

\* ... and keeps the labels it passes, until there is no memory left for them.
Exhaust ==
  /\ at = "spin"
  /\ at' = "panic"
  /\ UNCHANGED <<probe, caller, dialer, clock, deadline, heard, rtt, settled>>

\* Ping has returned, or the process is gone.
Over == at \in Final \union {"panic"} /\ UNCHANGED vars

Outcomes == UNION {UNION {DOMAIN At(p, l).on : l \in Label(p)} : p \in Probe}

Next == \/ \E o \in Outcomes : Answer(o)
        \/ Break
        \/ Expire
        \/ Wait
        \/ Spin \/ Exhaust
        \/ Over

Spec == Init /\ [][Next]_vars

\* Time passes, expired operations return and so does a refused dial; no answer
\* is owed by the peer.
FairSpec == Spec /\ WF_vars(Wait \/ Expire \/ (at \notin Ends /\ Mismatched /\ Break))

-----------------------------------------------------------------------------
\* Types, and what a returned ProbeResult always has: a latency within the call.
TypeOK ==
  /\ probe \in Probe
  /\ caller \in {"timed", "fleet"}
  /\ dialer \in {"own", "nic"}
  /\ at \in Label(probe) \union Final \union Fragile[probe]
  /\ clock \in Nat /\ deadline \in Nat
  /\ heard \subseteq Label(probe) \X Outcomes
  /\ rtt \in {Unset} \union 0..clock
  /\ settled \in {Unset} \union 0..clock
  /\ at \in Final => rtt # Unset

\* A target is reported up only after its peer did what shows a live service
\* of this protocol: the connection, banner, status, code or answer that
\* Decisive lists.
UpIsEarned ==
  at = "up" => heard \cap Decisive[probe] # {}

\* The latency of a reachable target does not contain the time its diagnostics
\* took (redis INFO, memcached stats, the module list of rsync, JWKS...), so
\* that a slow diagnostic is not a breach of --max-latency.
LatencyExcludesHarvest ==
  at = "up" /\ probe \in Punctual => rtt <= settled

\* However the peer dawdles, a call with a context that expires or with the
\* prober's own dialer is over within Patience: no loop over the peer's lines,
\* rows or frames starts the time again.  The exception is a reply whose
\* decoding does not end (a DNS name that points to itself).
Bounded ==
  Watched => clock <= Patience \/ (at \in Lost /\ "spin" \in Fragile[probe])

\* What the caller knows of the call.
Phase == IF at \in Final THEN at
         ELSE IF at = "panic" THEN "crashed"
         ELSE IF settled # Unset THEN "harvesting" ELSE "trying"

Contract == INSTANCE ProbeContract WITH phase <- Phase, fragile <- Fragile[probe] # {}

\* Every call of Ping keeps the contract: no failure of a diagnostic takes the
\* verdict back, and the process survives the answers of the peer, except in
\* the probers that Fragile names.
ImplementsContract == Contract!Spec

\* A call that somebody watches returns, even if the peer never stops talking,
\* except for a decoder that Fragile names.
Returns == Watched => <>(at \in Final \union Fragile[probe])
=============================================================================
