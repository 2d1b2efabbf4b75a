-------------------------- MODULE MCDynamicEngine ---------------------------
(* Instances of DynamicEngine for TLC.                                     *)
EXTENDS DynamicEngine, TLC

CONSTANTS t1, t2

Body(target, count, retries) ==
  [target |-> target, valid |-> TRUE, traceroute |-> FALSE, count |-> count,
   retries |-> retries, sla |-> FALSE, broadcast |-> TRUE]

(* Two targets, a count that is defaulted, retries under an SLA, a request *)
(* that is not broadcast, one that cannot be resolved and a traceroute.    *)
MCPlans ==
  { Body(t1, 2, 0),
    [Body(t1, 0, 1) EXCEPT !.sla = TRUE],
    [Body(t2, 1, 0) EXCEPT !.broadcast = FALSE],
    [Body(t2, 1, 0) EXCEPT !.valid = FALSE],
    [Body(t2, 1, 0) EXCEPT !.traceroute = TRUE] }

(* Short requests, for the runs with more requests than slots.             *)
MCShortPlans == { Body(t1, 1, 0), [Body(t2, 1, 0) EXCEPT !.valid = FALSE] }

(* Two targets, one of them probed twice, no events: for the counters      *)
(* under a reset.                                                          *)
Silent(target, count) == [Body(target, count, 0) EXCEPT !.broadcast = FALSE]
MCResetPlans == { Silent(t1, 2), Silent(t2, 1) }

Symmetry == Permutations(Clients)
=============================================================================
