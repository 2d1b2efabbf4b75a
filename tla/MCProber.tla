------------------------------ MODULE MCProber ------------------------------
(* Instances of Prober for TLC.                                            *)
EXTENDS Prober

Base == [quit |-> 0, maxFails |-> 0, retries |-> 0, reresolve |-> FALSE,
         resolveAfter |-> 0, sla |-> FALSE]

(* Nothing set; a count with an SLA and a retry; a limit of consecutive    *)
(* failures; lookups after the second failure in a row; lookups after      *)
(* every failure, which is what a name that never resolved gets.           *)
MCOptions ==
  { Base,
    [Base EXCEPT !.quit = 2, !.sla = TRUE, !.retries = 1],
    [Base EXCEPT !.maxFails = 2],
    [Base EXCEPT !.reresolve = TRUE, !.resolveAfter = 2],
    [Base EXCEPT !.reresolve = TRUE, !.maxFails = 3] }
=============================================================================
