----------------------------- MODULE MCDashboard -----------------------------
(* Instances of Dashboard for TLC.                                         *)
EXTENDS Dashboard

(* One target and two, without limits and with a count or a limit of       *)
(* consecutive failures.                                                   *)
MCOptions ==
  { [targets |-> 1, quit |-> 0, maxFails |-> 2],
    [targets |-> 1, quit |-> 2, maxFails |-> 0],
    [targets |-> 2, quit |-> 0, maxFails |-> 1],
    [targets |-> 2, quit |-> 1, maxFails |-> 0] }

(* Two probes of the first target; one of the second, in a fleet.          *)
MCMaxProbes == <<2, 1>>
=============================================================================
