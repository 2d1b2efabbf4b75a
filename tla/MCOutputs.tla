------------------------------ MODULE MCOutputs ------------------------------
(* Instances of Outputs for TLC.                                           *)
EXTENDS Outputs

(* Both printers, with and without the dashboard, for one target and for   *)
(* two, with and without a limit of consecutive failures; three targets    *)
(* that give up at their first failure.                                    *)
MCOptions == [printer : {"csv", "sqlite"}, dashboard : BOOLEAN,
              targets : {1, 2}, maxFails : {0, 1, 2}]
             \cup [printer : {"csv", "sqlite"}, dashboard : {FALSE},
                   targets : {3}, maxFails : {1}]
=============================================================================
