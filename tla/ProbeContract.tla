--------------------------- MODULE ProbeContract ---------------------------
(***************************************************************************)
(* What one call of Ping promises its caller: it tries until it has a      *)
(* verdict; "down" is returned at once; once the target is known to be up  *)
(* the call may stay on to collect diagnostics, and nothing that happens   *)
(* then takes the verdict back.  Only the decoder of a fragile prober can  *)
(* take the process down, and before the call has returned.                *)
(***************************************************************************)
VARIABLES phase,   \* what the caller knows of the call
          fragile  \* whether some answer of the peer is sliced unchecked

vars == <<phase, fragile>>

Init == phase = "trying" /\ fragile \in BOOLEAN

Fail == phase = "trying" /\ phase' = "down"

Settle == phase = "trying" /\ phase' \in {"harvesting", "up"}

Finish == phase = "harvesting" /\ phase' = "up"

Crash == fragile /\ phase \in {"trying", "harvesting"} /\ phase' = "crashed"

Next == (Fail \/ Settle \/ Finish \/ Crash) /\ UNCHANGED fragile

Spec == Init /\ [][Next]_vars
=============================================================================
