--------------------------- MODULE MCBroadcaster ----------------------------
(* Instances of Broadcaster for TLC.  The history limits are scaled down:  *)
(* a default of 3 and a ceiling of 4 stand for 1,000,000 and 5,000,000,    *)
(* 9 is a request above the ceiling, 0 one that selects the default.       *)
EXTENDS Broadcaster

MCLimits == {0, 1, 9}
=============================================================================
