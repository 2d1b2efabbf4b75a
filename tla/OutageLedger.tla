---------------------------- MODULE OutageLedger ----------------------------
(***************************************************************************)
(* What the statistics of a target promise about its outages, independent  *)
(* of probes, retries, locks and resets of the counters.                   *)
(*                                                                         *)
(* An outage lasts from the moment of its first failure to the moment of   *)
(* the success that ends it, or to the moment the ledger is closed.  The   *)
(* ledger adds up the outages and keeps the longest; it forgets nothing.   *)
(***************************************************************************)
EXTENDS Naturals

CONSTANT Moments    \* the moments at which something may happen

VARIABLES
  out,              \* an outage is under way
  since,            \* when it began, 0 when there is none
  total,            \* the time spent in the outages that ended
  longest,          \* start and length of the longest outage that ended
  closed            \* the session is over

ledgerVars == <<out, since, total, longest, closed>>

(* Outages of no length never become the longest; among equals the latest  *)
(* one counts (SetLongestDuration).                                        *)
Longer(start, length, l) ==
  IF length > 0 /\ length >= l.length
  THEN [start |-> start, length |-> length] ELSE l

LedgerInit ==
  /\ out = FALSE
  /\ since = 0
  /\ total = 0
  /\ longest = [start |-> 0, length |-> 0]
  /\ closed = FALSE

Fail(t) ==
  /\ ~closed /\ ~out
  /\ out' = TRUE
  /\ since' = t
  /\ UNCHANGED <<total, longest, closed>>

(* The outage that is under way is entered with t as its end.              *)
Enter(t) ==
  /\ t >= since
  /\ total' = total + (t - since)
  /\ longest' = Longer(since, t - since, longest)

Recover(t) ==
  /\ ~closed /\ out
  /\ Enter(t)
  /\ out' = FALSE
  /\ since' = 0
  /\ UNCHANGED closed

Close(t) ==
  /\ ~closed
  /\ closed' = TRUE
  /\ IF out THEN Enter(t) ELSE UNCHANGED <<total, longest>>
  /\ UNCHANGED <<out, since>>

LedgerNext == \E t \in Moments : Fail(t) \/ Recover(t) \/ Close(t)

LedgerSpec == LedgerInit /\ [][LedgerNext]_ledgerVars
=============================================================================
