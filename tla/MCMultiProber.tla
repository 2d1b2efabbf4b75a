---------------------------- MODULE MCMultiProber ---------------------------
(* Instances of MultiProber for TLC.                                       *)
EXTENDS MultiProber

Base == [concurrency |-> 0, quit |-> 0, maxFails |-> 0, retries |-> 0]

(* A limit of consecutive failures; and one slot for everybody, with a     *)
(* count and with a retry that keeps the slot.                             *)
MCOptions ==
  { [Base EXCEPT !.maxFails = 2],
    [Base EXCEPT !.concurrency = 1, !.quit = 1, !.retries = 1] }
=============================================================================
