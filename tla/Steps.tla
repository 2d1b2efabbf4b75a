------------------------------- MODULE Steps -------------------------------
(***************************************************************************)
(* The vocabulary in which the Ping methods of pkg/probers are written     *)
(* down.  A probe is a script: a function from labels to steps.  A step    *)
(* names its operation, the time the code gives it and, for every outcome, *)
(* the label the code goes on to; "up" and "down" are the two returns (a   *)
(* ProbeResult without and with Err).  A decoder can also fail to return:  *)
(* an index or a length that nothing checks ends the process ("panic":     *)
(* there is no recover), and a name that points to itself is followed for  *)
(* ever ("spin").                                                          *)
(*                                                                         *)
(*   dial     Dialer.DialContext: bounded by the dialer's own Timeout and  *)
(*            by the context (owndial: a dialer the function makes itself) *)
(*   udpdial  the same for a UDP address, which a dialer bound to a TCP      *)
(*            address refuses                                              *)
(*   sysdial  net.DialTimeout: bounded by its timeout only                 *)
(*   tlsdial  tls.Dialer.DialContext: dial and handshake under the same    *)
(*            two bounds                                                   *)
(*   tls      HandshakeContext on an open connection: the connection's     *)
(*            deadline and the context                                     *)
(*   http     http.Client.Do and the reads of its body: the client's       *)
(*            Timeout and the context                                      *)
(*   send, recv   Write and Read on the connection: its deadline only      *)
(*                                                                         *)
(* A time of Keep leaves the deadline of the connection as it is; any      *)
(* other time is a SetDeadline(now + time) in front of the operation.      *)
(***************************************************************************)
EXTENDS Integers, TLC

CONSTANTS Timeout,   \* the prober's timeout, in ticks of half a timeout
          HalfSecond \* 500 ms, in the same ticks

ASSUME StepsAssumption == /\ Timeout \in Nat \ {0}
                          /\ HalfSecond \in Nat \ {0}

Keep == 0

\* The fixed allowances of some diagnostics.
Second == 2 * HalfSecond
TwoSeconds == 4 * HalfSecond

Final == {"up", "down"}

\* What a decoder can do instead of returning.
Lost == {"panic", "spin"}

Ends == Final \union Lost

\* The two ways an operation fails: its time runs out, or the peer refuses,
\* resets or closes first.
Failure == {"timeout", "broken"}

Fails(next) == [f \in Failure |-> next]

Step(op, d, says, fails) == [op |-> op, d |-> d, on |-> says @@ fails]

\* An operation whose failure is the probe's failure ("if err != nil return").
Dial(next)    == Step("dial", Timeout, [ok |-> next], Fails("down"))
UDPDial(next) == Step("udpdial", Timeout, [ok |-> next], Fails("down"))
TLSDial(next) == Step("tlsdial", Timeout, [ok |-> next], Fails("down"))
Handshake(d, next) == Step("tls", d, [ok |-> next], Fails("down"))
Send(d, next) == Step("send", d, [ok |-> next], Fails("down"))
Recv(says)    == Step("recv", Keep, says, Fails("down"))

\* An operation whose failure the code only skips ("if err == nil").
TrySend(d, next, skip) == Step("send", d, [ok |-> next], Fails(skip))
TryRecv(says, skip)    == Step("recv", Keep, says, Fails(skip))

\* An HTTP request, whose answer is classified by status and body.
Request(says)         == Step("http", Timeout, says, Fails("down"))
TryRequest(d, says, skip) == Step("http", d, says, Fails(skip))
=============================================================================
