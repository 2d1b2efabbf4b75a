---------------------------- MODULE TextScripts ----------------------------
(***************************************************************************)
(* The probers of pkg/probers that speak TCP, UDP, TLS or a line protocol, *)
(* each as a script of Steps.                                              *)
(***************************************************************************)
EXTENDS Steps

Open(tls, next) == IF tls THEN TLSDial(next) ELSE Dial(next)

Half == Timeout \div 2

\* tcp.go: a connection is enough; with --send the payload goes out, with
\* --expect one Read has to contain the expected text.
TCP(send, expect) ==
  [first |-> "dial", rtt |-> "dial", harvest |-> {},
   step  |-> [dial   |-> Dial(IF send THEN "send" ELSE "up"),
              send   |-> Send(Timeout, IF expect THEN "expect" ELSE "up"),
              expect |-> Recv([match |-> "up", part |-> "down", other |-> "down"])]]

\* udp.go: silence is an answer, unless a text is expected or the port is 53.
UDP(expect, port53) ==
  [first |-> "dial", rtt |-> "reply", harvest |-> {},
   step  |-> [dial  |-> UDPDial("send"),
              send  |-> Send(Timeout, "reply"),
              reply |-> Step("recv", Keep,
                             [match |-> "up",
                              other |-> IF expect THEN "down" ELSE "up"],
                             [timeout |-> IF expect \/ port53 THEN "down" ELSE "up",
                              broken  |-> "down"])]]

\* raw_tls.go: a connection and a handshake under its deadline.
RawTLS ==
  [first |-> "dial", rtt |-> "handshake", harvest |-> {},
   step  |-> [dial      |-> Dial("handshake"),
              handshake |-> Handshake(Timeout, "up")]]

\* redis.go: AUTH if there is a password, PING, then INFO for diagnostics, for
\* which a buffer is made of the length the peer announces, however huge.
Redis(tls, password) ==
  [first |-> "dial", rtt |-> "pong", harvest |-> {"info", "length", "bulk"},
   step  |-> [dial   |-> Open(tls, IF password THEN "auth" ELSE "ping"),
              auth   |-> Send(Timeout, "authed"),
              authed |-> Recv([OK |-> "ping", other |-> "down"]),
              ping   |-> Send(IF password THEN Keep ELSE Timeout, "pong"),
              pong   |-> Recv([PONG |-> "info", NOAUTH |-> "info", other |-> "down"]),
              info   |-> TrySend(Half, "length", "up"),
              length |-> TryRecv([bulk |-> "bulk", huge |-> "panic",
                                  NOAUTH |-> "up", other |-> "up"], "up"),
              bulk   |-> TryRecv([whole |-> "up"], "up")]]

\* memcached.go: version decides, the rows of stats are diagnostics.
Memcached(tls) ==
  [first |-> "dial", rtt |-> "line", harvest |-> {"stats", "rows"},
   step  |-> [dial    |-> Open(tls, "version"),
              version |-> Send(Timeout, "line"),
              line    |-> Recv([VERSION |-> "stats", other |-> "down"]),
              stats   |-> TrySend(Half, "rows", "up"),
              rows    |-> TryRecv([row |-> "rows", END |-> "up"], "up")]]

\* ssh.go: lines up to the peer's banner, our banner, then KEXINIT, which may
\* fail in any way.
SSH ==
  [first |-> "dial", rtt |-> "hello", harvest |-> {"length", "packet"},
   step  |-> [dial   |-> Dial("lines"),
              lines  |-> Step("recv", Timeout,
                              [comment |-> "banner", SSH |-> "hello"], Fails("down")),
              banner |-> Recv([comment |-> "banner", SSH |-> "hello"]),
              hello  |-> Send(Keep, "length"),
              length |-> TryRecv([fits |-> "packet", other |-> "up"], "up"),
              packet |-> TryRecv([KEXINIT |-> "up", other |-> "up"], "up")]]

\* ftp.go: a reply of one or more lines ends with a line that starts with a
\* code; 220, AUTH TLS if asked for, FEAT for diagnostics, QUIT.
Reply(d, l, says) == Step("recv", d, [more |-> l] @@ says, Fails("down"))

FTP(tls, starttls) ==
  [first |-> "dial", rtt |-> "return", harvest |-> {"feat", "feats", "quit"},
   step  |-> LET feat == IF starttls /\ ~tls THEN "auth" ELSE "feat" IN
             [dial   |-> Open(tls, "lines"),
              lines  |-> Reply(Timeout, "banner", [c220 |-> feat, other |-> "down"]),
              banner |-> Reply(Keep, "banner", [c220 |-> feat, other |-> "down"]),
              auth   |-> Send(Keep, "authed"),
              authed |-> Reply(Keep, "authed", [c234 |-> "tls", other |-> "down"]),
              tls    |-> Handshake(Keep, "feat"),
              feat   |-> TrySend(Half, "feats", "quit"),
              feats  |-> TryRecv([more |-> "feats", last |-> "quit"], "quit"),
              quit   |-> TrySend(Keep, "up", "up")]]

\* rsync.go: greeting against greeting, then the list of modules.
Rsync ==
  [first |-> "dial", rtt |-> "hello", harvest |-> {"list", "rows"},
   step  |-> [dial     |-> Dial("greeting"),
              greeting |-> Step("recv", Timeout,
                                [RSYNCD |-> "hello", other |-> "down"], Fails("down")),
              hello    |-> Send(Keep, "list"),
              list     |-> TrySend(Half, "rows", "up"),
              rows     |-> TryRecv([row |-> "rows", EXIT |-> "up"], "up")]]

\* ws.go: the upgrade, a ping frame, and the header of whatever frame is next.
WS(tls) ==
  [first |-> "dial", rtt |-> "return", harvest |-> {},
   step  |-> [dial    |-> Open(tls, "upgrade"),
              upgrade |-> Send(Timeout, "status"),
              status  |-> Recv([s101 |-> "ping", other |-> "down"]),
              ping    |-> Send(Keep, "frame"),
              frame   |-> Recv([pong |-> "up", other |-> "up"])]]

\* mail.go, SMTP: banner, EHLO and the capabilities up to the line "250 ", all
\* of which are required, then STARTTLS if asked for.
SMTP(tls, starttls) ==
  [first |-> "dial", rtt |-> "return", harvest |-> {},
   step  |-> [dial     |-> Open(tls, "banner"),
              banner   |-> Step("recv", Timeout,
                                [c220 |-> "ehlo", other |-> "down"], Fails("down")),
              ehlo     |-> Send(Keep, "caps"),
              caps     |-> Recv([c250 |-> IF starttls /\ ~tls THEN "starttls" ELSE "up",
                                 more |-> "caps", other |-> "caps"]),
              starttls |-> Send(Keep, "go"),
              go       |-> Recv([c220 |-> "tls", other |-> "down"]),
              tls      |-> Handshake(Keep, "up")]]

\* mail.go, IMAP: greeting and CAPABILITY up to the tagged OK; a tagged NO or
\* BAD is read past.
IMAP(tls) ==
  [first |-> "dial", rtt |-> "return", harvest |-> {},
   step  |-> [dial     |-> Open(tls, "greeting"),
              greeting |-> Step("recv", Timeout,
                                [OK |-> "ask", other |-> "down"], Fails("down")),
              ask      |-> Send(Keep, "caps"),
              caps     |-> Recv([OK |-> "up", more |-> "caps", other |-> "caps"])]]

\* mail.go, POP3: the greeting decides, CAPA is for diagnostics.
POP3(tls) ==
  [first |-> "dial", rtt |-> "return", harvest |-> {"capa", "ok", "caps"},
   step  |-> [dial     |-> Open(tls, "greeting"),
              greeting |-> Step("recv", Timeout,
                                [OK |-> "capa", other |-> "down"], Fails("down")),
              capa     |-> TrySend(Keep, "ok", "up"),
              ok       |-> TryRecv([OK |-> "caps", other |-> "up"], "up"),
              caps     |-> TryRecv([more |-> "caps", dot |-> "up"], "up")]]
=============================================================================
