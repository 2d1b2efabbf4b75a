---------------------------- MODULE WireScripts ----------------------------
(***************************************************************************)
(* The probers of pkg/probers that speak a binary protocol, each as a      *)
(* script of Steps: message queues, LDAP, SMB, ICMP, traceroute, DNS,      *)
(* Kerberos and the databases.                                             *)
(***************************************************************************)
EXTENDS TextScripts

\* queue.go, Kafka: ApiVersions; the correlation id decides, the payload is
\* read for diagnostics when its length is plausible.
Kafka(tls) ==
  [first |-> "dial", rtt |-> "return", harvest |-> {"payload"},
   step  |-> [dial    |-> Open(tls, "ask"),
              ask     |-> Send(Timeout, "header"),
              header  |-> Recv([fits |-> "payload", odd |-> "up", stranger |-> "down"]),
              payload |-> TryRecv([whole |-> "up"], "up")]]

\* queue.go, AMQP: the protocol header against Connection.Start or a protocol
\* header; what one more Read returns is for diagnostics.  A frame that ends
\* less than 25 bytes after "version", or 40 after "cluster_name", is sliced
\* past its end.
AMQP(tls) ==
  [first |-> "dial", rtt |-> "return", harvest |-> {"frame"},
   step  |-> [dial   |-> Open(tls, "header"),
              header |-> Send(Timeout, "start"),
              start  |-> Recv([start |-> "frame", AMQP |-> "frame", other |-> "down"]),
              frame  |-> TryRecv([some |-> "up", short |-> "panic"], "up")]]

\* ldap.go: one Read has to hold the answer to an anonymous bind.  Codes 7, 49
\* and 53 are a refusal by a healthy server; after a success the root entry
\* is asked for, for half a second.
LDAP(tls) ==
  [first |-> "dial", rtt |-> "return", harvest |-> {"search", "entry"},
   step  |-> [dial   |-> Open(tls, "bind"),
              bind   |-> Send(Timeout, "answer"),
              answer |-> Recv([success |-> "search", nocode |-> "search",
                               refused |-> "up", error |-> "down",
                               short |-> "down", other |-> "down"]),
              search |-> TrySend(Keep, "entry", "up"),
              entry  |-> Step("recv", HalfSecond, [some |-> "up"], Fails("up"))]]

\* smb.go: one negotiation; any SMB header is an answer, whatever its status.
SMB ==
  [first |-> "dial", rtt |-> "body", harvest |-> {},
   step  |-> [dial      |-> Dial("negotiate"),
              negotiate |-> Send(Timeout, "header"),
              header    |-> Recv([fits |-> "body", other |-> "down"]),
              body      |-> Recv([SMB1 |-> "up", SMB2 |-> "up", status |-> "up",
                                  other |-> "down"])]]

\* icmp.go: a raw socket, or else a datagram socket, neither of which watches
\* the context; any packet that arrives is the reply.
ICMP ==
  [first |-> "raw", rtt |-> "reply", harvest |-> {},
   step  |-> [raw   |-> Step("sysdial", Timeout, [ok |-> "echo"], Fails("udp")),
              udp   |-> Step("sysdial", Timeout, [ok |-> "echo"], Fails("down")),
              echo  |-> Send(Timeout, "reply"),
              reply |-> Recv([echo |-> "up", other |-> "up"])]]

\* traceroute.go, probeTTL: every failure but a timeout is the destination.
ProbeTTL ==
  [first |-> "dial", rtt |-> "dial", harvest |-> {},
   step  |-> [dial |-> Step("owndial", Timeout, [ok |-> "up"],
                            [timeout |-> "down", broken |-> "up"])]]

\* dns_query.go: any reply of at least a header is an answer, whatever its
\* RCODE, but its names are parsed first, and a name whose pointers lead back
\* to themselves has no end.
DNSReply == [NOERROR |-> "up", rcode |-> "up", loop |-> "spin", short |-> "down"]

DNS ==
  [first |-> "dial", rtt |-> "reply", harvest |-> {},
   step  |-> [dial  |-> UDPDial("query"),
              query |-> Send(Timeout, "reply"),
              reply |-> Recv(DNSReply)]]

DoT ==
  [first |-> "dial", rtt |-> "reply", harvest |-> {},
   step  |-> [dial   |-> TLSDial("query"),
              query  |-> Send(Timeout, "length"),
              length |-> Recv([ok |-> "reply"]),
              reply  |-> Recv(DNSReply)]]

DoH ==
  [first |-> "query", rtt |-> "query", harvest |-> {},
   step  |-> [query |-> Request(DNSReply @@ [status |-> "down"])]]

\* kerberos.go, processResponse: an AS-REP, or a KRB-ERROR without a code or
\* with a code of a responsive KDC.
KdcCodes == 0..76
ResponsiveKdc == {0, 6, 7, 15, 24, 25, 37, 68}
KdcSays == [c \in {ToString(n) : n \in KdcCodes} |->
              IF c \in {ToString(n) : n \in ResponsiveKdc} THEN "up" ELSE "down"]
           @@ [ASREP |-> "up", nocode |-> "up", short |-> "down", other |-> "down"]

Kerberos(udp) ==
  [first |-> "dial", rtt |-> "body", harvest |-> {},
   step  |-> [dial   |-> IF udp THEN UDPDial("ask") ELSE Dial("ask"),
              ask    |-> Send(Timeout, IF udp THEN "body" ELSE "length"),
              length |-> Recv([fits |-> "body", other |-> "down"]),
              body   |-> Recv(KdcSays)]]

\* db.go, Ping: TCP, or TLS from the start for the products that have no
\* negotiation of their own; every step of the product's probe is under one
\* deadline unless it sets another.
DB(tls, harvest, steps) ==
  [first |-> "dial", rtt |-> "return", harvest |-> harvest,
   step  |-> [dial |-> Open(tls, "ask")] @@ steps]

\* SSLRequest, a handshake whose failure is passed over, then a startup
\* message whose answer has half a second.
Postgres ==
  DB(FALSE, {"tls", "startup", "state"},
     [ask     |-> Send(Timeout, "ssl"),
      ssl     |-> Recv([S |-> "tls", N |-> "startup", other |-> "down"]),
      tls     |-> Step("tls", Keep, [ok |-> "startup"], Fails("startup")),
      startup |-> TrySend(Keep, "state", "up"),
      state   |-> Step("recv", HalfSecond, [some |-> "up"], Fails("up"))])

\* The server speaks first; an error packet is an answer, unless it is a stub
\* without its code, whose text is sliced from where it does not begin.
MySQL ==
  DB(FALSE, {},
     [ask     |-> Step("recv", Timeout, [fits |-> "payload", other |-> "down"],
                       Fails("down")),
      payload |-> Recv([v10 |-> "up", error |-> "up", stub |-> "panic",
                       other |-> "down"])])

\* PRELOGIN; the type of the answer decides, its tokens are for diagnostics.
MSSQL ==
  DB(FALSE, {"body"},
     [ask    |-> Send(Timeout, "header"),
      header |-> Recv([fits |-> "body", odd |-> "up", other |-> "down"]),
      body   |-> TryRecv([whole |-> "up"], "up")])

\* CONNECT; a RESEND is obeyed once; a refusal by the listener is an answer.
\* What follows a header is read before its type is looked at.  The parameters
\* of a refusal are looked up in an upper case copy and cut out of the original:
\* where bytes that are not text make the copy longer, that is past the end.
Oracle ==
  DB(FALSE, {"rest", "refusal"},
     [ask    |-> Send(Timeout, "header"),
      header |-> Recv([ACCEPT |-> "rest", REFUSE |-> "refusal", REDIRECT |-> "rest",
                       RESEND |-> "resend", other |-> "junk"]),
      rest   |-> TryRecv([whole |-> "up"], "up"),
      refusal |-> TryRecv([whole |-> "up", garbled |-> "panic"], "up"),
      junk   |-> TryRecv([whole |-> "down"], "down"),
      resend |-> TryRecv([whole |-> "repeat"], "repeat"),
      repeat |-> TrySend(Keep, "second", "up"),
      second |-> TryRecv([ACCEPT |-> "rest", REFUSE |-> "refusal", REDIRECT |-> "rest",
                          RESEND |-> "rest", other |-> "junk"], "up")])

\* hello; sixteen bytes are an answer, the document is for diagnostics.
MongoDB(tls) ==
  DB(tls, {"body"},
     [ask    |-> Send(Timeout, "header"),
      header |-> Recv([fits |-> "body", odd |-> "up"]),
      body   |-> TryRecv([whole |-> "up"], "up")])

\* STARTUP; any opcode of a known protocol version is an answer.
Cassandra(tls) ==
  DB(tls, {"class"},
     [ask    |-> Send(Timeout, "header"),
      header |-> Recv([READY |-> "up", AUTHENTICATE |-> "class", odd |-> "up",
                       opcode |-> "up", other |-> "down"]),
      class  |-> TryRecv([whole |-> "up"], "up")])

\* The initial handshake has a second, whatever the timeout, and so has the
\* answer to the authentication request, which is for diagnostics: a reply that
\* ends less than 30 bytes after "databaseName" is sliced past its end.
SAPHANA ==
  DB(FALSE, {"auth", "reply"},
     [ask   |-> Send(Timeout, "init"),
      init  |-> Step("recv", Second, [some |-> "auth", short |-> "down"], Fails("down")),
      auth  |-> TrySend(Keep, "reply", "up"),
      reply |-> Step("recv", Second, [some |-> "up", short |-> "panic"], Fails("up"))])
=============================================================================
