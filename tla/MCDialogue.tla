----------------------------- MODULE MCDialogue -----------------------------
(***************************************************************************)
(* The probers that BuildPinger can build, with a timeout of two ticks     *)
(* and half a second of one.                                               *)
(***************************************************************************)
EXTENDS Factory, Dialogue, Protocols

Plain == [send |-> FALSE, expect |-> FALSE, port53 |-> FALSE, starttls |-> FALSE,
          provider |-> "hashicorp"]

Built(o) == BuildPinger(o @@ Plain)

\* Every protocol of the table has a prober, and no other is built.
ASSUME ProberOfEveryProtocol == DOMAIN Built(<<>>) = Protocol

\* The options that change a script, and the protocols they are given to.
Variant ==
  [tcpsend    |-> [of |-> "tcp",  with |-> [send |-> TRUE]],
   tcpexpect  |-> [of |-> "tcp",  with |-> [send |-> TRUE, expect |-> TRUE]],
   udpexpect  |-> [of |-> "udp",  with |-> [expect |-> TRUE]],
   udp53      |-> [of |-> "udp",  with |-> [port53 |-> TRUE]],
   httpexpect |-> [of |-> "http", with |-> [expect |-> TRUE]],
   smtptls    |-> [of |-> "smtp", with |-> [starttls |-> TRUE]],
   cyberark   |-> [of |-> "kms",  with |-> [provider |-> "cyberark"]],
   awskms     |-> [of |-> "kms",  with |-> [provider |-> "aws"]],
   azurekms   |-> [of |-> "kms",  with |-> [provider |-> "azure"]],
   gcpkms     |-> [of |-> "kms",  with |-> [provider |-> "gcp"]]]

Start(p) == IF p \in DOMAIN Variant THEN Variant[p] ELSE [of |-> p, with |-> <<>>]

\* Every protocol without options and with those, and what only a user of the
\* package can ask for (a password, STARTTLS on FTP, a hop).
AllScripts ==
  [p \in Protocol \union DOMAIN Variant |-> Built(Start(p).with)[Start(p).of]] @@
  [redisauth |-> Redis(FALSE, TRUE),
   ftptls    |-> FTP(FALSE, TRUE),
   hop       |-> ProbeTTL]

AllProbes == Protocol \union DOMAIN Variant \union {"redisauth", "ftptls", "hop"}

Most(S) == CHOOSE m \in S : \A n \in S : n <= m

\* When the labels of a script are left at the latest, over all the paths of
\* at most n steps; loops add nothing, so that n = 10 covers every path.
Latest(s) ==
  LET L == DOMAIN s.step
      Before(l) == {k \in L : \E o \in DOMAIN s.step[k].on : s.step[k].on[o] = l}
      by[n \in 0..10] ==
        [l \in L |-> IF n = 0 THEN s.step[l].d
                     ELSE Most({by[0][l]} \union
                               {by[n - 1][k] + s.step[l].d : k \in Before(l)})]
  IN by[10]

Budgets == [p \in AllProbes |-> Latest(AllScripts[p])]

\* The error codes of a healthy KDC: those of the comment in kerberos.go:228-230
\* that docs/KERBEROS.md:220-283 calls a success too, and "no error".
HealthyKdc == {0, 6, 7, 15, 24, 25, 37, 68}

\* What shows a live service: docs/MODERNIZATION.md:186-215, docs/KERBEROS.md,
\* docs/KMS.md and docs/SSO.md.  tcp asks for a connection and no more.  Two ask
\* for less: a hop of a traceroute is also reached when it refuses the
\* connection (traceroute.go:140), and plain udp is up unless the peer refuses,
\* so that its silence counts (udp.go:109-115).
Answers ==
  [p \in AllProbes |->
     CASE p = "tcp" -> {<<"dial", "ok">>}
       [] p = "hop" -> {"dial"} \X {"ok", "broken"}
       [] p = "tcpsend" -> {<<"send", "ok">>}
       [] p = "tcpexpect" -> {<<"expect", "match">>}
       [] p = "udp" -> {"reply"} \X {"match", "other", "timeout"}
       [] p = "udpexpect" -> {<<"reply", "match">>}
       [] p = "udp53" -> {"reply"} \X {"match", "other"}
       [] p = "tls" -> {<<"handshake", "ok">>}
       [] p \in {"redis", "rediss", "redisauth"} -> {"pong"} \X {"PONG", "NOAUTH"}
       [] p \in {"memcached", "memcacheds"} -> {<<"line", "VERSION">>}
       [] p = "ssh" -> {"lines", "banner"} \X {"SSH"}
       [] p \in {"ftp", "ftps", "ftptls"} -> {"lines", "banner"} \X {"c220"}
       [] p = "rsync" -> {<<"greeting", "RSYNCD">>}
       [] p \in {"ws", "wss"} -> {<<"status", "s101">>}
       [] p \in {"smtp", "smtps", "smtptls"} -> {<<"caps", "c250">>}
       [] p \in {"imap", "imaps"} -> {<<"caps", "OK">>}
       [] p \in {"pop3", "pop3s"} -> {<<"greeting", "OK">>}
       [] p \in {"kafka", "kafkas"} -> {"header"} \X {"fits", "odd"}
       [] p \in {"rabbitmq", "amqp", "amqps"} -> {"start"} \X {"start", "AMQP"}
       [] p \in {"ldap", "ldaps"} -> {"answer"} \X {"success", "nocode", "refused"}
       [] p = "smb" -> {"body"} \X {"SMB1", "SMB2", "status"}
       [] p = "icmp" -> {"reply"} \X {"echo", "other"}
       [] p \in {"dns", "dot"} -> {"reply"} \X {"NOERROR", "rcode"}
       [] p = "doh" -> {"query"} \X {"NOERROR", "rcode"}
       [] p \in {"kerberos", "kerberosudp"} ->
            {"body"} \X ({ToString(c) : c \in HealthyKdc} \union {"ASREP", "nocode"})
       [] p = "postgres" -> {"ssl"} \X {"S", "N"}
       [] p = "mysql" -> {"payload"} \X {"v10", "error"}
       [] p = "mssql" -> {"header"} \X {"fits", "odd"}
       [] p = "oracle" -> {"header"} \X {"ACCEPT", "REFUSE", "REDIRECT", "RESEND"}
       [] p \in {"mongodb", "mongodbs", "mongodbsrv"} -> {"header"} \X {"fits", "odd"}
       [] p \in {"cassandra", "cassandras"} ->
            {"header"} \X {"READY", "AUTHENTICATE", "odd", "opcode"}
       [] p = "saphana" -> {<<"init", "some">>}
       [] p \in {"http", "https", "o365", "s3", "azureblob", "gcs"} ->
            {<<"request", "answer">>}
       [] p = "httpexpect" -> {<<"body", "match">>}
       [] p \in {"grpc", "grpcs"} -> {"request"} \X {"status", "trailer"}
       [] p \in {"winrm", "winrms"} -> {"request"} \X {"s200", "s401"}
       [] p \in {"kms", "vault"} -> {"request"} \X {"200", "429", "472", "473", "501", "503"}
       [] p = "awskms" -> {"request"} \X {"200", "400", "403", "404"}
       [] p = "azurekms" -> {"request"} \X {"200", "401", "403"}
       [] p = "gcpkms" -> {"request"} \X {"200", "401", "403", "404"}
       [] p = "cyberark" -> {"request"} \X
            {ToString(c) : c \in {200, 302, 400, 401, 403, 404, 429, 472, 473}}
       [] p \in {"oidc", "saml", "oauth2", "sso", "entra"} -> {<<"request", "s2xx">>}]

\* The latency of these is the time of the whole call.
TimedAtReturn ==
  {"ftp", "ftps", "ftptls", "ws", "wss", "smtp", "smtps", "smtptls", "imap", "imaps",
   "pop3", "pop3s", "kafka", "kafkas", "rabbitmq", "amqp", "amqps", "ldap", "ldaps",
   "postgres", "mysql", "mssql", "oracle", "mongodb", "mongodbs", "mongodbsrv",
   "cassandra", "cassandras", "saphana"}

StopTheClockEarly == AllProbes \ TimedAtReturn

\* The decoders that follow a name without end, and those that slice a reply,
\* or make a buffer, without a look at its length.
FollowsNames == {"dns", "dot", "doh"}
TrustsLengths == {"rabbitmq", "amqp", "amqps", "redis", "rediss", "redisauth",
                  "mysql", "oracle", "saphana"}

Unchecked == [p \in AllProbes |-> CASE p \in FollowsNames -> {"spin", "panic"}
                                    [] p \in TrustsLengths -> {"panic"}
                                    [] OTHER -> {}]

MCProbe    == AllProbes
MCScript   == AllScripts
MCBudget   == Budgets
MCDecisive == Answers
MCPunctual == StopTheClockEarly
MCFragile  == Unchecked
=============================================================================
