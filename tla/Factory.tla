------------------------------ MODULE Factory ------------------------------
(***************************************************************************)
(* factory.go, BuildPinger: which prober, with which options, a protocol   *)
(* of pkg/consts gets.  The options o that change a script: a text to send *)
(* and one to expect (send, expect), UDP port 53 (port53), --starttls      *)
(* (starttls), and the provider that kms.go finds in the name of the host. *)
(***************************************************************************)
EXTENDS HttpScripts

\* No password reaches a Redis prober.
BuildWeb(o) ==
  [http |-> Web(o.expect), https |-> Web(o.expect),
   udp  |-> UDP(o.expect, o.port53), icmp |-> ICMP,
   grpc |-> GRPC, grpcs |-> GRPC, ws |-> WS(FALSE), wss |-> WS(TRUE),
   dns  |-> DNS, doh |-> DoH, dot |-> DoT,
   redis |-> Redis(FALSE, FALSE), rediss |-> Redis(TRUE, FALSE), ssh |-> SSH]

BuildDatabase(o) ==
  [postgres |-> Postgres, mysql |-> MySQL, mssql |-> MSSQL, oracle |-> Oracle,
   mongodb |-> MongoDB(FALSE), mongodbs |-> MongoDB(TRUE), mongodbsrv |-> MongoDB(TRUE),
   cassandra |-> Cassandra(FALSE), cassandras |-> Cassandra(TRUE), saphana |-> SAPHANA,
   memcached |-> Memcached(FALSE), memcacheds |-> Memcached(TRUE)]

\* The probers of IMAP and POP3 get --starttls, and make no use of it.
BuildMail(o) ==
  [smtp |-> SMTP(FALSE, o.starttls), smtps |-> SMTP(TRUE, FALSE),
   imap |-> IMAP(FALSE), imaps |-> IMAP(TRUE), pop3 |-> POP3(FALSE), pop3s |-> POP3(TRUE),
   tls  |-> RawTLS, ldap |-> LDAP(FALSE), ldaps |-> LDAP(TRUE),
   o365 |-> O365, s3 |-> Storage, azureblob |-> Storage, gcs |-> Storage]

BuildInfrastructure(o) ==
  [kafka |-> Kafka(FALSE), kafkas |-> Kafka(TRUE),
   rabbitmq |-> AMQP(FALSE), amqp |-> AMQP(FALSE), amqps |-> AMQP(TRUE),
   smb |-> SMB, rsync |-> Rsync, ftp |-> FTP(FALSE, FALSE), ftps |-> FTP(TRUE, FALSE),
   kerberos |-> Kerberos(FALSE), kerberosudp |-> Kerberos(TRUE),
   oidc |-> Discovery, saml |-> Metadata, oauth2 |-> Metadata, sso |-> Discovery,
   entra |-> Discovery, winrm |-> WinRM, winrms |-> WinRM,
   kms |-> KMS(o.provider), vault |-> KMS(o.provider)]

\* Every other protocol is probed with a TCP connection.
BuildPinger(o) ==
  BuildWeb(o) @@ BuildDatabase(o) @@ BuildMail(o) @@ BuildInfrastructure(o)
  @@ [tcp |-> TCP(o.send, o.expect)]
=============================================================================
