------------------------------ MODULE Protocols ------------------------------
(***************************************************************************)
(* pkg/consts/protocols.go: the protocols, the names a user may give them  *)
(* and their default ports.  Names are in lower case, which is what the    *)
(* code makes of them.                                                     *)
(***************************************************************************)
EXTENDS Naturals

DefaultPorts ==
  [tcp |-> 443, tls |-> 443, udp |-> 53, http |-> 80, https |-> 443, icmp |-> 0,
   grpc |-> 50051, grpcs |-> 443, ws |-> 80, wss |-> 443,
   dns |-> 53, dot |-> 853, doh |-> 443, redis |-> 6379, rediss |-> 6380, ssh |-> 22,
   postgres |-> 5432, mysql |-> 3306, mssql |-> 1433, oracle |-> 1521,
   mongodb |-> 27017, mongodbs |-> 27017, mongodbsrv |-> 27017,
   cassandra |-> 9042, cassandras |-> 9042, saphana |-> 30015,
   memcached |-> 11211, memcacheds |-> 11211, smtp |-> 25, smtps |-> 465,
   imap |-> 143, imaps |-> 993, pop3 |-> 110, pop3s |-> 995, ldap |-> 389, ldaps |-> 636,
   o365 |-> 443, s3 |-> 443, azureblob |-> 443, gcs |-> 443,
   kafka |-> 9092, kafkas |-> 9093, rabbitmq |-> 5672, amqp |-> 5672, amqps |-> 5671,
   smb |-> 445, rsync |-> 873, ftp |-> 21, ftps |-> 990,
   kerberos |-> 88, kerberosudp |-> 88, oidc |-> 443, saml |-> 443, oauth2 |-> 443,
   sso |-> 443, winrm |-> 5985, winrms |-> 5986, entra |-> 443, kms |-> 443, vault |-> 8200]

Protocol == DOMAIN DefaultPorts

\* The names of a protocol besides its own; two have no name of their own.
Synonyms ==
  [tls |-> {"tcps", "ssl"}, icmp |-> {"ping"}, ws |-> {"websocket"}, wss |-> {"websockets"},
   ssh |-> {"sftp"}, postgres |-> {"postgresql", "psql"}, mysql |-> {"mariadb"},
   mssql |-> {"sqlserver"}, oracle |-> {"tns"}, mongodb |-> {"mongo"},
   mongodbs |-> {"mongodb+ssl", "mongo+ssl"},
   mongodbsrv |-> {"mongodb+srv", "mongo+srv", "mongosrv", "mongodb-srv", "atlas"},
   cassandra |-> {"scylla", "cql"}, cassandras |-> {"cqls"}, saphana |-> {"hana"},
   memcached |-> {"memcache"}, memcacheds |-> {"memcaches"},
   o365 |-> {"m365", "office365", "o365mbx", "graph"}, s3 |-> {"awss3"},
   azureblob |-> {"blob", "adls"}, gcs |-> {"gcpbucket", "gcpstorage"},
   rabbitmq |-> {"amqp"}, smb |-> {"cifs"},
   kerberos |-> {"krb5", "krb", "kdc", "kerberos-tcp", "krb5-tcp", "krb-tcp", "kdc-tcp"},
   kerberosudp |-> {"kerberos-udp", "krb5-udp", "krb-udp", "kdc-udp"},
   oidc |-> {"openid", "openid-connect", "oidc-discovery"},
   saml |-> {"saml2", "saml-idp", "saml-sp", "saml-metadata"},
   oauth2 |-> {"oauth", "oauth2-as", "oauth-metadata"},
   sso |-> {"single-sign-on", "federation"}, winrm |-> {"wsman", "ws-man"},
   winrms |-> {"wsman-ssl", "ws-mans", "wsman-tls"},
   entra |-> {"azureentra", "entraid", "azure-entra", "aad", "azuread", "azure-ad"},
   kms |-> {"awskms", "aws-kms", "azurekeyvault", "azure-keyvault", "akv", "gcpkms",
            "gcp-kms", "cyberark", "conjur"},
   vault |-> {"hashicorp-vault", "hcvault"}]

Names(p) == ({p} \ {"mongodbsrv", "amqp"})
            \union (IF p \in DOMAIN Synonyms THEN Synonyms[p] ELSE {})

Known(name) == \E p \in Protocol : name \in Names(p)

\* An unknown name, a list of names among them, stands for TCP.
NormalizeProtocol(name) ==
  IF Known(name) THEN CHOOSE p \in Protocol : name \in Names(p) ELSE "tcp"
=============================================================================
