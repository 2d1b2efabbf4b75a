----------------------------- MODULE TargetPool -----------------------------
(***************************************************************************)
(* internal/config/helpers.go: what ResolveTargetPool makes of the words   *)
(* given with --host, --port, --uri and --protocol, in each turn of its    *)
(* nested loops.  What a word says is data: the constants below stand for  *)
(* splitAndTrimComma, strconv.ParseUint, url.Parse and the suffix          *)
(* ".mongodb.net" on the words of an instance.                             *)
(***************************************************************************)
EXTENDS Protocols, CommandLine

CONSTANTS Items,    \* the items of a comma-separated word: [word -> Seq(item)]
          PortOf,   \* the number of an item that is a port: [item -> Port]
          Url,      \* scheme, host and port of a URI, "" and 0 for none
          Clusters  \* the hosts of MongoDB's cloud

Port == {n \in Nat : n <= 65535}

ASSUME PoolAssumption ==
  /\ Items \in [DOMAIN Items -> Seq(STRING)]
  /\ PortOf \in [DOMAIN PortOf -> Port]
  /\ Url \in [DOMAIN Url -> [scheme : STRING, host : STRING, port : Port]]

\* A word that is not in the domain of the constants is a single item, an item
\* is no port and has neither scheme nor port.
ItemsOf(word) == IF word \in DOMAIN Items THEN Items[word]
                 ELSE IF word = Empty THEN <<>> ELSE <<word>>
Number(item) == IF item \in DOMAIN PortOf THEN PortOf[item] ELSE 0
Parsed(item) == IF item \in DOMAIN Url THEN Url[item]
                ELSE [scheme |-> Empty, host |-> item, port |-> 0]

Elements(s) == {s[i] : i \in DOMAIN s}

Target(host, port, protocol) == [host |-> host, port |-> port, protocol |-> protocol]

\* ResolveProtocolAndPort: the hosts that some protocols have by themselves.
DefaultHost(p) ==
  CASE p = "o365"      -> "outlook.office365.com"
    [] p = "s3"        -> "s3.amazonaws.com"
    [] p = "azureblob" -> "blob.core.windows.net"
    [] p = "gcs"       -> "storage.googleapis.com"
    [] p = "entra"     -> "login.microsoftonline.com"
    [] OTHER           -> Empty

\* It gives UDP no port, and the pool turns none and 0 into 443.
DefaultPort(p) == IF p = "udp" \/ DefaultPorts[p] = 0 THEN 443 ELSE DefaultPorts[p]

\* What the code works on, with its defaults.
HostWord(o) == IF o.host = Empty /\ o.port = Empty
               THEN DefaultHost(NormalizeProtocol(o.protocol)) ELSE o.host
Hosts(o) == IF ItemsOf(HostWord(o)) = <<>> THEN <<"127.0.0.1">> ELSE ItemsOf(HostWord(o))
Ports(o) == [i \in DOMAIN ItemsOf(o.port) |-> Number(ItemsOf(o.port)[i])]
Protocols(o) == IF ItemsOf(o.protocol) = <<>> THEN <<"tcp">>
                ELSE [i \in DOMAIN ItemsOf(o.protocol) |->
                        NormalizeProtocol(ItemsOf(o.protocol)[i])]

\* Before the loops: no host at all, or a port that is no number in 1..65535.
Rejected(o) ==
  /\ o.uri = Empty
  /\ (o.port = Empty /\ HostWord(o) = Empty) \/ 0 \in Elements(Ports(o))

\* Mutant of Paired: it is enough that there is a port for each protocol.
PairedIfEnough(o) == Len(Protocols(o)) > 1 /\ Len(Ports(o)) >= Len(Protocols(o))

\* As many ports as protocols: the first with the first, and so on.
Paired(o) == Len(Protocols(o)) > 1 /\ Len(Ports(o)) = Len(Protocols(o))

\* A turn of the loops over hosts (or URIs), ports and protocols: the indexes
\* of the first one and of the last, and the one after t.
FirstTurn == [host |-> 1, port |-> 1, protocol |-> 1]

LastTurn(o) ==
  IF o.uri # Empty THEN [host |-> Len(ItemsOf(o.uri)), port |-> 1, protocol |-> 1]
  ELSE [host |-> Len(Hosts(o)),
        port |-> IF Ports(o) = <<>> \/ Paired(o) THEN 1 ELSE Len(Ports(o)),
        protocol |-> Len(Protocols(o))]

NextTurn(o, t) ==
  IF t.protocol < LastTurn(o).protocol THEN [t EXCEPT !.protocol = @ + 1]
  ELSE IF t.port < LastTurn(o).port
  THEN [host |-> t.host, port |-> t.port + 1, protocol |-> 1]
  ELSE [host |-> t.host + 1, port |-> 1, protocol |-> 1]

\* --uri: an item has the protocol of --protocol or, without one, of its
\* scheme, and its own port or the protocol's.
UriAt(o, t) == Parsed(ItemsOf(o.uri)[t.host])
UriProtocol(o, t) ==
  NormalizeProtocol(IF o.protocol # Empty THEN o.protocol ELSE UriAt(o, t).scheme)

\* A protocol and its port: its default, the one of its pair, or any.
PortAt(o, t) == CASE Ports(o) = <<>> -> DefaultPort(Protocols(o)[t.protocol])
                  [] Ports(o) # <<>> /\ Paired(o)  -> Ports(o)[t.protocol]
                  [] Ports(o) # <<>> /\ ~Paired(o) -> Ports(o)[t.port]

TargetAt(o, t) ==
  IF o.uri # Empty
  THEN Target(UriAt(o, t).host,
              IF UriAt(o, t).port = 0 THEN DefaultPort(UriProtocol(o, t)) ELSE UriAt(o, t).port,
              UriProtocol(o, t))
  ELSE Target(Hosts(o)[t.host], PortAt(o, t), Protocols(o)[t.protocol])

\* The targets whose names stand for the nodes of a cluster.
IsCluster(t) == \/ t.protocol = "mongodbsrv"
                \/ t.host \in Clusters /\ t.protocol \in {"mongodb", "mongodbs", "tcp"}
ClusterSchemes == {"mongodb+srv", "mongo+srv"}
ClusterAt(o, t) ==
  IF o.uri # Empty
  THEN \/ UriAt(o, t).scheme \in ClusterSchemes
       \/ IsCluster(TargetAt(o, t)) /\ UriProtocol(o, t) # "tcp"
  ELSE Ports(o) = <<>> /\ IsCluster(TargetAt(o, t))

\* ResolveMongoSRV: the nodes of a cluster; the answer is empty if the lookup
\* fails, and the cluster's own name is probed instead.
Nodes(answer) ==
  [i \in DOMAIN answer |->
     Target(answer[i].host, IF answer[i].port = 0 THEN 27017 ELSE answer[i].port, "mongodbs")]

OrNodes(srv, answer, target) ==
  IF srv /\ answer # <<>> THEN Nodes(answer) ELSE <<target>>
=============================================================================
