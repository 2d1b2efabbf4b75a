------------------------------ MODULE MCStartup ------------------------------
(***************************************************************************)
(* Startup on command lines that take every path of the configuration, in  *)
(* every order of their options.                                           *)
(***************************************************************************)
EXTENDS Startup, SequencesExt

Ask(name, word) == <<Flag(name), Word(word)>>
Lone(name) == <<Flag(name)>>

\* The options of one command line: they are given in every order.
MCOptions ==
  { {Ask("host", "srv"), Ask("port", "443"), <<Word("srv")>>, Lone("ipv4")},
    {Ask("host", "srv,web"), Ask("port", "80,443"), Ask("protocol", "http,https")},
    {Ask("host", "srv"), <<Dash>>, Ask("protocol", "http,https"), Lone("ipv6")},
    {Ask("host", "srv"), Ask("port", "22,80,443"), Ask("protocol", "http,https")},
    {Ask("host", "srv,web"), Ask("file", "x.db")},
    {Ask("host", "srv,web"), Ask("port", "80,443"), Ask("interface", "eth0"), Lone("ipv6")},
    {Ask("host", "srv"), Ask("interface", "eth0"), Ask("protocol", "udp"), Lone("ipv4")},
    {Ask("host", "srv"), Ask("interface", "v6only"), Lone("ipv4")},
    {Ask("host", "::1"), Ask("interface", "10.0.0.1"), Ask("retry", "3")},
    {Ask("host", "srv"), Ask("interface", "none"), Ask("retry", "3")},
    {Ask("host", "srv"), Ask("retry", "3"), <<Assign("port", "443")>>, Ask("port", "80")},
    {Ask("host", "srv"), Lone("ipv4"), Lone("ipv6"), Ask("generate", "store")},
    {Ask("generate", "store"), <<Word("srv")>>},
    {Ask("port", "80,443"), Ask("keystore", "store"), Lone("traceroute")},
    {Ask("keystore", "store"), <<Dash>>, Lone("ipv4")},
    {Ask("keystore", "store"), Lone("trigger"), Ask("interface", "eth0")},
    {Ask("listen", ":3000"), Ask("host", "srv"), Ask("keyhash", "hash")},
    {Ask("listen", ":3000"), Ask("file", "x.log"), Lone("traceroute")},
    {Lone("trigger"), Ask("uri", ","), Lone("help")},
    {Ask("protocol", "s3"), <<Assign("ipv4", "false")>>, Lone("ipv6")},
    {Ask("protocol", "icmp"), <<Word("srv")>>},
    {Ask("protocol", "icmp"), Ask("host", "srv"), <<Word("443")>>},
    {Ask("host", "srv"), Ask("port", "0"), Lone("version")},
    {Ask("host", "srv"), Ask("port", ","), Ask("interval", "0.001")},
    {Ask("host", "srv"), Ask("format", "xml"), Lone("updates")},
    {Ask("host", "srv"), Ask("format", "csv"), Ask("file", "x.db")},
    {Ask("host", "srv"), Lone("port"), Lone("unknown")},
    {Ask("host", "srv"), Lone("unknown")},
    {Ask("host", "srv"), Ask("interval", "abc")}, {Ask("host", "srv"), <<Assign("ipv4", "foo")>>},
    {Ask("uri", "ssh://srv:22,https://web"), Ask("retry", "3"), Lone("traceroute")},
    {Ask("uri", "ssh://srv:22,https://web"), Ask("protocol", "")},
    {Ask("uri", "mongodb+srv://c.mongodb.net,srv:22"), Lone("ipv6")},
    {Ask("uri", "mongodb+srv://c.mongodb.net,srv:22"), Ask("protocol", "mongodb"),
     Ask("host", "web")},
    {Ask("host", "c.mongodb.net,srv"), Ask("protocol", "atlas")},
    {Ask("host", "c.mongodb.net,srv"), Ask("protocol", "http,mongodb")},
    {Ask("host", "c.mongodb.net,srv"), Ask("port", "80,443")},
    {Ask("uri", "c.mongodb.net")}, {Ask("uri", "c.mongodb.net"), Ask("protocol", "mongodb")},
    {} }

MCCommands == UNION {{FlattenSeq(s) : s \in SetToSeqs(options)} : options \in MCOptions}

\* A command line of docs/CONCURRENCY.md.
MCHeterogeneous == {Ask("uri", "ssh://srv:22,https://web")}

MCItems ==
  ("," :> <<>>) @@ ("srv,web" :> <<"srv", "web">>) @@
  ("80,443" :> <<"80", "443">>) @@ ("22,80,443" :> <<"22", "80", "443">>) @@
  ("http,https" :> <<"http", "https">>) @@ ("http,mongodb" :> <<"http", "mongodb">>) @@
  ("c.mongodb.net,srv" :> <<"c.mongodb.net", "srv">>) @@
  ("ssh://srv:22,https://web" :> <<"ssh://srv:22", "https://web">>) @@
  ("mongodb+srv://c.mongodb.net,srv:22" :> <<"mongodb+srv://c.mongodb.net", "srv:22">>)

MCPortOf == ("22" :> 22) @@ ("80" :> 80) @@ ("443" :> 443)

MCUrl ==
  ("ssh://srv:22" :> [scheme |-> "ssh", host |-> "srv", port |-> 22]) @@
  ("https://web" :> [scheme |-> "https", host |-> "web", port |-> 0]) @@
  ("srv:22" :> [scheme |-> "", host |-> "srv", port |-> 22]) @@
  ("mongodb+srv://c.mongodb.net" :>
     [scheme |-> "mongodb+srv", host |-> "c.mongodb.net", port |-> 0])

MCNics ==
  [eth0 |-> <<[family |-> 6, linklocal |-> TRUE], [family |-> 6, linklocal |-> FALSE],
              [family |-> 4, linklocal |-> FALSE]>>,
   v6only |-> <<[family |-> 6, linklocal |-> FALSE]>>]

MCSrvAnswers ==
  {<<>>, <<[host |-> "n1", port |-> 27018], [host |-> "n2", port |-> 0]>>}

MCLiterals == "::1" :> 6
MCAddresses == "10.0.0.1" :> 4
MCFileFormats == ("x.db" :> "sqlite") @@ ("x.log" :> "")
MCMalformed == {<<"interval", "abc">>, <<"ipv4", "foo">>}
MCClusters == {"c.mongodb.net"}
=============================================================================
