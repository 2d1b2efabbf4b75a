------------------------------- MODULE Startup -------------------------------
(***************************************************************************)
(* A start of the process, from its arguments to the mode it runs in:      *)
(* ProcessUserInput of internal/config/config.go with the flags            *)
(* (CommandLine), the targets (TargetPool), the name lookups of            *)
(* internal/dns and the network interface of internal/nic, then the mode   *)
(* that main of cmd/netping.go chooses.  Its loops over arguments, targets *)
(* and names are one action for each turn.  The answers of the name        *)
(* servers and the failures of files and sockets are free.                 *)
(***************************************************************************)
EXTENDS TargetPool

CONSTANTS Commands,    \* the command lines to start with
          Literals,    \* the hosts that are addresses: [host -> 4 or 6]
          Addresses,   \* those of the machine's interfaces: [word -> 4 or 6]
          Nics,        \* the addresses of an interface: [name -> Seq([family, linklocal])]
          SrvAnswers,  \* answers to a cluster lookup, <<>> for a failure
          FileFormats, \* the format a file name asks for: [file -> format or ""]
          ShortIntervals,
          Malformed    \* a flag and a value that does not parse: <<name, word>>

ASSUME StartupAssumption ==
  /\ Commands \subseteq Seq([name : STRING, word : STRING])
  /\ Literals \in [DOMAIN Literals -> {4, 6}]
  /\ Addresses \in [DOMAIN Addresses -> {4, 6}]
  /\ Nics \in [DOMAIN Nics -> Seq([family : {4, 6}, linklocal : BOOLEAN])]
  /\ SrvAnswers \subseteq Seq([host : STRING, port : Port])
  /\ FileFormats \in [DOMAIN FileFormats -> {"json", "csv", "tsv", "sqlite", "txt", Empty}]
  /\ Malformed \subseteq STRING \X STRING

VARIABLES given,       \* the arguments of the process
          flagArgs,    \* the places of the flags and of their values among them
          nonFlagArgs, \* the places of the words
          cursor,       \* the next argument that permuteArgs or flag.Parse looks at
          step,        \* the next step of the start, "done" at its end
          opts,        \* the values of the flags, a function on DOMAIN Defaults
          turn,        \* the turn of the loops of ResolveTargetPool
          pool,        \* the sequence of its targets
          asked,       \* history: the target that each of them is, or is a node of
          targets,     \* those of them that are looked up: targetConfigs
          source,      \* the family of the source address, 0 if none is chosen
          outcome      \* the mode the process runs in, or how it exits

argVars == <<flagArgs, nonFlagArgs, cursor>>
poolVars == <<turn, pool, asked>>
startVars == <<given, argVars, step, opts, poolVars, targets, source, outcome>>

Modes == {"listener", "traceroute", "fleet", "single"}

StartInit == /\ given \in Commands
             /\ flagArgs = <<>> /\ nonFlagArgs = <<>> /\ cursor = 1
             /\ step = "permute" /\ opts = Defaults
             /\ turn = FirstTurn /\ pool = <<>> /\ asked = <<>> /\ targets = <<>>
             /\ source = 0 /\ outcome = Empty

\* STRING, with its elements that the code has as literals.
Text == STRING \union {Empty, "tcp", "1", "0", "false", "true", "127.0.0.1"}
               \union {DefaultHost(p) : p \in Protocol}

TargetDef == [host : Text, port : Port, protocol : Protocol]
TargetConfig == [host : Text, port : Port, protocol : Protocol,
                 ip : {0, 4, 6}, retry : BOOLEAN]

StartTypeOK ==
  /\ given \in Commands
  /\ flagArgs \in Seq(1..Len(given)) /\ nonFlagArgs \in Seq(1..Len(given))
  /\ cursor \in Nat /\ cursor >= 1
  /\ step \in {"permute", "parse", "flags", "pool", "expand", "interval", "lookup", "main",
              "done"}
  /\ opts \in [DOMAIN Defaults -> Text]
  /\ turn \in [host : Nat, port : Nat, protocol : Nat]
  /\ pool \in Seq(TargetDef) /\ asked \in Seq(TargetDef)
  /\ targets \in Seq(TargetConfig)
  /\ source \in {0, 4, 6}
  /\ outcome \in Modes \union {Empty, "success", "general", "usage", "storage"}

Goto(s) == step' = s /\ UNCHANGED outcome
End(o) == step' = "done" /\ outcome' = o

On(o, switch) == o[switch] = "true"

Permuting == step = "permute" /\ cursor <= Len(given)

\* A word that is no value.
PermuteWord ==
  /\ Permuting /\ ~IsFlag(given[cursor])
  /\ nonFlagArgs' = Append(nonFlagArgs, cursor) /\ cursor' = cursor + 1
  /\ UNCHANGED <<given, flagArgs, step, opts, poolVars, targets, source, outcome>>

\* A switch, or a flag with its value in the same argument.
PermuteSwitch ==
  /\ Permuting /\ IsFlag(given[cursor]) /\ ~TakesNext(given[cursor])
  /\ flagArgs' = Append(flagArgs, cursor) /\ cursor' = cursor + 1
  /\ UNCHANGED <<given, nonFlagArgs, step, opts, poolVars, targets, source, outcome>>

\* Mutant of PermuteValue: the value stays with the words.
PermuteFlagAlone ==
  /\ Permuting /\ TakesNext(given[cursor])
  /\ flagArgs' = Append(flagArgs, cursor) /\ cursor' = cursor + 1
  /\ UNCHANGED <<given, nonFlagArgs, step, opts, poolVars, targets, source, outcome>>

\* A flag and the value after it, which may not look like a flag.
PermuteValue ==
  /\ Permuting /\ TakesNext(given[cursor])
  /\ IF cursor = Len(given) \/ IsFlag(given[cursor + 1])
     THEN End("usage") /\ UNCHANGED argVars
     ELSE /\ flagArgs' = flagArgs \o <<cursor, cursor + 1>> /\ cursor' = cursor + 2
          /\ UNCHANGED <<nonFlagArgs, step, outcome>>
  /\ UNCHANGED <<given, opts, poolVars, targets, source>>

Permuted ==
  /\ step = "permute" /\ cursor > Len(given)
  /\ Goto("parse") /\ cursor' = 1
  /\ UNCHANGED <<given, flagArgs, nonFlagArgs, opts, poolVars, targets, source>>

\* The line that flag.Parse reads, and the argument at a place of it.
Line == flagArgs \o nonFlagArgs
Arg(i) == given[Line[i]]

\* flag.Parse stops at a word and at "-" and "--".
ParseEnds == cursor <= Len(Line) => ~IsFlag(Arg(cursor)) \/ Arg(cursor) = Dash

\* A flag that is given twice has the value given last; an unknown one, a
\* missing value and one that is no number, duration or truth value end it.
ParseOne ==
  /\ step = "parse" /\ ~ParseEnds
  /\ LET a == Arg(cursor)
         value == IF TakesNext(a) THEN Arg(cursor + 1).word
                  ELSE IF a.word = Empty THEN "true" ELSE a.word
     IN  IF \/ a.name \notin DOMAIN Defaults
            \/ TakesNext(a) /\ cursor = Len(Line)
            \/ <<a.name, value>> \in Malformed
         THEN End("usage") /\ UNCHANGED <<cursor, opts>>
         ELSE /\ opts' = [opts EXCEPT ![a.name] = value]
              /\ cursor' = IF TakesNext(a) THEN cursor + 2 ELSE cursor + 1
              /\ UNCHANGED <<step, outcome>>
  /\ UNCHANGED <<given, flagArgs, nonFlagArgs, poolVars, targets, source>>

ParseDone ==
  /\ step = "parse" /\ ParseEnds
  /\ Goto("flags")
  /\ UNCHANGED <<given, argVars, opts, poolVars, targets, source>>

\* --help, --version and --check-updates, in this order; the last asks a server.
Inform ==
  /\ step = "flags"
  /\ \/ On(opts, "help") /\ End("usage")
     \/ ~On(opts, "help") /\ On(opts, "version") /\ End("success")
     \/ /\ ~On(opts, "help") /\ ~On(opts, "version") /\ On(opts, "updates")
        /\ \E o \in {"success", "general"} : End(o)
     \/ ~(\E s \in {"help", "version", "updates"} : On(opts, s)) /\ Goto("pool")
  /\ UNCHANGED <<given, argVars, opts, poolVars, targets, source>>

AsksForTargets(o) == o.host # Empty \/ o.port # Empty \/ o.uri # Empty
TriggerMode(o) ==
  On(o, "trigger") \/ o.listen # Empty \/ (o.keystore # Empty /\ ~AsksForTargets(o))

\* Mutant of NeedsTargets: a listener never has targets.
NeedsNoTargetsToListen(o) == ~TriggerMode(o)

NeedsTargets(o) == ~TriggerMode(o) \/ AsksForTargets(o)

\* --generate-api-key: random bytes, then the store; nothing else is read.
Generate ==
  /\ step = "pool" /\ opts.generate # Empty
  /\ IF On(opts, "ipv4") /\ On(opts, "ipv6") THEN End("usage")
     ELSE \E o \in {"success", "general", "storage"} : End(o)
  /\ UNCHANGED <<given, argVars, opts, poolVars, targets, source>>

Resolve ==
  /\ step = "pool" /\ opts.generate = Empty
  /\ IF (On(opts, "ipv4") /\ On(opts, "ipv6")) \/ (NeedsTargets(opts) /\ Rejected(opts))
     THEN End("usage")
     ELSE Goto(IF NeedsTargets(opts) THEN "expand" ELSE "interval")
  /\ UNCHANGED <<given, argVars, opts, poolVars, targets, source>>

\* One turn of the loops: a target, or the nodes of a cluster in its place.
Expand ==
  /\ step = "expand" /\ turn.host <= LastTurn(opts).host
  /\ LET t == TargetAt(opts, turn)
     IN  IF opts.uri # Empty /\ t.host = Empty THEN End("usage") /\ UNCHANGED poolVars
         ELSE \E answer \in SrvAnswers :
                LET found == OrNodes(ClusterAt(opts, turn), answer, t)
                IN  /\ pool' = pool \o found
                    /\ asked' = asked \o [i \in DOMAIN found |-> t]
                    /\ turn' = NextTurn(opts, turn)
                    /\ UNCHANGED <<step, outcome>>
  /\ UNCHANGED <<given, argVars, opts, targets, source>>

ExpandDone ==
  /\ step = "expand" /\ turn.host > LastTurn(opts).host
  /\ IF pool = <<>> THEN End("usage") ELSE Goto("interval")
  /\ UNCHANGED <<given, argVars, opts, poolVars, targets, source>>

CheckInterval ==
  /\ step = "interval"
  /\ IF opts.interval \in ShortIntervals THEN End("usage") ELSE Goto("lookup")
  /\ UNCHANGED <<given, argVars, opts, poolVars, targets, source>>

\* Resolver.ResolveHostname on a name with addresses of these families: one of
\* the wanted family, of IPv4 if both do; 0 if there is none.
Resolved(o, families) ==
  LET wanted == IF On(o, "ipv4") THEN families \intersect {4}
                ELSE IF On(o, "ipv6") THEN families \intersect {6} ELSE families
  IN  IF wanted = {} THEN 0 ELSE IF 4 \in wanted THEN 4 ELSE 6

\* A target without an address is looked up again while it fails, and so is
\* every name with --retry-resolve.
RetryResolve(o, host, ip) == (ip = 0 \/ o.retry # "0") /\ host \notin DOMAIN Literals

Lookup ==
  /\ step = "lookup" /\ Len(targets) < Len(pool)
  /\ LET t == pool[Len(targets) + 1]
     IN  \E ip \in IF t.host \in DOMAIN Literals THEN {Literals[t.host]}
                   ELSE {Resolved(opts, f) : f \in SUBSET {4, 6}} :
           targets' = Append(targets, [host |-> t.host, port |-> t.port, protocol |-> t.protocol,
                                       ip |-> ip, retry |-> RetryResolve(opts, t.host, ip)])
  /\ UNCHANGED <<given, argVars, step, opts, poolVars, source, outcome>>

LookupsDone == step = "lookup" /\ Len(targets) = Len(pool)

\* NewNetworkInterface on a name: its first address of a wanted family.
Usable(o, a) == \/ a.family = 4 /\ ~On(o, "ipv6")
                \/ a.family = 6 /\ ~On(o, "ipv4") /\ ~a.linklocal
FirstUsable(o, nic) ==
  {nic[i].family : i \in {k \in DOMAIN nic : /\ Usable(o, nic[k])
                                            /\ \A j \in 1..(k - 1) : ~Usable(o, nic[j])}}

\* The family of --interface's address; none if the machine has no such
\* address, no such interface or no usable address on it.
SourceFamilies(o) ==
  CASE o.interface \in DOMAIN Addresses                 -> {Addresses[o.interface]}
    [] o.interface \in DOMAIN Nics \ DOMAIN Addresses   -> FirstUsable(o, Nics[o.interface])
    [] o.interface \notin DOMAIN Nics \union DOMAIN Addresses -> {}

\* --output-format or, without it, the extension of --output-file.
Format(o) == IF o.format = Empty /\ o.file # Empty THEN FileFormats[o.file] ELSE o.format

FilePerRecord == {"csv", "tsv"} \union {"sqlite", "sqlite3", "db"}
Supported == {"json", "pretty_json", "pretty-json", "prettyjson", "txt", "text", "plain"}
             \union FilePerRecord \union {Empty}

Bind ==
  /\ LookupsDone
  /\ IF \/ opts.interface # Empty /\ SourceFamilies(opts) = {}
        \/ Format(opts) \notin Supported
     THEN End("usage") /\ UNCHANGED source
     ELSE /\ Goto("main")
          /\ source' \in IF opts.interface = Empty THEN {source} ELSE SourceFamilies(opts)
  /\ UNCHANGED <<given, argVars, opts, poolVars, targets>>

\* main: the listener if it was asked for and there is no target.
Listen ==
  /\ step = "main" /\ TriggerMode(opts) /\ targets = <<>>
  /\ \/ (opts.keystore # Empty \/ opts.keyhash # Empty) /\ End("usage")
     \/ \E o \in {"general", "listener"} : End(o)
  /\ UNCHANGED <<given, argVars, opts, poolVars, targets, source>>

\* main with targets; NewPrinter may fail to create its file.
RunProbers ==
  /\ step = "main" /\ ~(TriggerMode(opts) /\ targets = <<>>)
  /\ \/ Format(opts) \in FilePerRecord /\ End("storage")
     \/ End(IF On(opts, "traceroute") THEN "traceroute"
            ELSE IF Len(targets) > 1 THEN "fleet" ELSE "single")
  /\ UNCHANGED <<given, argVars, opts, poolVars, targets, source>>

Started == step = "done" /\ UNCHANGED startVars

StartNext == \/ PermuteWord \/ PermuteSwitch \/ PermuteValue \/ Permuted
             \/ ParseOne \/ ParseDone \/ Inform \/ Generate
             \/ Resolve \/ Expand \/ ExpandDone \/ CheckInterval
             \/ Lookup \/ Bind \/ Listen \/ RunProbers \/ Started

StartSpec == StartInit /\ [][StartNext]_startVars

-----------------------------------------------------------------------------
Given(name) ==
  {i \in DOMAIN given : given[i].name = name /\ \A j \in 1..i : given[j] # Dash}

ValueAt(i) == IF given[i].word # Empty THEN given[i].word
              ELSE IF given[i].name \in Switches THEN "true" ELSE given[i + 1].word

(***************************************************************************)
(* Wherever it stands among the words, each flag before a "--" has the     *)
(* value given last, and a flag that is not given keeps its default: the   *)
(* rearranging of config.go:98 exists for this.                            *)
(***************************************************************************)
OptionsAreRead ==
  step \notin {"permute", "parse", "done"} =>
    \A name \in DOMAIN Defaults :
      IF Given(name) = {} THEN opts[name] = Defaults[name]
      ELSE \E i \in Given(name) :
             (\A j \in Given(name) : j <= i) /\ opts[name] = ValueAt(i)

Distinct(s) == \A i, j \in DOMAIN s : s[i] = s[j] => i = j

(***************************************************************************)
(* The targets that a command line asks for, whatever the loops do.  Each  *)
(* URI is one, with its own port or its protocol's, by the protocol of     *)
(* --protocol or its scheme.  Otherwise every host is probed by every      *)
(* protocol at its default port; with as many ports as protocols, by each  *)
(* protocol at the port in the same place; else by every protocol at every *)
(* port (docs/CONCURRENCY.md, "Syntax & Expansion Rules").                 *)
(***************************************************************************)
Wanted(o) ==
  IF o.uri # Empty
  THEN LET By(u) == NormalizeProtocol(IF o.protocol # Empty THEN o.protocol ELSE u.scheme)
           Own(u) == Target(u.host, IF u.port # 0 THEN u.port ELSE DefaultPort(By(u)),
                            By(u))
       IN  {Own(Parsed(item)) : item \in Elements(ItemsOf(o.uri))}
  ELSE IF Ports(o) = <<>>
  THEN {Target(h, DefaultPort(p), p) : h \in Elements(Hosts(o)), p \in Elements(Protocols(o))}
  ELSE IF Len(Ports(o)) = Len(Protocols(o))
  THEN {Target(h, Ports(o)[i], Protocols(o)[i]) : h \in Elements(Hosts(o)), i \in DOMAIN Ports(o)}
  ELSE {Target(h, n, p) : h \in Elements(Hosts(o)), n \in Elements(Ports(o)),
                          p \in Elements(Protocols(o))}

\* The name of a cluster: in a URI by its scheme, or of MongoDB's cloud and
\* without a port.
NamesCluster(o, t) ==
  \/ /\ o.uri # Empty
     /\ \E item \in Elements(ItemsOf(o.uri)) : /\ Parsed(item).host = t.host
                                            /\ Parsed(item).scheme \in ClusterSchemes
  \/ IsCluster(t) /\ IF o.uri # Empty THEN t.protocol # "tcp" ELSE Ports(o) = <<>>

\* The i-th target is a node of what was asked for, and so are all the nodes
\* of that answer.
IsNode(i) ==
  /\ NamesCluster(opts, asked[i])
  /\ \E answer \in SrvAnswers :
       /\ pool[i] \in Elements(Nodes(answer))
       /\ \A node \in Elements(Nodes(answer)) :
            \E j \in DOMAIN pool : pool[j] = node /\ asked[j] = asked[i]

(***************************************************************************)
(* Nothing that is asked for is left out and nothing else is probed: each  *)
(* host, port and protocol together as they were asked for, all the nodes  *)
(* of a cluster in the place of its name and of no other, no port 0, and   *)
(* no target twice unless it is asked for twice (ResolveTargetPool).       *)
(***************************************************************************)
PoolIsAsked ==
  step \in {"interval", "lookup", "main"} /\ NeedsTargets(opts) =>
    /\ pool # <<>> /\ DOMAIN asked = DOMAIN pool
    /\ Elements(asked) = Wanted(opts)
    /\ \A i \in DOMAIN pool : /\ pool[i].port \in Port \ {0}
                              /\ pool[i] = asked[i] \/ IsNode(i)
    /\ (/\ opts.uri = Empty
        /\ Distinct(Hosts(opts)) /\ Distinct(Ports(opts)) /\ Distinct(Protocols(opts))) =>
         \A i, j \in DOMAIN asked : asked[i] = asked[j] =>
           i = j \/ (Ports(opts) = <<>> /\ IsCluster(asked[i]))

OfFamily(family) ==
  /\ \A i \in DOMAIN targets : \/ targets[i].ip \in {0, family}
                               \/ targets[i].host \in DOMAIN Literals
  /\ opts.interface \in DOMAIN Nics \ (DOMAIN Addresses \union {Empty}) =>
       source = family

(***************************************************************************)
(* The mode fits what was asked for: the listener runs alone only if no    *)
(* target is asked for, a fleet has several targets and a single prober    *)
(* one, in the order of the pool; with --ipv4 or --ipv6 the names and the  *)
(* interface have an address of that family; and the target that the start *)
(* could not look up is looked up again during the run.                    *)
(***************************************************************************)
RunFits ==
  outcome \in Modes =>
    /\ \A i \in DOMAIN targets :
         Target(targets[i].host, targets[i].port, targets[i].protocol) = pool[i]
    /\ (outcome = "listener") = (targets = <<>>)
    /\ outcome = "listener" => ~AsksForTargets(opts)
    /\ outcome = "fleet" => Len(targets) > 1
    /\ outcome = "single" => Len(targets) = 1 /\ (targets[1].ip = 0 => targets[1].retry)
    /\ On(opts, "ipv4") => OfFamily(4)
    /\ On(opts, "ipv6") => OfFamily(6)
    /\ opts.interface # Empty => source # 0

(***************************************************************************)
(* docs/CONCURRENCY.md:49, "netping --uri ssh://srv1:22,..." is resolved   *)
(* to "srv1:22 (SSH)": without --protocol, the scheme is the protocol.     *)
(***************************************************************************)
SchemesAreUsed ==
  step = "main" /\ opts.uri # Empty /\ Given("protocol") = {} =>
    \A u \in Elements(ItemsOf(opts.uri)) :
      Known(Parsed(u).scheme) =>
        \E t \in Elements(asked) :
          <<t.host, t.protocol>> = <<Parsed(u).host, NormalizeProtocol(Parsed(u).scheme)>>
=============================================================================
