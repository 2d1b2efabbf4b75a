----------------------------- MODULE CommandLine -----------------------------
(***************************************************************************)
(* The arguments of the process and the flags of internal/config/config.go.*)
(* An argument is a flag, "--name" or "--name=word", or a word on its own; *)
(* "-" and "--" are the flag named "-".                                    *)
(***************************************************************************)
EXTENDS Sequences

\* The empty string, which stands for what is not given.
Empty == ""

Flag(name) == [name |-> name, word |-> Empty]
Assign(name, word) == [name |-> name, word |-> word]
Word(word) == [name |-> Empty, word |-> word]
Dash == Flag("-")

\* registerFlags, those that decide what is started, with their defaults.
Switches == {"ipv4", "ipv6", "trigger", "traceroute", "help", "version", "updates"}
FlagsRequiringValue ==
  {"host", "port", "uri", "protocol", "interval", "interface", "listen", "retry", "keystore",
   "keyhash", "generate", "format", "file"}

Defaults ==
  [name \in Switches \union FlagsRequiringValue |->
     IF name \in Switches THEN "false"
     ELSE IF name = "protocol" THEN "tcp"
     ELSE IF name = "interval" THEN "1" ELSE IF name = "retry" THEN "0" ELSE Empty]

IsFlag(a) == a.name # Empty
TakesNext(a) == a.name \in FlagsRequiringValue /\ a.word = Empty
=============================================================================
