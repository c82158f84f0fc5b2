----------------------------- MODULE CommandLine -----------------------------
(***************************************************************************)
(* From the words of the option file and of the command line to Config,    *)
(* the filter expression and the command: OptionsFromInitFile, Getopt,     *)
(* ParseOptions and SplitArgs, in the order main calls them.               *)
(*                                                                         *)
(* Words and option names are strings that nobody looks into: the          *)
(* constants say what Getopt and the conversions of the library make of a  *)
(* word.  Options are known by their long names.                           *)
(***************************************************************************)
EXTENDS Integers, Sequences, SequencesExt

CONSTANTS
  Invocations,  \* records: the words of the option file, those of the command line,
                \* and the default keys that can be used
  Clusters,     \* Clusters[w]: the options in w, a word that begins with one '-'
  Longs,        \* Longs[w]: name and argument of w, a longer word that begins with '--'
  Numbers,      \* Numbers[w]: the number w stands for, if it does
  Endpoints,    \* Endpoints[w]: user, host and port that ParseUserHostPort finds in w,
                \* "" for a user or a port that is not there, if it matches at all
  Blanks,       \* the words that consist of blanks
  CPUs,         \* runtime.NumCPU()
  Unlimited,    \* math.MaxUint64
  NoArgument    \* the argument of an option that has none

\* The options that take an argument and those that do not (the table Options).
Arguments == {"keyid", "keyfile", "url", "user", "port", "bastion", "timeout", "deadline",
              "parallel", "host", "outdir", "errdir", "default-user", "identity", "limit"}
Switches  == {"help", "version", "force-bastion", "inline", "inline-stdout", "password",
              "agent", "dryrun", "no-cache", "ssh", "scp", "rsync"}

\* The keys of AddDefaults, in the order it adds them.
DefaultKeys == <<"id_ed25519", "id_ecdsa", "id_dsa", "id_rsa">>

\* The words of the invocations and the arguments in them.
Words ==
  (UNION {Range(c.file) \cup Range(c.line) : c \in Invocations})
  \cup {Longs[w].argument : w \in DOMAIN Longs} \cup {"", NoArgument}

ASSUME CommandLineAssumption ==
  /\ \A w \in DOMAIN Clusters :
        Clusters[w] \in Seq(STRING) /\ Clusters[w] # <<>> /\ w # "--"
  /\ \A w \in DOMAIN Longs : w # "--"
  /\ DOMAIN Clusters \cap DOMAIN Longs = {}
  /\ \A w \in DOMAIN Numbers : w # "" /\ Numbers[w] \in Int
  /\ \A c \in Invocations :
        c.file \in Seq(Words) /\ c.line \in Seq(Words) /\ c.keys \subseteq Range(DefaultKeys)
  /\ CPUs \in Nat \ {0} /\ Unlimited \in Nat

VARIABLES
  given,    \* the invocation: given.file, given.line, given.keys
  phase,    \* where main is
  args,     \* GetoptContext.Args, later the arguments of SplitArgs
  sopts,    \* GetoptContext.sopts: the options left of a cluster
  config,   \* Config
  expr,     \* the expression: instances named with -h, and the words of the filter
  command,  \* the words of the command
  log       \* the options that ParseOptions has accepted, as <<option, argument>>

lineVars == <<given, phase, args, sopts, config, expr, command, log>>

Texts      == {"keyid", "keyfile", "user", "default-user", "outdir", "errdir"}
Quantities == {"port", "timeout", "deadline", "parallel", "limit"}

PublicKey(name) == [type |-> "publickey", by |-> name]
Password        == [type |-> "password", by |-> "password"]

\* Variant: every key is put behind the ones before it.
WithKeyBehind(methods, key, keys) ==
  IF key \in keys THEN methods \o <<PublicKey(key)>> ELSE methods

\* A default key that can be used is put in front of the methods there are.
WithKey(methods, key, keys) ==
  IF key \in keys THEN <<PublicKey(key)>> \o methods ELSE methods

Defaults(keys) ==
  LET first  == WithKey(<<>>, DefaultKeys[1], keys)
      second == WithKey(first, DefaultKeys[2], keys)
      third  == WithKey(second, DefaultKeys[3], keys)
  IN WithKey(third, DefaultKeys[4], keys)

LineInit ==
  /\ given \in Invocations
  /\ phase = "file"
  /\ args = <<>> /\ sopts = <<>>
  /\ config = [on |-> {}, mode |-> "pssh", hosts |-> <<>>,
               text |-> [o \in Texts |-> IF o = "default-user" THEN "root" ELSE ""],
               number |-> [port |-> 22, timeout |-> 10, deadline |-> 20,
                           parallel |-> CPUs, limit |-> Unlimited],
               methods |-> Defaults(given.keys),
               bastionName |-> "", bastionUser |-> "root", bastionPort |-> 22,
               bastionAddress |-> ""]
  /\ expr = [hosts |-> {}, words |-> <<>>]
  /\ command = <<>>
  /\ log = <<>>

\* ErrQuit, or the help and version texts: the process ends.
Exit(code) == phase' = code /\ UNCHANGED <<given, expr, command>>

-----------------------------------------------------------------------------
(***************************************************************************)
(* The option file                                                         *)
(***************************************************************************)

\* Variant: the options of the file come after those of the command line.
AllWordsFileLast == given.line \o given.file

\* The words that ParseOptions is called with.
AllWords == given.file \o given.line

\* OptionsFromInitFile: a file that holds ':::' is refused.
ReadOptionFile ==
  /\ phase = "file"
  /\ ~Contains(given.file, ":::")
  /\ phase' = "options"
  /\ args' = AllWords
  /\ UNCHANGED <<given, sopts, config, expr, command, log>>

RefuseOptionFile ==
  /\ phase = "file"
  /\ Contains(given.file, ":::")
  /\ Exit("1") /\ UNCHANGED <<args, sopts, config, log>>

-----------------------------------------------------------------------------
(***************************************************************************)
(* Getopt                                                                  *)
(***************************************************************************)

Found(o, a, rest, more) == [option |-> o, argument |-> a, args |-> rest, sopts |-> more]

\* The first option of a cluster; only the last one may take an argument, which is
\* the word after the cluster unless that is '--'.
GetoptShort(cluster, rest) ==
  LET o == Head(cluster) IN
  CASE o \in Switches -> Found(o, NoArgument, rest, Tail(cluster))
    [] o \in Arguments /\ Len(cluster) = 1 /\ rest # <<>> /\ Head(rest) # "--" ->
         Found(o, Head(rest), Tail(rest), <<>>)
    [] OTHER -> Found("error", NoArgument, rest, <<>>)

\* A long option has its argument in the same word; a switch drops one it is given.
GetoptLong(long, rest) ==
  CASE long.name \in Switches -> Found(long.name, NoArgument, rest, <<>>)
    [] long.name \in Arguments /\ long.argument # NoArgument ->
         Found(long.name, long.argument, rest, <<>>)
    [] OTHER -> Found("error", NoArgument, rest, <<>>)

\* The next option; '--' ends the options and is dropped, any other word ends them
\* and stays.
Getopt ==
  CASE sopts # <<>> -> GetoptShort(sopts, args)
    [] sopts = <<>> /\ args = <<>> -> Found("end", NoArgument, args, <<>>)
    [] OTHER ->
       LET word == Head(args) rest == Tail(args) IN
       CASE word \in DOMAIN Clusters -> GetoptShort(Clusters[word], rest)
         [] word \in DOMAIN Longs -> GetoptLong(Longs[word], rest)
         [] word = "--" -> Found("end", NoArgument, rest, <<>>)
         [] OTHER -> Found("end", NoArgument, args, <<>>)

-----------------------------------------------------------------------------
(***************************************************************************)
(* ParseOptions                                                            *)
(***************************************************************************)

\* Getopt returns one of the options in S.
Option(S) ==
  /\ phase = "options"
  /\ Getopt.option \in S
  /\ args' = Getopt.args /\ sopts' = Getopt.sopts

\* The option is taken and the loop goes on.
Accept ==
  /\ log' = Append(log, <<Getopt.option, Getopt.argument>>)
  /\ UNCHANGED <<given, phase, expr, command>>

HelpOrVersion ==
  /\ Option({"help", "version"})
  /\ Exit("0") /\ UNCHANGED <<config, log>>

\* An option in error, and one of the table that the switch does not know: --url.
\* Then also those whose file, directory, key, agent or terminal is not there.
RefuseOption ==
  /\ Option({"error", "url", "keyfile", "outdir", "errdir", "identity", "agent", "password"})
  /\ Exit("1") /\ UNCHANGED <<config, log>>

TurnOn ==
  /\ Option({"force-bastion", "no-cache", "dryrun", "inline", "inline-stdout"})
  /\ config' = [config EXCEPT !.on = @ \cup
       (IF Getopt.option = "inline-stdout" THEN {"inline", "inline-stdout"}
                                           ELSE {Getopt.option})]
  /\ Accept

SetMode ==
  /\ Option({"ssh", "scp", "rsync"})
  /\ config' = [config EXCEPT !.mode = Getopt.option]
  /\ Accept

\* A text, or a file or directory that was found fit.
SetText ==
  /\ Option(Texts)
  /\ config' = [config EXCEPT !.text[Getopt.option] = Getopt.argument]
  /\ Accept

\* At least one worker.
Adjusted(o, n) == IF o = "parallel" /\ n <= 0 THEN 1 ELSE n

\* The word is a number, and an unsigned one for the limit.
IsNumber(o, w) == w \in DOMAIN Numbers /\ (o = "limit" => Numbers[w] >= 0)

SetNumber ==
  /\ Option(Quantities)
  /\ IsNumber(Getopt.option, Getopt.argument)
  /\ config' = [config EXCEPT !.number[Getopt.option] =
                  Adjusted(Getopt.option, Numbers[Getopt.argument])]
  /\ Accept

RefuseNumber ==
  /\ Option(Quantities)
  /\ ~IsNumber(Getopt.option, Getopt.argument)
  /\ Exit("1") /\ UNCHANGED <<config, log>>

AddHost ==
  /\ Option({"host"})
  /\ config' = [config EXCEPT !.hosts = Append(@, Getopt.argument)]
  /\ Accept

EndpointPort(e) == IF e.port = "" THEN 22 ELSE Numbers[e.port]

\* ParseUserHostPort: the word matches, and its port is a number above zero.
IsEndpoint(w) ==
  /\ w \in DOMAIN Endpoints
  /\ LET port == Endpoints[w].port IN port # "" => port \in DOMAIN Numbers /\ Numbers[port] > 0

\* Variant: an endpoint without a user leaves the user of an earlier one.
EndpointKeeps(c, e) ==
  [c EXCEPT !.bastionName = e.host, !.bastionPort = EndpointPort(e),
            !.bastionUser = IF e.user = "" THEN @ ELSE e.user]

\* All three parts are set, the user to none when the endpoint has none.
Endpoint(c, e) ==
  [c EXCEPT !.bastionName = e.host, !.bastionPort = EndpointPort(e), !.bastionUser = e.user]

SetBastion ==
  /\ Option({"bastion"})
  /\ IsEndpoint(Getopt.argument)
  /\ config' = Endpoint(config, Endpoints[Getopt.argument])
  /\ Accept

RefuseBastion ==
  /\ Option({"bastion"})
  /\ ~IsEndpoint(Getopt.argument)
  /\ Exit("1") /\ UNCHANGED <<config, log>>

\* AddPrivateKey, AddAgent and AddPassword put their method in front of the others.
AddMethod ==
  /\ Option({"identity", "agent", "password"})
  /\ config' = [config EXCEPT !.methods =
       << CASE Getopt.option = "identity" -> PublicKey(Getopt.argument)
            [] Getopt.option = "agent"    -> PublicKey("agent")
            [] Getopt.option = "password" -> Password >> \o @]
  /\ Accept

\* Output inline and in directories.
Clash == "inline" \in config.on /\ (config.text["outdir"] # "" \/ config.text["errdir"] # "")

EndOptions ==
  /\ Option({"end"})
  /\ ~Clash
  /\ phase' = "split"
  /\ UNCHANGED <<given, config, expr, command, log>>

RefuseClash ==
  /\ Option({"end"})
  /\ Clash
  /\ Exit("1") /\ UNCHANGED <<config, log>>

-----------------------------------------------------------------------------
(***************************************************************************)
(* SplitArgs, and the set-up around it                                     *)
(***************************************************************************)

\* The place of the first ':::', or the place after the last argument.
Delimiter ==
  LET is(w) == w = ":::"
      n == SelectInSeq(args, is)
  IN IF n = 0 THEN Len(args) + 1 ELSE n

Before == SubSeq(args, 1, Delimiter - 1)
Rest   == SubSeq(args, Delimiter + 1, Len(args))

\* strings.Trim leaves nothing of blank words.
Filter == IF Range(Before) \subseteq Blanks THEN <<>> ELSE Before

\* Variant: the number of arguments is all that is looked at.
EnoughCounted == config.mode = "pssh" => Len(args) >= 2

\* There is something to select instances with and, unless a command line is to be
\* printed, something to run.
Enough ==
  /\ Filter # <<>> \/ config.hosts # <<>>
  /\ config.mode = "pssh" => Len(args) >= 2 /\ Rest # <<>>

SplitArgs ==
  /\ phase = "split"
  /\ Enough
  /\ expr' = [hosts |-> Range(config.hosts), words |-> Filter]
  /\ command' = Rest
  /\ phase' = "clients"
  /\ UNCHANGED <<given, args, sopts, config, log>>

RefuseArgs ==
  /\ phase = "split"
  /\ ~Enough
  /\ Exit("1") /\ UNCHANGED <<args, sopts, config, log>>

\* The environment lacks the profile, the endpoint, the account or a key, or the
\* clients of the cloud API cannot be made.
SetupFails ==
  /\ phase \in {"split", "clients"}
  /\ Exit("1") /\ UNCHANGED <<args, sopts, config, log>>

MakeClients ==
  /\ phase = "clients"
  /\ phase' = "ready"
  /\ UNCHANGED <<given, args, sopts, config, expr, command, log>>

Parse ==
  \/ HelpOrVersion \/ RefuseOption \/ TurnOn \/ SetMode \/ SetText \/ SetNumber
  \/ RefuseNumber \/ AddHost \/ SetBastion \/ RefuseBastion \/ AddMethod
  \/ EndOptions \/ RefuseClash

LineNext ==
  \/ ReadOptionFile \/ RefuseOptionFile \/ Parse
  \/ SplitArgs \/ RefuseArgs \/ SetupFails \/ MakeClients

-----------------------------------------------------------------------------
(***************************************************************************)
(* Authentication with the methods of Config, as the ssh library has it:   *)
(* of several methods of one type only the first is used.                  *)
(***************************************************************************)

\* The methods the client comes to try.
Tried(methods) ==
  {methods[n] : n \in {n \in DOMAIN methods :
                         \A m \in 1 .. n - 1 : methods[m].type # methods[n].type}}

\* A server that takes the keys and passwords in accepted lets the client in.
LogsIn(methods, accepted) == \E m \in Tried(methods) : m.by \in accepted

-----------------------------------------------------------------------------
(***************************************************************************)
(* Properties                                                              *)
(***************************************************************************)

\* The arguments are the words ws, or blank ones in their place, and the command.
SplitAs(ws) ==
  \E n \in 0 .. Len(args) :
    LET before == SubSeq(args, 1, n) IN
    /\ args \in {before, before \o <<":::">> \o command}
    /\ \/ ws = before
       \/ ws = <<>> /\ Range(before) \subseteq Blanks

\* Every variable has its type, and what SplitArgs has split is what Getopt left.
LineTypeOK ==
  /\ given \in Invocations
  /\ sopts # <<>> => phase \in {"options", "1", "0"}
  /\ config.on \subseteq Switches
  /\ config.text \in [Texts -> Words \cup {"root"}]
  /\ config.number \in [Quantities -> Int]
  /\ config.mode \in {"pssh", "ssh", "scp", "rsync"}
  /\ expr.hosts \subseteq Range(config.hosts)
  /\ phase = "ready" => SplitAs(expr.words)

\* Where the options in the words ws end, read as a grammar: a cluster whose last
\* option takes an argument takes the next word with it.
EndOf(ws) ==
  LET width(w) == IF w \in DOMAIN Clusters /\ Last(Clusters[w]) \in Arguments THEN 2 ELSE 1
      end[n \in 1 .. Len(ws) + 2] ==
        IF n <= Len(ws) /\ ws[n] \in DOMAIN Clusters \cup DOMAIN Longs
        THEN end[n + width(ws[n])]
        ELSE n
  IN end[1]

\* The words after the options of ws, without the '--' between them.
Operands(ws) ==
  SubSeq(ws, EndOf(ws) + (IF EndOf(ws) <= Len(ws) /\ ws[EndOf(ws)] = "--" THEN 1 ELSE 0), Len(ws))

\* An option file that holds options and their arguments only has no influence on
\* what is selected and run: the arguments that are left are those the command line
\* has when it is read alone (main.go:408, getopts.go:38-134).
FileIsApart ==
  phase \in {"split", "clients", "ready"} /\ EndOf(given.file) = Len(given.file) + 1 =>
    args = Operands(given.line)

\* What the rest of the program takes for granted of a command line that is accepted:
\* there is a worker to run jobs, a job writes its output to one place, instances are
\* selected by something and a command is there (main.go:236-289, 316-359).
FitForMain ==
  phase = "ready" =>
    /\ config.number["parallel"] >= 1
    /\ config.number["limit"] >= 0
    /\ ~("inline" \in config.on /\ \E o \in {"outdir", "errdir"} : config.text[o] # "")
    /\ expr.hosts # {} \/ expr.words # <<>>
    /\ config.mode = "pssh" => command # <<>>

\* The option of those in O that was accepted last, in the file or on the command line,
\* with its argument; two empty words if there is none.
LastIn(O) ==
  LET is(l) == l[1] \in O
      n == SelectLastInSeq(log, is)
  IN IF n = 0 THEN <<"", "">> ELSE log[n]

\* The key or the agent that was given last.
LastGiven == LastIn({"identity", "agent"})

\* Of the keys and agents that are given it is the last one that is tried, and if
\* none is given the default key that AddDefaults adds last (~/.ssh/id_rsa if it can
\* be used); a password is tried too (sshauth.go:33-105, and the ssh library).
LastGivenIsTried ==
  phase = "ready" =>
    /\ LastGiven[1] = "identity" => PublicKey(LastGiven[2]) \in Tried(config.methods)
    /\ LastGiven[1] = "agent" => PublicKey("agent") \in Tried(config.methods)
    /\ LastGiven[1] = "" =>
         \A n \in DOMAIN DefaultKeys :
           /\ DefaultKeys[n] \in given.keys
           /\ \A m \in n + 1 .. Len(DefaultKeys) : DefaultKeys[m] \notin given.keys
           => PublicKey(DefaultKeys[n]) \in Tried(config.methods)
    /\ <<"password", NoArgument>> \in Range(log) => Password \in Tried(config.methods)

\* "If none of above provided, triton-pssh will try to use these keys in order:
\* ~/.ssh/id_rsa, ~/.ssh/id_dsa, ~/.ssh/id_ecdsa, and ~/.ssh/id_ed25519" (README.md:206):
\* a server that accepts one of them lets the client in.
DefaultKeysTriedInOrder ==
  phase = "ready" /\ LastGiven[1] = "" /\ Password \notin Range(config.methods) =>
    \A key \in given.keys : LogsIn(config.methods, {key})
=============================================================================
