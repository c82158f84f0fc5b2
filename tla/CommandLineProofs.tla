-------------------------- MODULE CommandLineProofs --------------------------
(***************************************************************************)
(* What the set-up of CommandLine keeps, for every command line and option *)
(* file: lemmas about its operators, and an invariant of its steps.  The   *)
(* theorems are in RouteProofs, where the set-up is part of a run.         *)
(***************************************************************************)
EXTENDS CommandLine, WellFoundedInduction, SequenceTheorems, TLAPS

Fields == {"on", "mode", "hosts", "text", "number", "methods",
           "bastionName", "bastionUser", "bastionPort", "bastionAddress"}

Modes == {"pssh", "ssh", "scp", "rsync"}
Methods == [type : {"publickey", "password"},
            by : Words \cup {"agent", "password"} \cup Range(DefaultKeys)]

\* What Getopt can return.
Options == Arguments \cup Switches \cup {"error", "end"}

ConfigTypes ==
  /\ DOMAIN config = Fields
  /\ config.on \subseteq Switches
  /\ config.mode \in Modes
  /\ config.hosts \in Seq(Words)
  /\ config.text \in [Texts -> Words \cup {"root"}]
  /\ config.number \in [Quantities -> Int]
  /\ config.methods \in Seq(Methods)

LineTypes ==
  /\ given \in Invocations
  /\ args \in Seq(Words)
  /\ log \in Seq(Options \X Words)
  /\ ConfigTypes

-----------------------------------------------------------------------------
(***************************************************************************)
(* The operators                                                           *)
(***************************************************************************)

\* A set of natural numbers has a smallest one.
LEMMA SmallestOf ==
  ASSUME NEW S, S \subseteq Nat, S # {}
  PROVE  \E x \in S : \A y \in S : x <= y
<1>1. PICK x \in S : \A y \in S : <<y, x>> \notin OpToRel(<, Nat)
  BY NatLessThanWellFounded, WFMin, Zenon
<1>2. \A y \in S : ~(y < x)
  BY <1>1 DEF OpToRel
<1> QED  BY <1>2

\* So the Min and the Max of places in a sequence are among them.
LEMMA MinIsIn ==
  ASSUME NEW S, S \subseteq Nat, S # {}
  PROVE  Min(S) \in S /\ \A y \in S : Min(S) <= y
BY SmallestOf DEF Min

LEMMA MaxIsIn ==
  ASSUME NEW N \in Nat, NEW S, S \subseteq 1 .. N, S # {}
  PROVE  Max(S) \in S /\ \A y \in S : Max(S) >= y
<1> DEFINE T == {N - x : x \in S}
<1>1. \A x \in S : x \in Nat /\ x <= N
  OBVIOUS
<1>2. T # {} /\ T \subseteq Nat
  <2>1. PICK x \in S : TRUE
    OBVIOUS
  <2>2. N - x \in T
    BY <2>1
  <2>3. \A y \in S : N - y \in Nat
    BY <1>1
  <2> QED  BY <2>2, <2>3
<1>3. PICK t \in T : \A u \in T : t <= u
  <2> HIDE DEF T
  <2> QED  BY <1>2, SmallestOf
<1>4. PICK x \in S : t = N - x
  OBVIOUS
<1>5. \A y \in S : N - x <= N - y
  BY <1>3, <1>4
<1>6. \A y \in S : x >= y
  BY <1>1, <1>5
<1> QED  BY <1>6 DEF Max

\* The classes of words and options do not overlap.
LEMMA Classes ==
  /\ Switches \cap Arguments = {}
  /\ DOMAIN Clusters \cap DOMAIN Longs = {}
  /\ "--" \notin DOMAIN Clusters \cup DOMAIN Longs
BY CommandLineAssumption DEF Switches, Arguments

\* Words that no invocation has.
LEMMA WordsToo ==
  NoArgument \in Words /\ "" \in Words /\ \A w \in DOMAIN Longs : Longs[w].argument \in Words
BY DEF Words

\* What Getopt returns is an option of the table, an error or the end.
LEMMA GetoptTypes ==
  ASSUME args \in Seq(Words)
  PROVE  /\ Getopt.option \in Options
         /\ Getopt.argument \in Words
         /\ Getopt.args \in Seq(Words)
         /\ Getopt.option = "end" => Getopt.sopts = <<>>
<1>1. "end" \notin Arguments \cup Switches \cup {"error"}
  BY DEF Arguments, Switches
<1>2. ASSUME NEW cluster, NEW rest \in Seq(Words)
      PROVE  /\ GetoptShort(cluster, rest).option \in Arguments \cup Switches \cup {"error"}
             /\ GetoptShort(cluster, rest).argument \in Words
             /\ GetoptShort(cluster, rest).args \in Seq(Words)
  <2> DEFINE o == Head(cluster)
  <2>1. NoArgument \in Words
    BY WordsToo
  <2>2. CASE o \in Switches
    <3>1. GetoptShort(cluster, rest) = Found(o, NoArgument, rest, Tail(cluster))
      BY <2>2, Classes DEF GetoptShort
    <3> QED  BY <1>2, <2>1, <2>2, <3>1 DEF Found
  <2>3. CASE o \notin Switches /\ o \in Arguments /\ Len(cluster) = 1 /\ rest # <<>> /\ Head(rest) # "--"
    <3>1. GetoptShort(cluster, rest) = Found(o, Head(rest), Tail(rest), <<>>)
      BY <2>3 DEF GetoptShort
    <3>2. Head(rest) \in Words /\ Tail(rest) \in Seq(Words)
      BY <1>2, <2>3
    <3> QED  BY <2>3, <3>1, <3>2 DEF Found
  <2>4. CASE ~(o \in Switches) /\ ~(o \in Arguments /\ Len(cluster) = 1 /\ rest # <<>> /\ Head(rest) # "--")
    <3>1. GetoptShort(cluster, rest) = Found("error", NoArgument, rest, <<>>)
      BY <2>4 DEF GetoptShort
    <3> QED  BY <1>2, <2>1, <3>1 DEF Found
  <2> QED  BY <2>2, <2>3, <2>4
<1>3. ASSUME NEW long, long.argument \in Words, NEW rest \in Seq(Words)
      PROVE  /\ GetoptLong(long, rest).option \in Arguments \cup Switches \cup {"error"}
             /\ GetoptLong(long, rest).argument \in Words
             /\ GetoptLong(long, rest).args \in Seq(Words)
  <2>1. NoArgument \in Words
    BY WordsToo
  <2>2. CASE long.name \in Switches
    <3>1. GetoptLong(long, rest) = Found(long.name, NoArgument, rest, <<>>)
      BY <2>2, Classes DEF GetoptLong
    <3> QED  BY <1>3, <2>1, <2>2, <3>1 DEF Found
  <2>3. CASE long.name \notin Switches /\ long.name \in Arguments /\ long.argument # NoArgument
    <3>1. GetoptLong(long, rest) = Found(long.name, long.argument, rest, <<>>)
      BY <2>3 DEF GetoptLong
    <3> QED  BY <1>3, <2>3, <3>1 DEF Found
  <2>4. CASE ~(long.name \in Switches) /\ ~(long.name \in Arguments /\ long.argument # NoArgument)
    <3>1. GetoptLong(long, rest) = Found("error", NoArgument, rest, <<>>)
      BY <2>4 DEF GetoptLong
    <3> QED  BY <1>3, <2>1, <3>1 DEF Found
  <2> QED  BY <2>2, <2>3, <2>4
<1>4. CASE sopts # <<>>
  <2>1. Getopt = GetoptShort(sopts, args)
    BY <1>4 DEF Getopt
  <2> QED  BY <1>1, <1>2, <2>1 DEF Options
<1>5. CASE sopts = <<>> /\ args = <<>>
  <2>1. Getopt = Found("end", NoArgument, args, <<>>)
    BY <1>5 DEF Getopt
  <2> QED  BY <2>1, WordsToo DEF Found, Options
<1>6. CASE sopts = <<>> /\ args # <<>>
  <2> DEFINE word == Head(args)
             rest == Tail(args)
  <2>1. word \in Words /\ rest \in Seq(Words)
    BY <1>6
  <2>2. CASE word \in DOMAIN Clusters
    <3>1. Getopt = GetoptShort(Clusters[word], rest)
      BY <1>6, <2>2, Classes DEF Getopt
    <3> QED  BY <1>1, <1>2, <2>1, <3>1 DEF Options
  <2>3. CASE word \notin DOMAIN Clusters /\ word \in DOMAIN Longs
    <3>1. Getopt = GetoptLong(Longs[word], rest)
      BY <1>6, <2>3, Classes DEF Getopt
    <3>2. Longs[word].argument \in Words
      BY <2>3, WordsToo
    <3> HIDE DEF word, rest
    <3> QED  BY <1>1, <1>3, <2>1, <3>1, <3>2 DEF Options
  <2>4. CASE word \notin DOMAIN Clusters /\ word \notin DOMAIN Longs
    <3>1. PICK ws \in {rest, args} : Getopt = Found("end", NoArgument, ws, <<>>)
      BY <1>6, <2>4 DEF Getopt
    <3>2. ws \in Seq(Words) /\ NoArgument \in Words
      BY <2>1, WordsToo
    <3> QED  BY <3>1, <3>2 DEF Found, Options
  <2> QED  BY <2>2, <2>3, <2>4
<1> QED  BY <1>4, <1>5, <1>6

\* LastIn, of any sequence of options.
LastAt(s, O) ==
  LET is(l) == l[1] \in O
      n == SelectLastInSeq(s, is)
  IN IF n = 0 THEN <<"", "">> ELSE s[n]

LEMMA LastAtEmpty ==
  ASSUME NEW O
  PROVE  LastAt(<<>>, O) = <<"", "">>
<1> DEFINE I == {n \in 1 .. Len(<<>>) : <<>>[n][1] \in O}
<1>1. LastAt(<<>>, O) = IF (IF I # {} THEN Max(I) ELSE 0) = 0 THEN <<"", "">>
                        ELSE <<>>[IF I # {} THEN Max(I) ELSE 0]
  BY DEF LastAt, SelectLastInSeq
<1>2. I = {}
  OBVIOUS
<1> HIDE DEF I
<1> QED  BY <1>1, <1>2

LEMMA LastAtAppended ==
  ASSUME NEW A, NEW s \in Seq(A), NEW e \in A, NEW O
  PROVE  LastAt(Append(s, e), O) = IF e[1] \in O THEN e ELSE LastAt(s, O)
<1> DEFINE t == Append(s, e)
           I == {n \in 1 .. Len(s) : s[n][1] \in O}
           J == {n \in 1 .. Len(t) : t[n][1] \in O}
<1>1. LastAt(s, O) = IF (IF I # {} THEN Max(I) ELSE 0) = 0 THEN <<"", "">>
                     ELSE s[IF I # {} THEN Max(I) ELSE 0]
  BY DEF LastAt, SelectLastInSeq
<1>2. LastAt(t, O) = IF (IF J # {} THEN Max(J) ELSE 0) = 0 THEN <<"", "">>
                     ELSE t[IF J # {} THEN Max(J) ELSE 0]
  BY DEF LastAt, SelectLastInSeq
<1>3. /\ Len(s) \in Nat /\ Len(t) = Len(s) + 1
      /\ t[Len(t)] = e /\ \A m \in 1 .. Len(s) : t[m] = s[m]
  OBVIOUS
<1>4. I \subseteq 1 .. Len(s) /\ J \subseteq 1 .. Len(t)
  OBVIOUS
<1>5. e[1] \in O => Len(t) \in J
  BY <1>3
<1>6. e[1] \notin O => J = I
  BY <1>3
<1> HIDE DEF t, I, J
<1>7. CASE e[1] \in O
  <2>1. Len(t) \in Nat \ {0} /\ J \subseteq 1 .. Len(t) /\ Len(t) \in J
    BY <1>3, <1>4, <1>5, <1>7
  <2>2. J # {}
    BY <2>1
  <2>3. Max(J) \in J /\ Max(J) >= Len(t)
    BY <2>1, <2>2, MaxIsIn
  <2>4. Max(J) \in 1 .. Len(t)
    BY <2>1, <2>3
  <2>5. Max(J) = Len(t)
    BY <2>1, <2>3, <2>4
  <2> QED  BY <1>2, <1>3, <1>7, <2>1, <2>2, <2>5 DEF t
<1>8. CASE e[1] \notin O
  <2>1. I # {} => Max(I) \in 1 .. Len(s)
    BY <1>3, <1>4, MaxIsIn
  <2> QED  BY <1>1, <1>2, <1>3, <1>6, <1>8, <2>1 DEF t
<1> QED  BY <1>7, <1>8

\* The option that was accepted now is the last of those it is one of.
LEMMA LastInAppended ==
  ASSUME log \in Seq(Options \X Words), NEW e \in Options \X Words, log' = Append(log, e), NEW O
  PROVE  LastIn(O)' = IF e[1] \in O THEN e ELSE LastIn(O)
<1>1. LastIn(O) = LastAt(log, O) /\ LastIn(O)' = LastAt(log', O)
  BY DEF LastIn, LastAt, SelectLastInSeq
<1> QED  BY <1>1, LastAtAppended

\* A method that is put in front is tried, and hides those of its type.
LEMMA TriedInFront ==
  ASSUME NEW methods \in Seq(Methods), NEW m \in Methods
  PROVE  /\ m \in Tried(<<m>> \o methods)
         /\ \A k \in Tried(methods) : k.type # m.type => k \in Tried(<<m>> \o methods)
<1> DEFINE all == <<m>> \o methods
<1>1. /\ Len(methods) \in Nat /\ DOMAIN methods = 1 .. Len(methods)
      /\ DOMAIN all = 1 .. Len(methods) + 1 /\ all[1] = m
      /\ \A n \in 1 .. Len(methods) : all[n + 1] = methods[n]
  OBVIOUS
<1> HIDE DEF all
<1>2. m \in Tried(all)
  <2>1. 1 \in DOMAIN all /\ 1 .. 1 - 1 = {}
    BY <1>1
  <2> QED  BY <1>1, <2>1 DEF Tried
<1>3. ASSUME NEW k \in Tried(methods), k.type # m.type PROVE k \in Tried(all)
  <2>1. PICK n \in DOMAIN methods :
          k = methods[n] /\ \A p \in 1 .. n - 1 : methods[p].type # k.type
    BY DEF Tried
  <2>2. n + 1 \in DOMAIN all /\ all[n + 1] = k
    BY <1>1, <2>1
  <2>3. ASSUME NEW p \in 1 .. n + 1 - 1 PROVE all[p].type # all[n + 1].type
    <3>1. CASE p = 1
      BY <1>1, <1>3, <2>2, <3>1
    <3>2. CASE p # 1
      <4>1. p - 1 \in 1 .. n - 1 /\ p - 1 \in 1 .. Len(methods) /\ p = (p - 1) + 1
        BY <1>1, <3>2
      <4>2. all[p] = methods[p - 1]
        BY <1>1, <4>1
      <4> QED  BY <2>1, <2>2, <4>1, <4>2
    <3> QED  BY <3>1, <3>2
  <2> QED  BY <2>2, <2>3 DEF Tried
<1> QED  BY <1>2, <1>3 DEF all

\* The words before and after the delimiter are those of the arguments.
LEMMA ArgsSplit ==
  ASSUME args \in Seq(Words)
  PROVE  /\ args \in {Before, Before \o <<":::">> \o Rest}
         /\ \E n \in 0 .. Len(args) : Before = SubSeq(args, 1, n)
<1> DEFINE I == {i \in 1 .. Len(args) : args[i] = ":::"}
<1>1. Delimiter = IF (IF I # {} THEN Min(I) ELSE 0) = 0 THEN Len(args) + 1
                  ELSE (IF I # {} THEN Min(I) ELSE 0)
  BY DEF Delimiter, SelectInSeq
<1>2. I \subseteq 1 .. Len(args) /\ Len(args) \in Nat /\ \A i \in I : args[i] = ":::"
  OBVIOUS
<1> HIDE DEF I
<1>3. CASE I = {}
  <2>1. Delimiter = Len(args) + 1
    BY <1>1, <1>3
  <2>2. Before = SubSeq(args, 1, Len(args)) /\ Len(args) \in 0 .. Len(args)
    BY <1>2, <2>1 DEF Before
  <2> QED  BY <2>2
<1>4. CASE I # {}
  <2>1. Min(I) \in I
    <3>1. I \subseteq Nat
      BY <1>2
    <3> QED  BY <1>4, <3>1, MinIsIn
  <2>2. PICK d \in 1 .. Len(args) : Delimiter = d /\ args[d] = ":::"
    BY <1>1, <1>2, <1>4, <2>1
  <2>3. /\ Before = SubSeq(args, 1, d - 1) /\ d - 1 \in 0 .. Len(args)
        /\ Rest = SubSeq(args, d + 1, Len(args))
    BY <1>2, <2>2 DEF Before, Rest
  <2>4. SubSeq(args, 1, d) = SubSeq(args, 1, d - 1) \o <<":::">>
    BY <1>2, <2>2, SubSeqRecursiveSecond
  <2>5. SubSeq(args, 1, d) \o SubSeq(args, d + 1, Len(args)) = args
    BY <1>2, <2>2, ConcatAdjacentSubSeq, SubSeqFull
  <2> QED  BY <2>3, <2>4, <2>5
<1> QED  BY <1>3, <1>4

-----------------------------------------------------------------------------
(***************************************************************************)
(* What ParseOptions does with an option it accepts                        *)
(***************************************************************************)

Accepts == TurnOn \/ SetMode \/ SetText \/ SetNumber \/ AddHost \/ SetBastion \/ AddMethod

MethodOf(o, a) ==
  CASE o = "identity" -> PublicKey(a)
    [] o = "agent"    -> PublicKey("agent")
    [] o = "password" -> Password

\* Option o with argument a has changed the part of Config that is its own.
Took(o, a) ==
  /\ config'.hosts = IF o = "host" THEN Append(config.hosts, a) ELSE config.hosts
  /\ config'.text["user"] = IF o = "user" THEN a ELSE config.text["user"]
  /\ o \in Quantities => IsNumber(o, a)
  /\ \A q \in Quantities :
       config'.number[q] = IF o = q THEN Adjusted(o, Numbers[a]) ELSE config.number[q]
  /\ o = "bastion" =>
       /\ IsEndpoint(a)
       /\ config'.bastionName = Endpoints[a].host
       /\ config'.bastionPort = EndpointPort(Endpoints[a])
       /\ config'.bastionUser = Endpoints[a].user
  /\ o # "bastion" =>
       UNCHANGED <<config.bastionName, config.bastionPort, config.bastionUser>>
  /\ config'.methods = IF o \in {"identity", "agent", "password"}
                       THEN <<MethodOf(o, a)>> \o config.methods ELSE config.methods
  /\ UNCHANGED config.bastionAddress

LEMMA AcceptedOption ==
  ASSUME LineTypes, Accepts
  PROVE  /\ phase = "options" /\ phase' = phase /\ UNCHANGED <<given, expr, command>>
         /\ log' = Append(log, <<Getopt.option, Getopt.argument>>)
         /\ <<Getopt.option, Getopt.argument>> \in Options \X Words
         /\ args' \in Seq(Words) /\ log' \in Seq(Options \X Words)
<1>1. /\ phase = "options" /\ phase' = phase /\ UNCHANGED <<given, expr, command>>
      /\ log' = Append(log, <<Getopt.option, Getopt.argument>>)
      /\ args' = Getopt.args
  BY Zenon DEF Accepts, TurnOn, SetMode, SetText, SetNumber, AddHost, SetBastion, AddMethod,
               Option, Accept
<1>2. args \in Seq(Words) /\ log \in Seq(Options \X Words)
  BY DEF LineTypes
<1>3. /\ Getopt.option \in Options /\ Getopt.argument \in Words
      /\ Getopt.args \in Seq(Words)
  BY <1>2, GetoptTypes
<1>4. <<Getopt.option, Getopt.argument>> \in Options \X Words
  BY <1>3
<1>5. log' \in Seq(Options \X Words)
  BY <1>1, <1>2, <1>4
<1> QED  BY <1>1, <1>3, <1>4, <1>5

LEMMA AcceptedChange ==
  ASSUME LineTypes, Accepts
  PROVE  ConfigTypes' /\ Took(Getopt.option, Getopt.argument)
<1>1. PICK o, a : o = Getopt.option /\ a = Getopt.argument
  OBVIOUS
<1>2. ConfigTypes /\ a \in Words
  <2>1. args \in Seq(Words) /\ ConfigTypes
    BY DEF LineTypes
  <2> QED  BY <1>1, <2>1, GetoptTypes
<1>3. CASE TurnOn
  <2>1. PICK S \in SUBSET Switches : config' = [config EXCEPT !.on = @ \cup S]
    BY <1>3 DEF TurnOn, Option, Switches
  <2>2. o \in {"force-bastion", "no-cache", "dryrun", "inline", "inline-stdout"}
    BY <1>1, <1>3 DEF TurnOn, Option
  <2>3. ConfigTypes' /\ Took(o, a)
    BY <1>2, <2>1, <2>2 DEF ConfigTypes, Fields, Took, Quantities
  <2> QED  BY <1>1, <2>3
<1>4. CASE SetMode
  <2>1. config' = [config EXCEPT !.mode = o] /\ o \in {"ssh", "scp", "rsync"}
    BY <1>1, <1>4 DEF SetMode, Option
  <2>2. ConfigTypes' /\ Took(o, a)
    BY <1>2, <2>1 DEF ConfigTypes, Fields, Modes, Took, Quantities
  <2> QED  BY <1>1, <2>2
<1>5. CASE SetText
  <2>1. config' = [config EXCEPT !.text[o] = a] /\ o \in Texts
    BY <1>1, <1>5 DEF SetText, Option
  <2>2. ConfigTypes' /\ Took(o, a)
    BY <1>2, <2>1 DEF ConfigTypes, Fields, Took, Texts, Quantities
  <2> QED  BY <1>1, <2>2
<1>6. CASE SetNumber
  <2>1. /\ config' = [config EXCEPT !.number[o] = Adjusted(o, Numbers[a])]
        /\ o \in Quantities /\ IsNumber(o, a)
    BY <1>1, <1>6 DEF SetNumber, Option
  <2>2. Numbers[a] \in Int
    BY <2>1, CommandLineAssumption DEF IsNumber
  <2>3. PICK n \in Int : n = Adjusted(o, Numbers[a])
    BY <2>2 DEF Adjusted
  <2>4. ConfigTypes' /\ Took(o, a)
    BY <1>2, <2>1, <2>3 DEF ConfigTypes, Fields, Took, Quantities
  <2> QED  BY <1>1, <2>4
<1>7. CASE AddHost
  <2>1. config' = [config EXCEPT !.hosts = Append(@, a)] /\ o = "host"
    BY <1>1, <1>7 DEF AddHost, Option
  <2>2. ConfigTypes' /\ Took(o, a)
    BY <1>2, <2>1 DEF ConfigTypes, Fields, Took, Quantities
  <2> QED  BY <1>1, <2>2
<1>8. CASE SetBastion
  <2>1. config' = Endpoint(config, Endpoints[a]) /\ IsEndpoint(a) /\ o = "bastion"
    BY <1>1, <1>8 DEF SetBastion, Option
  <2>2. ConfigTypes' /\ Took(o, a)
    BY <1>2, <2>1 DEF ConfigTypes, Fields, Took, Quantities, Endpoint
  <2> QED  BY <1>1, <2>2
<1>9. CASE AddMethod
  <2>1. /\ config' = [config EXCEPT !.methods = <<MethodOf(o, a)>> \o @]
        /\ o \in {"identity", "agent", "password"}
    BY <1>1, <1>9 DEF AddMethod, Option, MethodOf
  <2>2. PICK m \in Methods : m = MethodOf(o, a)
    BY <1>2, <2>1 DEF MethodOf, Methods, PublicKey, Password
  <2>3. ConfigTypes' /\ Took(o, a)
    BY <1>2, <2>1, <2>2 DEF ConfigTypes, Fields, Took, Quantities
  <2> QED  BY <1>1, <2>3
<1> QED  BY <1>3, <1>4, <1>5, <1>6, <1>7, <1>8, <1>9 DEF Accepts

-----------------------------------------------------------------------------
(***************************************************************************)
(* The invariant.  What Config says of the user, the port, the bastion and *)
(* the methods is what the options say that were accepted last; and a      *)
(* phase has the checks of the phases before it behind it.                 *)
(***************************************************************************)

Ended == {"0", "1"}

ClusterOK == sopts # <<>> => phase \in {"options"} \cup Ended

NumbersOK == config.number["parallel"] >= 1 /\ config.number["limit"] >= 0

HostsOK ==
  /\ expr.hosts \subseteq Range(config.hosts)
  /\ \A n \in DOMAIN log : log[n][1] = "host" => log[n][2] \in Range(config.hosts)

CheckedOK == phase \notin {"file", "options"} \cup Ended => ~Clash

SplitOK ==
  phase \notin {"file", "options", "split"} \cup Ended =>
    /\ expr.hosts = Range(config.hosts)
    /\ expr.hosts # {} \/ expr.words # <<>>
    /\ config.mode = "pssh" => command # <<>>
    /\ SplitAs(expr.words)

LastBastion == LastIn({"bastion"})

AskedOK ==
  /\ config.text["user"] = LastIn({"user"})[2]
  /\ config.number["port"] = IF LastIn({"port"})[2] = "" THEN 22 ELSE Numbers[LastIn({"port"})[2]]
  /\ LastBastion[1] = "" => config.bastionName = ""
  /\ LastBastion[1] # "" =>
       /\ config.bastionName = Endpoints[LastBastion[2]].host
       /\ config.bastionPort = EndpointPort(Endpoints[LastBastion[2]])

\* The bastion is looked for when the clients are there.
BeforeLookup == {"file", "options", "split", "clients", "ready"}

BastionOK ==
  phase \in BeforeLookup =>
    /\ config.bastionAddress = ""
    /\ LastBastion[1] # "" => config.bastionUser = Endpoints[LastBastion[2]].user

\* The default key that is tried when no other is given.
DefaultTried ==
  \A n \in DOMAIN DefaultKeys :
    /\ DefaultKeys[n] \in given.keys
    /\ \A m \in n + 1 .. Len(DefaultKeys) : DefaultKeys[m] \notin given.keys
    => PublicKey(DefaultKeys[n]) \in Tried(config.methods)

MethodsOK ==
  /\ LastGiven[1] = "identity" => PublicKey(LastGiven[2]) \in Tried(config.methods)
  /\ LastGiven[1] = "agent" => PublicKey("agent") \in Tried(config.methods)
  /\ LastGiven[1] = "" => DefaultTried
  /\ <<"password", NoArgument>> \in Range(log) => Password \in Tried(config.methods)

LineInv ==
  /\ LineTypes /\ ClusterOK /\ NumbersOK /\ HostsOK /\ CheckedOK /\ SplitOK
  /\ AskedOK /\ BastionOK /\ MethodsOK

-----------------------------------------------------------------------------

\* The default key that was added last of those that can be used is tried.
LEMMA DefaultsTried ==
  ASSUME NEW keys
  PROVE  /\ Defaults(keys) \in Seq(Methods)
         /\ \A n \in DOMAIN DefaultKeys :
              /\ DefaultKeys[n] \in keys
              /\ \A m \in n + 1 .. Len(DefaultKeys) : DefaultKeys[m] \notin keys
              => PublicKey(DefaultKeys[n]) \in Tried(Defaults(keys))
<1> DEFINE W(methods, n) == WithKey(methods, DefaultKeys[n], keys)
<1>1. DOMAIN DefaultKeys = 1 .. 4 /\ Len(DefaultKeys) = 4
  BY DEF DefaultKeys
<1>2. \A n \in 1 .. 4 : PublicKey(DefaultKeys[n]) \in Methods
  BY <1>1 DEF PublicKey, Methods, Range
<1>3. ASSUME NEW methods \in Seq(Methods), NEW n \in 1 .. 4
      PROVE  /\ W(methods, n) \in Seq(Methods)
             /\ DefaultKeys[n] \in keys => PublicKey(DefaultKeys[n]) \in Tried(W(methods, n))
             /\ DefaultKeys[n] \notin keys => W(methods, n) = methods
  <2>1. PublicKey(DefaultKeys[n]) \in Methods
    BY <1>2
  <2>2. <<PublicKey(DefaultKeys[n])>> \o methods \in Seq(Methods)
    BY <2>1
  <2>3. PublicKey(DefaultKeys[n]) \in Tried(<<PublicKey(DefaultKeys[n])>> \o methods)
    BY <2>1, TriedInFront
  <2> QED  BY <2>2, <2>3 DEF WithKey
<1> DEFINE first == W(<<>>, 1)
           second == W(first, 2)
           third == W(second, 3)
           fourth == W(third, 4)
<1>4. Defaults(keys) = fourth
  BY DEF Defaults
<1> HIDE DEF W
<1>5. <<>> \in Seq(Methods) /\ 1 \in 1 .. 4 /\ 2 \in 1 .. 4 /\ 3 \in 1 .. 4 /\ 4 \in 1 .. 4
  OBVIOUS
<1>6. /\ first \in Seq(Methods)
      /\ DefaultKeys[1] \in keys => PublicKey(DefaultKeys[1]) \in Tried(first)
  BY <1>3, <1>5
<1>7. /\ second \in Seq(Methods)
      /\ DefaultKeys[2] \in keys => PublicKey(DefaultKeys[2]) \in Tried(second)
      /\ DefaultKeys[2] \notin keys => second = first
  <2> HIDE DEF first
  <2> QED  BY <1>3, <1>5, <1>6
<1>8. /\ third \in Seq(Methods)
      /\ DefaultKeys[3] \in keys => PublicKey(DefaultKeys[3]) \in Tried(third)
      /\ DefaultKeys[3] \notin keys => third = second
  <2> HIDE DEF second
  <2> QED  BY <1>3, <1>5, <1>7
<1>9. /\ fourth \in Seq(Methods)
      /\ DefaultKeys[4] \in keys => PublicKey(DefaultKeys[4]) \in Tried(fourth)
      /\ DefaultKeys[4] \notin keys => fourth = third
  <2> HIDE DEF third
  <2> QED  BY <1>3, <1>5, <1>8
<1> HIDE DEF first, second, third, fourth
<1>10. ASSUME NEW n \in 1 .. 4, DefaultKeys[n] \in keys,
              \A m \in n + 1 .. 4 : DefaultKeys[m] \notin keys
       PROVE  PublicKey(DefaultKeys[n]) \in Tried(fourth)
  <2>1. CASE n = 1
    BY <1>6, <1>7, <1>8, <1>9, <1>10, <2>1
  <2>2. CASE n = 2
    BY <1>7, <1>8, <1>9, <1>10, <2>2
  <2>3. CASE n = 3
    BY <1>8, <1>9, <1>10, <2>3
  <2>4. CASE n = 4
    BY <1>9, <1>10, <2>4
  <2> QED  BY <2>1, <2>2, <2>3, <2>4
<1> QED  BY <1>1, <1>4, <1>9, <1>10

LEMMA LineInitInv ==
  LineInit => LineInv
<1> SUFFICES ASSUME LineInit PROVE LineInv
  OBVIOUS
<1>1. /\ given \in Invocations /\ phase = "file" /\ args = <<>> /\ sopts = <<>> /\ log = <<>>
      /\ expr.hosts = {} /\ config.hosts = <<>>
  BY DEF LineInit
<1>2. /\ config.text["user"] = "" /\ config.number["port"] = 22 /\ config.number["parallel"] = CPUs
      /\ config.number["limit"] = Unlimited /\ config.bastionName = ""
      /\ config.bastionAddress = "" /\ config.methods = Defaults(given.keys)
  BY DEF LineInit, Texts, Quantities
<1>10. CPUs \in Nat \ {0} /\ Unlimited \in Nat
  BY CommandLineAssumption
<1>3. ConfigTypes
  <2>1. Defaults(given.keys) \in Seq(Methods)
    BY DefaultsTried
  <2>2. DOMAIN config = Fields /\ config.on = {} /\ config.mode = "pssh"
    BY DEF LineInit, Fields
  <2>3. config.text = [o \in Texts |-> IF o = "default-user" THEN "root" ELSE ""]
    BY DEF LineInit
  <2>4. config.number \in [Quantities -> Int]
    <3>1. config.number = [port |-> 22, timeout |-> 10, deadline |-> 20,
                           parallel |-> CPUs, limit |-> Unlimited]
      BY DEF LineInit
    <3>2. CPUs \in Int /\ Unlimited \in Int
      BY <1>10
    <3> QED  BY <3>1, <3>2 DEF Quantities
  <2>5. config.text \in [Texts -> Words \cup {"root"}]
    BY <2>3, WordsToo
  <2>6. config.hosts \in Seq(Words) /\ config.on \subseteq Switches
    BY <1>1, <2>2
  <2>7. config.mode \in Modes /\ config.methods \in Seq(Methods)
    BY <1>2, <2>1, <2>2 DEF Modes
  <2> QED  BY <2>2, <2>4, <2>5, <2>6, <2>7 DEF ConfigTypes
<1>4. LineTypes
  BY <1>1, <1>3 DEF LineTypes
<1>5. \A O : LastIn(O) = <<"", "">>
  <2>1. \A O : LastIn(O) = LastAt(<<>>, O)
    BY <1>1 DEF LastIn, LastAt, SelectLastInSeq
  <2> QED  BY <2>1, LastAtEmpty
<1>6. NumbersOK
  <2>1. CPUs \in Int /\ Unlimited \in Int /\ CPUs >= 1 /\ Unlimited >= 0
    BY <1>10
  <2> QED  BY <1>2, <2>1 DEF NumbersOK
<1>7. HostsOK /\ ClusterOK /\ CheckedOK /\ SplitOK
  BY <1>1 DEF HostsOK, ClusterOK, CheckedOK, SplitOK, SplitAs
<1>8. AskedOK /\ BastionOK
  BY <1>2, <1>5 DEF AskedOK, BastionOK, LastBastion
<1>9. MethodsOK
  <2>1. DefaultTried
    BY <1>2, DefaultsTried DEF DefaultTried
  <2>2. Range(log) = {}
    BY <1>1 DEF Range
  <2> QED  BY <1>5, <2>1, <2>2 DEF MethodsOK, LastGiven
<1> QED  BY <1>4, <1>6, <1>7, <1>8, <1>9 DEF LineInv

-----------------------------------------------------------------------------

LEMMA AcceptsInv ==
  LineInv /\ Accepts => LineInv'
<1> SUFFICES ASSUME LineInv, Accepts PROVE LineInv'
  OBVIOUS
<1>1. LineTypes /\ ConfigTypes
  BY DEF LineInv, LineTypes
<1>2. PICK o, a : o = Getopt.option /\ a = Getopt.argument
  OBVIOUS
<1>3. /\ phase = "options" /\ phase' = "options" /\ UNCHANGED <<given, expr, command>>
      /\ log' = Append(log, <<o, a>>) /\ <<o, a>> \in Options \X Words
      /\ args' \in Seq(Words) /\ log' \in Seq(Options \X Words)
  BY <1>1, <1>2, AcceptedOption
<1>4. ConfigTypes' /\ Took(o, a)
  BY <1>1, <1>2, AcceptedChange
<1>5. log \in Seq(Options \X Words)
  BY <1>1 DEF LineTypes
<1>6. \A O : LastIn(O)' = IF o \in O THEN <<o, a>> ELSE LastIn(O)
  BY <1>3, <1>5, LastInAppended
<1>7. LineTypes'
  BY <1>1, <1>3, <1>4 DEF LineTypes
<1>8. ClusterOK' /\ CheckedOK' /\ SplitOK'
  BY <1>3 DEF ClusterOK, CheckedOK, SplitOK, SplitAs
<1>10. NumbersOK'
  <2>1. \A q \in Quantities :
          config'.number[q] = IF o = q THEN Adjusted(o, Numbers[a]) ELSE config.number[q]
    BY <1>4 DEF Took
  <2>2. o \in Quantities => Numbers[a] \in Int /\ (o = "limit" => Numbers[a] >= 0)
    BY <1>4, CommandLineAssumption DEF Took, IsNumber
  <2>3. NumbersOK
    BY DEF LineInv
  <2> QED  BY <2>1, <2>2, <2>3 DEF NumbersOK, Quantities, Adjusted
<1>11. HostsOK'
  <2>1. HostsOK /\ config.hosts \in Seq(Words)
    BY <1>1 DEF LineInv, ConfigTypes
  <2>2. config'.hosts = IF o = "host" THEN Append(config.hosts, a) ELSE config.hosts
    BY <1>4 DEF Took
  <2>3. Range(config.hosts) \subseteq Range(config'.hosts)
    BY <2>1, <2>2 DEF Range
  <2>4. o = "host" => a \in Range(config'.hosts)
    <3> SUFFICES ASSUME o = "host" PROVE a \in Range(config'.hosts)
      OBVIOUS
    <3>1. config'.hosts = Append(config.hosts, a)
      BY <2>2
    <3>2. Len(config.hosts) + 1 \in DOMAIN config'.hosts /\ config'.hosts[Len(config.hosts) + 1] = a
      BY <2>1, <3>1
    <3> QED  BY <3>2 DEF Range
  <2>5. ASSUME NEW n \in DOMAIN log', log'[n][1] = "host"
        PROVE  log'[n][2] \in Range(config'.hosts)
    <3>1. CASE n \in DOMAIN log
      <4>1. log'[n] = log[n]
        BY <1>3, <1>5, <3>1
      <4> QED  BY <2>1, <2>3, <2>5, <3>1, <4>1 DEF HostsOK
    <3>2. CASE n \notin DOMAIN log
      <4>1. log'[n] = <<o, a>>
        BY <1>3, <1>5, <2>5, <3>2
      <4> QED  BY <2>4, <2>5, <4>1
    <3> QED  BY <3>1, <3>2
  <2> QED  BY <1>3, <2>1, <2>3, <2>5 DEF HostsOK
<1>12. AskedOK' /\ BastionOK'
  <2>1. AskedOK /\ BastionOK
    BY DEF LineInv
  <2>2. config'.text["user"] = LastIn({"user"})[2]'
    BY <1>4, <1>6, <2>1 DEF Took, AskedOK
  <2>3. config'.number["port"] =
          IF LastIn({"port"})[2]' = "" THEN 22 ELSE Numbers[LastIn({"port"})[2]']
    <3>1. CASE o = "port"
      <4>1. config'.number["port"] = Numbers[a] /\ a \in DOMAIN Numbers
        BY <1>4, <3>1 DEF Took, Quantities, Adjusted, IsNumber
      <4>2. a # ""
        BY <4>1, CommandLineAssumption
      <4> QED  BY <1>6, <3>1, <4>1, <4>2
    <3>2. CASE o # "port"
      <4>1. config'.number["port"] = config.number["port"]
        BY <1>4, <3>2 DEF Took, Quantities
      <4> QED  BY <1>6, <2>1, <3>2, <4>1 DEF AskedOK
    <3> QED  BY <3>1, <3>2
  <2>4. LastBastion' = IF o = "bastion" THEN <<o, a>> ELSE LastBastion
    BY <1>6 DEF LastBastion
  <2>5. AskedOK'
    <3>1. CASE o = "bastion"
      BY <1>4, <2>2, <2>3, <2>4, <3>1 DEF Took, AskedOK
    <3>2. CASE o # "bastion"
      BY <1>4, <2>1, <2>2, <2>3, <2>4, <3>2 DEF Took, AskedOK, EndpointPort
    <3> QED  BY <3>1, <3>2
  <2>6. BastionOK'
    <3>1. config.bastionAddress = "" /\ (LastBastion[1] # "" => config.bastionUser = Endpoints[LastBastion[2]].user)
      BY <1>3, <2>1 DEF BastionOK, BeforeLookup
    <3>2. CASE o = "bastion"
      BY <1>4, <2>4, <3>1, <3>2 DEF Took, BastionOK
    <3>3. CASE o # "bastion"
      BY <1>4, <2>4, <3>1, <3>3 DEF Took, BastionOK
    <3> QED  BY <3>2, <3>3
  <2> QED  BY <2>5, <2>6
<1>13. MethodsOK'
  <2>1. MethodsOK /\ config.methods \in Seq(Methods)
    BY <1>1 DEF LineInv, ConfigTypes
  <2>2. LastGiven' = IF o \in {"identity", "agent"} THEN <<o, a>> ELSE LastGiven
    BY <1>6 DEF LastGiven
  <2>3. Range(log') = Range(log) \cup {<<o, a>>}
    <3>1. DOMAIN log' = DOMAIN log \cup {Len(log) + 1} /\ log'[Len(log) + 1] = <<o, a>>
          /\ \A n \in DOMAIN log : log'[n] = log[n]
      BY <1>3, <1>5
    <3> QED  BY <3>1 DEF Range
  <2>4. CASE o \notin {"identity", "agent", "password"}
    <3>1. config'.methods = config.methods
      BY <1>4, <2>4 DEF Took
    <3>2. DefaultTried' <=> DefaultTried
      BY <1>3, <3>1 DEF DefaultTried
    <3>3. LastGiven' = LastGiven /\ (<<"password", NoArgument>> \in Range(log') => <<"password", NoArgument>> \in Range(log))
      BY <2>2, <2>3, <2>4
    <3> QED  BY <2>1, <3>1, <3>2, <3>3 DEF MethodsOK
  <2>5. CASE o \in {"identity", "agent", "password"}
    <3>1. PICK m \in Methods : /\ config'.methods = <<m>> \o config.methods
                               /\ o = "identity" => m = PublicKey(a)
                               /\ o = "agent" => m = PublicKey("agent")
                               /\ o = "password" => m = Password
      <4>1. MethodOf(o, a) \in Methods
        BY <1>3, <2>5 DEF MethodOf, Methods, PublicKey, Password
      <4> QED  BY <1>4, <2>5, <4>1 DEF Took, MethodOf
    <3>2. /\ m \in Tried(config'.methods)
          /\ \A k \in Tried(config.methods) : k.type # m.type => k \in Tried(config'.methods)
      BY <2>1, <3>1, TriedInFront
    <3>3. CASE o \in {"identity", "agent"}
      <4>1. m.type = "publickey" /\ Password.type = "password"
        BY <3>1, <3>3 DEF PublicKey, Password
      <4>2. <<"password", NoArgument>> \in Range(log') => <<"password", NoArgument>> \in Range(log)
        BY <2>3, <3>3
      <4>3. <<"password", NoArgument>> \in Range(log') => Password \in Tried(config'.methods)
        BY <2>1, <3>2, <4>1, <4>2 DEF MethodsOK
      <4> QED  BY <2>2, <3>1, <3>2, <3>3, <4>3 DEF MethodsOK
    <3>4. CASE o = "password"
      <4>1. m = Password /\ m.type = "password" /\ \A name : PublicKey(name).type = "publickey"
        BY <3>1, <3>4 DEF PublicKey, Password
      <4>2. LastGiven' = LastGiven
        BY <2>2, <3>4
      <4>3. \A name : PublicKey(name) \in Tried(config.methods) => PublicKey(name) \in Tried(config'.methods)
        BY <3>2, <4>1
      <4>4. DefaultTried => DefaultTried'
        BY <1>3, <4>3 DEF DefaultTried
      <4> QED  BY <2>1, <3>2, <4>1, <4>2, <4>3, <4>4 DEF MethodsOK
    <3> QED  BY <2>5, <3>3, <3>4
  <2> QED  BY <2>4, <2>5
<1> QED  BY <1>7, <1>8, <1>10, <1>11, <1>12, <1>13 DEF LineInv

\* The steps that accept no option leave Config and the options that were accepted.
QuietParts == LineTypes' /\ ClusterOK' /\ CheckedOK' /\ SplitOK'

LEMMA QuietKeeps ==
  ASSUME LineInv, UNCHANGED <<given, config, log>>, QuietParts,
         expr'.hosts \subseteq Range(config.hosts),
         phase' \in BeforeLookup => phase \in BeforeLookup
  PROVE  LineInv'
<1>1. UNCHANGED <<config, log, given>>
  OBVIOUS
<1>2. \A O : LastIn(O)' = LastIn(O)
  BY <1>1 DEF LastIn, SelectLastInSeq
<1>3. NumbersOK' /\ HostsOK'
  BY <1>1 DEF LineInv, NumbersOK, HostsOK
<1>4. LastBastion' = LastBastion /\ LastGiven' = LastGiven
  BY <1>2 DEF LastBastion, LastGiven
<1>5. AskedOK' /\ BastionOK'
  BY <1>1, <1>2, <1>4 DEF LineInv, AskedOK, BastionOK, EndpointPort
<1>6. MethodsOK'
  BY <1>1, <1>4 DEF LineInv, MethodsOK, DefaultTried
<1> QED  BY <1>3, <1>5, <1>6 DEF LineInv, QuietParts

\* The process ends.
LEMMA ExitKeeps ==
  ASSUME LineInv, UNCHANGED <<given, config, expr, log>>, args' \in Seq(Words), phase' \in Ended
  PROVE  LineInv'
<1>1. LineTypes'
  BY DEF LineInv, LineTypes, ConfigTypes
<1>2. ClusterOK' /\ CheckedOK' /\ SplitOK'
  BY DEF ClusterOK, CheckedOK, SplitOK, SplitAs
<1>3. expr'.hosts \subseteq Range(config.hosts) /\ (phase' \in BeforeLookup => phase \in BeforeLookup)
  BY DEF LineInv, HostsOK, Ended, BeforeLookup
<1> QED  BY <1>1, <1>2, <1>3, QuietKeeps DEF QuietParts

LEMMA LineStutter ==
  ASSUME LineInv, UNCHANGED <<given, phase, args, sopts, config, expr, command, log>>
  PROVE  LineInv'
<1>1. \A O : LastIn(O)' = LastIn(O)
  BY DEF LastIn, SelectLastInSeq
<1>2. LastBastion' = LastBastion /\ LastGiven' = LastGiven
  BY <1>1 DEF LastBastion, LastGiven
<1>3. LineTypes' /\ ClusterOK' /\ NumbersOK' /\ HostsOK' /\ CheckedOK' /\ SplitOK'
  BY DEF LineInv, LineTypes, ConfigTypes, ClusterOK, NumbersOK, HostsOK, CheckedOK, SplitOK,
         SplitAs, Clash
<1>4. AskedOK' /\ BastionOK' /\ MethodsOK'
  BY <1>1, <1>2 DEF LineInv, AskedOK, BastionOK, EndpointPort, MethodsOK, DefaultTried
<1> QED  BY <1>3, <1>4 DEF LineInv

LEMMA LineStepInv ==
  LineInv /\ LineNext => LineInv'
<1> SUFFICES ASSUME LineInv, LineNext PROVE LineInv'
  OBVIOUS
<1>1. given \in Invocations /\ args \in Seq(Words) /\ LineTypes
  BY DEF LineInv, LineTypes
<1>2. Getopt.args \in Seq(Words) /\ (Getopt.option = "end" => Getopt.sopts = <<>>)
  BY <1>1, GetoptTypes
<1>3. CASE ReadOptionFile
  <2>1. /\ phase = "file" /\ phase' = "options" /\ args' = AllWords
        /\ UNCHANGED <<given, sopts, config, expr, command, log>>
    BY <1>3 DEF ReadOptionFile
  <2>2. AllWords \in Seq(Words)
    <3>1. given.file \in Seq(Words) /\ given.line \in Seq(Words)
      BY <1>1, CommandLineAssumption
    <3> QED  BY <3>1 DEF AllWords
  <2>3. QuietParts
    BY <1>1, <2>1, <2>2
       DEF QuietParts, LineTypes, ConfigTypes, ClusterOK, CheckedOK, SplitOK, SplitAs
  <2> QED  BY <2>1, <2>3, QuietKeeps DEF LineInv, HostsOK, BeforeLookup
<1>4. CASE RefuseOptionFile \/ RefuseArgs \/ SetupFails
  <2>1. UNCHANGED <<given, args, config, expr, log>> /\ phase' \in Ended
    BY <1>4 DEF RefuseOptionFile, RefuseArgs, SetupFails, Exit, Ended
  <2> QED  BY <1>1, <2>1, ExitKeeps
<1>5. CASE HelpOrVersion \/ RefuseOption \/ RefuseNumber \/ RefuseBastion \/ RefuseClash
  <2>1. UNCHANGED <<given, config, expr, log>> /\ args' = Getopt.args /\ phase' \in Ended
    BY <1>5 DEF HelpOrVersion, RefuseOption, RefuseNumber, RefuseBastion, RefuseClash, Option,
                Exit, Ended
  <2> QED  BY <1>2, <2>1, ExitKeeps
<1>6. CASE TurnOn \/ SetMode \/ SetText \/ SetNumber \/ AddHost \/ SetBastion \/ AddMethod
  BY <1>6, AcceptsInv DEF Accepts
<1>7. CASE EndOptions
  <2>1. /\ phase = "options" /\ phase' = "split" /\ ~Clash
        /\ args' = Getopt.args /\ sopts' = Getopt.sopts /\ Getopt.option = "end"
        /\ UNCHANGED <<given, config, expr, command, log>>
    BY <1>7 DEF EndOptions, Option
  <2>2. LineTypes'
    BY <1>1, <1>2, <2>1 DEF LineTypes, ConfigTypes
  <2>3. ClusterOK' /\ CheckedOK' /\ SplitOK'
    BY <1>2, <2>1 DEF ClusterOK, CheckedOK, Clash, SplitOK, SplitAs, Ended
  <2> QED  BY <2>1, <2>2, <2>3, QuietKeeps DEF LineInv, HostsOK, BeforeLookup, QuietParts
<1>8. CASE SplitArgs
  <2>1. /\ phase = "split" /\ phase' = "clients" /\ Enough
        /\ expr' = [hosts |-> Range(config.hosts), words |-> Filter] /\ command' = Rest
        /\ UNCHANGED <<given, args, sopts, config, log>>
    BY <1>8 DEF SplitArgs
  <2>2. LineTypes'
    BY <1>1, <2>1 DEF LineTypes, ConfigTypes
  <2>3. ClusterOK' /\ CheckedOK'
    BY <2>1 DEF LineInv, ClusterOK, CheckedOK, Clash, Ended
  <2>4. Range(config.hosts) # {} \/ Filter # <<>>
    <3>1. config.hosts \in Seq(Words)
      BY <1>1 DEF LineTypes, ConfigTypes
    <3>2. config.hosts # <<>> => config.hosts[1] \in Range(config.hosts)
      BY <3>1 DEF Range
    <3> QED  BY <2>1, <3>2 DEF Enough
  <2>5. SplitAs(expr.words)'
    <3>1. args \in Seq(Words)
      BY <1>1 DEF LineTypes
    <3>2. PICK n \in 0 .. Len(args) : Before = SubSeq(args, 1, n)
      BY <3>1, ArgsSplit
    <3>3. /\ args \in {Before, Before \o <<":::">> \o Rest}
          /\ \/ Filter = Before
             \/ Filter = <<>> /\ Range(Before) \subseteq Blanks
      <4>1. args \in {Before, Before \o <<":::">> \o Rest}
        BY <3>1, ArgsSplit
      <4>. QED
        BY <4>1 DEF Filter
    <3>4. expr'.words = Filter /\ command' = Rest /\ args' = args
      BY <2>1
    <3>. QED
      BY <3>2, <3>3, <3>4 DEF SplitAs
  <2>6. SplitOK'
    BY <2>1, <2>4, <2>5 DEF SplitOK, Enough
  <2> QED  BY <2>1, <2>2, <2>3, <2>6, QuietKeeps DEF BeforeLookup, QuietParts
<1>9. CASE MakeClients
  <2>1. /\ phase = "clients" /\ phase' = "ready"
        /\ UNCHANGED <<given, args, sopts, config, expr, command, log>>
    BY <1>9 DEF MakeClients
  <2>2. LineTypes'
    BY <1>1, <2>1 DEF LineTypes, ConfigTypes
  <2>3. ClusterOK' /\ CheckedOK' /\ SplitOK'
    BY <2>1 DEF LineInv, ClusterOK, CheckedOK, Clash, SplitOK, SplitAs, Ended
  <2> QED  BY <2>1, <2>2, <2>3, QuietKeeps DEF LineInv, HostsOK, BeforeLookup, QuietParts
<1> QED  BY <1>3, <1>4, <1>5, <1>6, <1>7, <1>8, <1>9 DEF LineNext, Parse
=============================================================================
