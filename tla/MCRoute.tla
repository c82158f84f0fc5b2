------------------------------- MODULE MCRoute -------------------------------
(***************************************************************************)
(* Instances of Route for TLC: three instances of which two share a        *)
(* network and one is of the bastion's image.                              *)
(*                                                                         *)
(* The command lines are of two families.  In Routings the options that    *)
(* matter for the way of a job are combined with filters and modes; in     *)
(* Settings any two options, with values at their limits, follow one of    *)
(* the option files, and the filter does not parse, so that a run that is  *)
(* accepted ends at its first instance.                                    *)
(***************************************************************************)
EXTENDS Route, FiniteSets

MCInstances == <<"i1", "i2", "i3">>

MCNetworksOf ==
  [i \in {"i1", "i2", "i3"} |->
     CASE i = "i1" -> <<"n1", "n2">> [] i = "i2" -> <<"n2">> [] i = "i3" -> <<>>]

MCImageOf == [i \in {"i1", "i2", "i3", Bastion} |-> IF i \in {"i1", "i2"} THEN "m1" ELSE "m2"]

Test(t) == [test |-> t, nets |-> <<>>, fails |-> {}]

MCFilters ==
  (<<"true">> :> Test("all")) @@
  (<<"has_public_net">> :> Test("public")) @@
  (<<"!", "has_public_net">> :> Test("private")) @@
  (<<"ispublic(n2)">> :> [test |-> "ispublic", nets |-> <<"n2">>, fails |-> {}]) @@
  (<<"tag">> :> [test |-> "all", nets |-> <<>>, fails |-> {"i1", "i3"}])

MCClusters ==
  ("-u" :> <<"user">>) @@ ("-b" :> <<"bastion">>) @@ ("-B" :> <<"force-bastion">>) @@
  ("-Bb" :> <<"force-bastion", "bastion">>) @@ ("-uB" :> <<"user", "force-bastion">>) @@
  ("-h" :> <<"host">>) @@ ("-n" :> <<"limit">>) @@ ("-P" :> <<"port">>) @@ ("-p" :> <<"parallel">>) @@
  ("-1" :> <<"ssh">>) @@ ("-2" :> <<"scp">>) @@ ("-I" :> <<"identity">>) @@
  ("-A" :> <<"agent">>) @@ ("-i" :> <<"inline">>) @@ ("-o" :> <<"outdir">>) @@
  ("-io" :> <<"inline", "outdir">>) @@ ("-x" :> <<"unknown">>)

Long(name, argument) == [name |-> name, argument |-> argument]

MCLongs ==
  ("--password" :> Long("password", NoArgument)) @@
  ("--inline-stdout=no" :> Long("inline-stdout", "no")) @@
  ("--url=u" :> Long("url", "u")) @@
  ("--user" :> Long("user", NoArgument)) @@
  ("--errdir=d" :> Long("errdir", "d")) @@
  ("--help" :> Long("help", NoArgument))

MCNumbers == ("-1" :> -1) @@ ("0" :> 0) @@ ("1" :> 1) @@ ("2" :> 2)

Endpoint3(user, host, port) == [user |-> user, host |-> host, port |-> port]

MCEndpoints ==
  ("hub" :> Endpoint3("", "hub", "")) @@ ("me@hub" :> Endpoint3("me", "hub", "")) @@
  ("me@hub:2" :> Endpoint3("me", "hub", "2")) @@ ("hub:0" :> Endpoint3("", "hub", "0"))

\* All the ways to put one word sequence of each set after the other.
Joined(A, B) == {a \o b : a \in A, b \in B}

Ways ==
  Joined({<<>>, <<"-u", "me", "-P", "2">>},
         {<<>>, <<"-B">>, <<"-b", "hub">>, <<"-Bb", "me@hub:2">>, <<"-b", "me@hub:2", "-b", "hub">>})

Selections ==
  Joined({<<"true">>, <<"has_public_net">>, <<"!", "has_public_net">>,
          <<"-h", "i3", "has_public_net">>, <<"-h", "i1", "ispublic(n2)">>, <<"-h", "i1", "tag">>,
          <<"-n", "1", "true">>}, {<<":::", "uptime">>})
  \cup {<<"-1", "-h", "i2", "-h", "i3">>, <<"-1", "has_public_net", ":::", "-v", "--", "uptime">>,
        <<"-2", "true", ":::", "a", "{}:/tmp">>, <<"-2", "-h", "i1", ":::", "a">>}

Routings ==
  [file : {<<>>, <<"-b", "me@hub">>}, line : Joined(Ways, Selections), keys : {{}}]

OptionWords ==
  {<<"-I", "k">>, <<"-A">>, <<"--password">>, <<"-p", "0">>, <<"-p", "x">>, <<"-n", "-1">>,
   <<"-n", "0">>, <<"-o", "d">>, <<"-io", "d">>, <<"-i">>, <<"--inline-stdout=no">>,
   <<"--errdir=d">>, <<"--url=u">>, <<"--user">>, <<"-uB", "me">>, <<"-u", "--">>, <<"-x">>,
   <<"-b", "hub:0">>, <<"-b", ":">>, <<"--help">>, <<"-h", "i1">>, <<"--">>}

Endings == {<<"no", "filter", ":::", "uptime">>, <<"uptime">>, <<":::", "uptime">>,
            <<"a", "b">>, <<"a", ":::">>, <<" ", ":::", "uptime">>}

Settings ==
  [file : {<<>>, <<"-i">>, <<"-I", "f">>, <<"stray">>, <<"-u">>, <<":::">>},
   line : Joined(Joined(OptionWords \cup {<<>>}, OptionWords \cup {<<>>}), {<<"no", "filter", ":::", "uptime">>}),
   keys : {{}}]
  \cup
  [file : {<<>>, <<"-A">>, <<"--password">>},
   line : Joined({<<>>, <<"-I", "k">>, <<"--password">>, <<"-A">>, <<"-h", "i1">>}, Endings),
   keys : SUBSET {"id_ed25519", "id_dsa", "id_rsa"}]

MCInvocations == Routings \cup Settings
=============================================================================
