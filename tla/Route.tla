-------------------------------- MODULE Route --------------------------------
(***************************************************************************)
(* A run of the program from its command line to the way each job goes and *)
(* as whom: after the set-up of CommandLine the lookup of the bastion      *)
(* (getBastion) and, for every instance, the network lookups of the filter *)
(* (has_public_net, ispublic) and of BuildJob; in print mode the line that *)
(* PrintConf prints.                                                       *)
(*                                                                         *)
(* The image and network caches are what FetchOnce says of them: the first *)
(* lookup of a key settles its result, an error as well as a value.  The   *)
(* instances are the fleet without its Docker containers; what becomes of  *)
(* the jobs is in Pssh.                                                    *)
(***************************************************************************)
EXTENDS CommandLine

CONSTANTS
  Instances,   \* the instances, in the order they are read: a sequence of names
  NetworksOf,  \* the networks of an instance: a sequence
  ImageOf,     \* the image of an instance, and of the bastion
  Colons,      \* the instances whose primary IP has a colon in it
  Bastion,     \* the instance that a bastion endpoint names
  Networks, Images,
  Filters,     \* Filters[ws]: what the words ws ask of an instance, if they parse, and
               \* the instances for which they have no value, or one that is not Boolean
  HasInput,    \* whether there is an input file, the copy of stdin that jobs read
  Placeholder, \* the words of a command that have the placeholder {} in them
  Target,      \* a word where the endpoint of the instance was put in
  Nil

Tests == {"all", "public", "private", "ispublic"}

ASSUME RouteAssumption ==
  /\ Instances \in Seq(Range(Instances))
  /\ \A n \in DOMAIN Instances :
        /\ NetworksOf[Instances[n]] \in Seq(Networks)
        /\ ImageOf[Instances[n]] \in Images
  /\ ImageOf[Bastion] \in Images
  /\ \A ws \in DOMAIN Filters :
        Filters[ws].test \in Tests /\ Filters[ws].nets \in Seq(Networks)
  /\ Nil \notin {"public", "private", "error", "tagged", "plain"}
  /\ HasInput \in BOOLEAN

VARIABLES
  net,      \* net[n]: what the network cache has for n: "public", "private", "error"
  img,      \* img[m]: what the image cache has for m: "tagged", "plain", "error"
  next,     \* the place of the current instance
  queue,    \* the networks that HasPublic or ispublic still has to look up
  public,   \* what they have found of the current instance
  listed,   \* listed[i]: has_public_net in the context the filter saw
  matched,  \* how many instances were selected
  job,      \* job[i]: how instance i is reached and as whom
  printed   \* the command lines that were printed

caches == <<net, img>>
vars == <<lineVars, caches, next, queue, public, listed, matched, job, printed>>

Hosts == {Instances[n] : n \in DOMAIN Instances}

NoJob == [way |-> "", user |-> "", port |-> 0, bastion |-> "", as |-> "", gate |-> 0]

Init ==
  /\ LineInit
  /\ net = [n \in Networks |-> Nil]
  /\ img = [m \in Images |-> Nil]
  /\ next = 1
  /\ queue = <<>> /\ public = FALSE
  /\ listed = [i \in Hosts |-> FALSE]
  /\ matched = 0
  /\ job = [i \in Hosts |-> NoJob]
  /\ printed = <<>>

Current == Instances[next]

\* The main loop is in the given phase p for an instance.
At(p) == phase = p /\ next <= Len(Instances)

\* Only the phase and Config may change of what CommandLine has set up.
LineStays == UNCHANGED <<given, args, sopts, expr, command, log>>
ConfigStays == LineStays /\ UNCHANGED config

-----------------------------------------------------------------------------
(***************************************************************************)
(* The caches                                                              *)
(***************************************************************************)

\* Variant: an error is not cached, so that the next lookup may get another result.
NetworkIsNow(n, r) ==
  /\ r \in {"public", "private", "error"}
  /\ net[n] \in {Nil, "error", r}
  /\ net' = [net EXCEPT ![n] = r]

\* NetCache.Get(n) has the result r.
NetworkIs(n, r) ==
  /\ r \in {"public", "private", "error"}
  /\ net[n] \in {Nil, r}
  /\ net' = [net EXCEPT ![n] = r]

ImageIs(m, r) ==
  /\ r \in {"tagged", "plain", "error"}
  /\ img[m] \in {Nil, r}
  /\ img' = [img EXCEPT ![m] = r]

\* The user an image asks for: its tag, or root when it has none; Config.DefaultUser
\* only when there is no image.
DefaultUser(r) ==
  CASE r = "error"  -> config.text["default-user"]
    [] r = "tagged" -> "tag"
    [] r = "plain"  -> "root"

-----------------------------------------------------------------------------
(***************************************************************************)
(* main up to the loop                                                     *)
(***************************************************************************)

\* The user that is found for the bastion is used when none was given.
BastionUser(user) == IF config.bastionUser = "" THEN user ELSE config.bastionUser

\* The bastion is looked for.
Lookup == phase = "ready" /\ config.bastionName # ""

\* getBastion finds the instance.
FindBastion ==
  /\ Lookup
  /\ \E r \in {"tagged", "plain", "error"} :
       /\ ImageIs(ImageOf[Bastion], r)
       /\ config' = [config EXCEPT !.bastionAddress = Bastion,
                                   !.bastionUser = BastionUser(DefaultUser(r))]
  /\ phase' = "loop"
  /\ LineStays
  /\ UNCHANGED <<net, next, queue, public, listed, matched, job, printed>>

\* getBastion finds no instance of that name: nobody is told.
NoBastionFound ==
  /\ Lookup
  /\ config' = [config EXCEPT !.bastionUser = BastionUser("")]
  /\ phase' = "loop"
  /\ LineStays
  /\ UNCHANGED <<caches, next, queue, public, listed, matched, job, printed>>

\* The API fails: ErrQuit.
BastionFails ==
  /\ Lookup
  /\ phase' = "1"
  /\ ConfigStays
  /\ UNCHANGED <<caches, next, queue, public, listed, matched, job, printed>>

NoBastion ==
  /\ phase = "ready" /\ config.bastionName = ""
  /\ phase' = "loop"
  /\ ConfigStays
  /\ UNCHANGED <<caches, next, queue, public, listed, matched, job, printed>>

-----------------------------------------------------------------------------
(***************************************************************************)
(* HasPublic, called by buildContext for the filter and again by BuildJob, *)
(* and UserFuncIsPublic                                                    *)
(***************************************************************************)

\* Variant: the search goes on from what the last one has found.
SearchKeeps(ns) == queue' = ns /\ UNCHANGED public

\* A search begins: the networks in ns are looked up one after the other.
Search(ns) == queue' = ns /\ public' = FALSE

\* The loop of main reads an instance and looks its image up.
ReadInstance ==
  /\ At("loop")
  /\ \E r \in {"tagged", "plain", "error"} : ImageIs(ImageOf[Current], r)
  /\ phase' = "filter"
  /\ Search(NetworksOf[Current])
  /\ ConfigStays
  /\ UNCHANGED <<net, next, listed, matched, job, printed>>

\* Variant: every network must be public.
AskNetworkAll ==
  /\ phase \in {"filter", "call", "build"}
  /\ queue # <<>>
  /\ \E r \in {"public", "private", "error"} :
       NetworkIs(Head(queue), r) /\ public' = (r = "public")
  /\ queue' = Tail(queue)
  /\ ConfigStays
  /\ UNCHANGED <<img, phase, next, listed, matched, job, printed>>

\* One network is looked up after the other until one is public.
AskNetwork ==
  /\ phase \in {"filter", "call", "build"}
  /\ queue # <<>>
  /\ \E r \in {"public", "private", "error"} :
       /\ NetworkIs(Head(queue), r)
       /\ public' = (r = "public")
       /\ queue' = IF r = "public" THEN <<>> ELSE Tail(queue)
  /\ ConfigStays
  /\ UNCHANGED <<img, phase, next, listed, matched, job, printed>>

\* The search is over: a network was public or none is left.
Answered == queue = <<>>

-----------------------------------------------------------------------------
(***************************************************************************)
(* Evaluate, and the limit                                                 *)
(***************************************************************************)

NextInstance == next' = next + 1 /\ phase' = "loop" /\ Search(<<>>)

\* The name of the current instance was given with -h.
Named == Current \in expr.hosts

\* The words of the filter are an expression, or there are none, and it has a value for
\* the current instance; it is not looked at when the name decides already.
HasValue ==
  expr.words # <<>> =>
    expr.words \in DOMAIN Filters /\ (Named \/ Current \notin Filters[expr.words].fails)

\* The filter calls ispublic; it does not when the name decides already.
Calls == ~Named /\ expr.words # <<>> /\ Filters[expr.words].test = "ispublic"

\* Variant: the names narrow the filter down.
SelectsBoth(found) ==
  (expr.hosts = {} \/ Named) /\
  CASE expr.words = <<>> -> TRUE
    [] expr.words # <<>> /\ Filters[expr.words].test = "all" -> TRUE
    [] expr.words # <<>> /\ Filters[expr.words].test \in {"public", "ispublic"} -> found
    [] expr.words # <<>> /\ Filters[expr.words].test = "private" -> ~found

\* The expression is true of the current instance when found is what the search of
\* has_public_net or ispublic has found.
Selects(found) ==
  \/ Named
  \/ /\ expr.words # <<>>
     /\ CASE Filters[expr.words].test = "all" -> TRUE
          [] Filters[expr.words].test \in {"public", "ispublic"} -> found
          [] Filters[expr.words].test = "private" -> ~found

\* One that is not selected is skipped, one beyond the limit ends the loop.
Decide ==
  /\ IF Selects(public) THEN matched' = matched + 1 ELSE UNCHANGED matched
  /\ \/ ~Selects(public) /\ NextInstance
     \/ /\ Selects(public) /\ matched < config.number["limit"]
        /\ phase' = "build" /\ next' = next /\ Search(NetworksOf[Current])
     \/ /\ Selects(public) /\ matched >= config.number["limit"]
        /\ phase' = "end" /\ next' = next /\ Search(<<>>)
  /\ ConfigStays
  /\ UNCHANGED <<caches, job, printed>>

\* The context of the expression is complete.
ContextDone ==
  /\ At("filter") /\ Answered
  /\ listed' = [listed EXCEPT ![Current] = public]

Evaluate == ContextDone /\ HasValue /\ ~Calls /\ Decide

CallIsPublic ==
  /\ ContextDone /\ HasValue /\ Calls
  /\ phase' = "call"
  /\ Search(Filters[expr.words].nets)
  /\ ConfigStays
  /\ UNCHANGED <<caches, next, matched, job, printed>>

IsPublicReturns == At("call") /\ Answered /\ Decide /\ UNCHANGED listed

\* ErrQuit.
EvaluationFails ==
  /\ ContextDone /\ ~HasValue
  /\ phase' = "1"
  /\ ConfigStays
  /\ UNCHANGED <<caches, next, queue, public, matched, job, printed>>

-----------------------------------------------------------------------------
(***************************************************************************)
(* BuildJob                                                                *)
(***************************************************************************)

Forced == "force-bastion" \in config.on

\* Variant: without a bastion the instance is tried directly.
WayWithoutBastion ==
  IF config.bastionAddress = "" \/ (public /\ ~Forced) THEN "direct" ELSE "bastion"

\* Variant: nobody looks whether there is a bastion.
WayUnchecked == IF public /\ ~Forced THEN "direct" ELSE "bastion"

\* How BuildJob has the current instance reached.
Way ==
  CASE ~public /\ config.bastionAddress = "" -> "none"
    [] public /\ ~Forced -> "direct"
    [] OTHER -> "bastion"

\* A job whose bastion has no address gets the endpoint ":port".
JobFor(user) ==
  CASE Way = "bastion" -> [way |-> "bastion", user |-> user, port |-> config.number["port"],
                           bastion |-> config.bastionAddress, as |-> config.bastionUser,
                           gate |-> config.bastionPort]
    [] Way = "direct"  -> [NoJob EXCEPT !.way = "direct", !.user = user,
                                        !.port = config.number["port"]]
    [] Way = "none"    -> [NoJob EXCEPT !.way = "none"]

\* The input file is opened for every job anew, which can fail.
NotOpened == [NoJob EXCEPT !.way = "unopened"]

\* The job j is run, or printed; if there is none to run a warning is printed and main goes
\* on with the next instance.
Take(j) ==
  /\ job' = [job EXCEPT ![Current] = j]
  /\ IF config.mode = "pssh" \/ j.way \notin {"direct", "bastion"}
     THEN NextInstance
     ELSE phase' = "print" /\ next' = next /\ Search(<<>>)
  /\ ConfigStays
  /\ UNCHANGED <<net, listed, matched, printed>>

Build(user) ==
  \/ Take(JobFor(user))
  \/ HasInput /\ Way # "none" /\ Take(NotOpened)

\* The user of the command line; the image is not looked up for the job.
BuildAsUser ==
  /\ At("build") /\ Answered
  /\ config.text["user"] # ""
  /\ Build(config.text["user"])
  /\ UNCHANGED img

BuildAsDefaultUser ==
  /\ At("build") /\ Answered
  /\ config.text["user"] = ""
  /\ \E r \in {"tagged", "plain", "error"} :
       ImageIs(ImageOf[Current], r) /\ Build(DefaultUser(r))

-----------------------------------------------------------------------------
(***************************************************************************)
(* PrintConf                                                               *)
(***************************************************************************)

\* The endpoints of the job are an address and a port with one colon between them.
Splits == Current \notin Colons /\ job[Current].bastion \notin Colons

\* ExpandPlaceholder finds a word to put the endpoint of the instance in.
Expands == config.mode = "ssh" \/ \E n \in DOMAIN command : command[n] \in Placeholder

\* The words for ssh before '--', the endpoint and what ssh is to run; for scp and
\* rsync the endpoint is put into the words.
Printed ==
  LET end(w) == w = "--"
      n == SelectInSeq(command, end)
      d == IF n = 0 THEN Len(command) + 1 ELSE n
  IN IF config.mode = "ssh"
     THEN SubSeq(command, 1, d - 1) \o <<Target>> \o SubSeq(command, d + 1, Len(command))
     ELSE [w \in DOMAIN command |-> IF command[w] \in Placeholder THEN Target ELSE command[w]]

\* A bastion without an address is not printed.
CommandLineOf(j) ==
  [host |-> Current, user |-> j.user, port |-> j.port, words |-> Printed,
   way |-> IF j.bastion = "" THEN "direct" ELSE "bastion",
   as |-> IF j.bastion = "" THEN "" ELSE j.as,
   gate |-> IF j.bastion = "" THEN 0 ELSE j.gate]

\* Variant: the loop goes on after a line was printed.
PrintConfGoesOn ==
  /\ At("print") /\ Splits /\ Expands
  /\ printed' = Append(printed, CommandLineOf(job[Current]))
  /\ NextInstance
  /\ ConfigStays
  /\ UNCHANGED <<caches, listed, matched, job>>

\* One line is printed, and the process ends.
PrintConf ==
  /\ At("print") /\ Splits /\ Expands
  /\ printed' = Append(printed, CommandLineOf(job[Current]))
  /\ phase' = "0"
  /\ ConfigStays
  /\ UNCHANGED <<caches, next, queue, public, listed, matched, job>>

PrintFails ==
  /\ At("print") /\ ~(Splits /\ Expands)
  /\ phase' = "1"
  /\ ConfigStays
  /\ UNCHANGED <<caches, next, queue, public, listed, matched, job, printed>>

-----------------------------------------------------------------------------

\* The range loop is over.
Finish ==
  /\ phase = "loop"
  /\ next > Len(Instances)
  /\ phase' = "end"
  /\ ConfigStays
  /\ UNCHANGED <<caches, next, queue, public, listed, matched, job, printed>>

\* main returns when the jobs are done, or ends with an error if there are none to do.
Return ==
  /\ phase = "end"
  /\ phase' = IF matched = 0 THEN "1" ELSE "0"
  /\ ConfigStays
  /\ UNCHANGED <<caches, next, queue, public, listed, matched, job, printed>>

SetUp == LineNext /\ UNCHANGED <<caches, next, queue, public, listed, matched, job, printed>>

Loop ==
  \/ ReadInstance \/ AskNetwork \/ Evaluate \/ CallIsPublic \/ IsPublicReturns
  \/ EvaluationFails \/ BuildAsUser \/ BuildAsDefaultUser \/ PrintConf \/ PrintFails

Next ==
  \/ SetUp
  \/ FindBastion \/ NoBastionFound \/ BastionFails \/ NoBastion
  \/ Loop \/ Finish \/ Return

Spec == Init /\ [][Next]_vars

-----------------------------------------------------------------------------
(***************************************************************************)
(* Properties                                                              *)
(***************************************************************************)

\* Every variable has its type, and a search goes on only while nothing was found.
TypeOK ==
  /\ LineTypeOK
  /\ phase \in {"file", "options", "split", "clients", "ready", "loop", "filter", "call",
                "build", "print", "end", "0", "1"}
  /\ net \in [Networks -> {Nil, "public", "private", "error"}]
  /\ img \in [Images -> {Nil, "tagged", "plain", "error"}]
  /\ next \in 1 .. Len(Instances) + 1
  /\ queue \in Seq(Networks)
  /\ public \in BOOLEAN
  /\ queue # <<>> => ~public
  /\ listed \in [Hosts -> BOOLEAN]
  /\ matched \in 0 .. Len(Instances)
  /\ \A i \in Hosts : job[i].way \in {"", "none", "unopened", "direct", "bastion"}

Known(i) == \E n \in DOMAIN NetworksOf[i] : net[NetworksOf[i][n]] = "public"

\* An instance is connected to directly only when one of its networks is known to be
\* public; one whose networks cannot be looked up goes through the bastion or gets no
\* job (HasPublic, BuildJob).
NeverDirectBlindly == \A i \in Hosts : job[i].way = "direct" => Known(i)

\* An instance has has_public_net if any of its networks is public, whichever that is
\* and whatever came of looking up the others; that an instance further on is looked
\* up does not change what the filter saw of this one (HasPublic, buildContext).
PublicMeansAny ==
  \A n \in DOMAIN Instances : next > n => (listed[Instances[n]] <=> Known(Instances[n]))

\* HasPublic is asked twice about an instance, for the filter and for the route, and
\* the service may answer, fail or change in between: what '!has_public_net' selects
\* is never reached directly, and what 'has_public_net' does always is, unless the
\* user insists on the bastion (buildContext, BuildJob).
FilterAgreesWithRoute ==
  \A i \in Hosts : job[i].way \in {"direct", "bastion"} =>
    (job[i].way = "direct" <=> listed[i] /\ ~Forced)

\* The last argument that option o was given, or none.
LastOf(o) == LastIn({o})[2]

\* A job that has to go through the bastion has the bastion's address, and port and user
\* there are those of the last -b, whether that is in the option file or on the command
\* line, else 22 and the user of the bastion's image; the last -u and -P are user and
\* port of the instance only (ParseOptions, getBastion, BuildJob).
BastionAsAsked ==
  \A i \in Hosts : job[i].way = "bastion" /\ config.bastionAddress # "" =>
    /\ job[i].bastion = Bastion
    /\ LET e == Endpoints[LastOf("bastion")] IN
         /\ job[i].as = IF e.user # "" THEN e.user ELSE DefaultUser(img[ImageOf[Bastion]])
         /\ job[i].gate = IF e.port # "" THEN Numbers[e.port] ELSE 22
    /\ job[i].user = IF LastOf("user") # "" THEN LastOf("user")
                     ELSE DefaultUser(img[ImageOf[i]])
    /\ job[i].port = IF LastOf("port") # "" THEN Numbers[LastOf("port")] ELSE 22

\* A job that is to go through a bastion without an address, and so to this machine, is
\* one the user asked for with -B of an instance that could be reached directly: no
\* instance in a private network is ever given one (ssh.go:108-120).
EmptyBastionOnlyForced ==
  \A i \in Hosts : job[i].way = "bastion" /\ job[i].bastion = "" => Forced /\ Known(i)

\* At the end of a run that the limit did not cut short every instance named with -h has
\* its job, whatever the filter beside it says, but for two cases: it is in no public
\* network and no bastion was found, or it could be reached and the input file could not
\* be opened for it (main.go:343-349, the loop of main, ssh.go:108-131).
NamedAreTaken ==
  phase = "end" /\ matched <= config.number["limit"] =>
    \A l \in Range(log) : l[1] = "host" /\ l[2] \in Hosts =>
      \/ job[l[2]].way \in {"direct", "bastion"}
      \/ job[l[2]].way = "none" /\ ~Known(l[2]) /\ config.bastionAddress = ""
      \/ /\ job[l[2]].way = "unopened" /\ HasInput
         /\ Known(l[2]) \/ config.bastionAddress # ""

\* "If the expression matches to more than one instance, triton-ssh.sh will just connect
\* the first machine it matches" (README.md:254): one line is printed, for the first
\* instance that was selected and for which a job could be built, and it logs in as the
\* job would and goes the way the job would, but for a forced bastion without an address.
PrintedIsFirstReachable ==
  printed # <<>> =>
    /\ Len(printed) = 1 /\ phase = "0"
    /\ \A i \in Hosts : job[i].way \in {"direct", "bastion"} => i = printed[1].host
    /\ LET j == job[printed[1].host] IN
         /\ printed[1].user = j.user /\ printed[1].port = j.port
         /\ printed[1].way = "bastion" => /\ j.way = "bastion"
                                          /\ printed[1].as = j.as /\ printed[1].gate = j.gate
         /\ printed[1].way = "direct" => Known(printed[1].host)
=============================================================================
